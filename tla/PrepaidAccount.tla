--------------------------- MODULE PrepaidAccount ---------------------------
(***************************************************************************)
(* What an account of credits promises: what was paid in, what was used    *)
(* for work the Provider accepted, and what is held for orders that are    *)
(* under way.  A payment may be taken back after its credits were used,    *)
(* which leaves a debt; nothing new is held until it is repaid.            *)
(***************************************************************************)
EXTENDS Integers

VARIABLES worth, used, held

account == <<worth, used, held>>

Init == worth = 0 /\ used = 0 /\ held = 0

PayIn == worth' > worth /\ UNCHANGED <<used, held>>

TakeBack == worth' < worth /\ UNCHANGED <<used, held>>

\* Only what is there can be held.
Hold == held' > held /\ used + held' <= worth /\ UNCHANGED <<worth, used>>

\* What is used was held before.
Use == used' > used /\ used' + held' = used + held /\ held' >= 0 /\ UNCHANGED worth

GiveBack == held' < held /\ held' >= 0 /\ UNCHANGED <<worth, used>>

Next == PayIn \/ TakeBack \/ Hold \/ Use \/ GiveBack

Spec == Init /\ [][Next]_account

=============================================================================
