---------------------------- MODULE FencedHolder ----------------------------
(***************************************************************************)
(* What the lease of job_lease_service promises to everybody who works on  *)
(* a generation job.  At most one claim holds the job; another claim may   *)
(* take it only when the holder's time is over; and whoever enters work on *)
(* the job is its current holder, in the current epoch.  Work that was     *)
(* entered is not stopped: it may end after another claim took the job,    *)
(* and may then take it from that one, but not for itself.                 *)
(***************************************************************************)
EXTENDS Naturals

CONSTANTS Sessions, None

VARIABLES
  holder,    \* the claim that holds the job, or None
  live,      \* its time is not over
  epoch,     \* how often the job was taken
  lastEntry  \* the epoch in which work was last entered

vars == <<holder, live, epoch, lastEntry>>

Init == holder = None /\ live = FALSE /\ epoch = 0 /\ lastEntry = 0

Take(s) ==
  /\ ~live
  /\ holder' = s
  /\ live' \in BOOLEAN   \* a claim may wait for the row until its time is over
  /\ epoch' = epoch + 1
  /\ UNCHANGED lastEntry

Renew ==
  /\ holder # None
  /\ live' \in BOOLEAN
  /\ UNCHANGED <<holder, epoch, lastEntry>>

Expire ==
  /\ live' = FALSE
  /\ UNCHANGED <<holder, epoch, lastEntry>>

Enter ==
  /\ holder # None
  /\ lastEntry' = epoch
  /\ \/ UNCHANGED <<holder, live>>
     \/ holder' = None /\ live' = FALSE   \* work that gives the job up
  /\ UNCHANGED epoch

\* The job is taken from its holder without being given to anybody: by those who
\* need no lease, or by work entered in an earlier epoch.
Drop ==
  /\ holder' = None /\ live' = FALSE
  /\ UNCHANGED <<epoch, lastEntry>>

Next == (\E s \in Sessions : Take(s)) \/ Renew \/ Expire \/ Enter \/ Drop

Spec == Init /\ [][Next]_vars

=============================================================================
