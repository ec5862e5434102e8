------------------------- MODULE SubscriptionsProofs -------------------------
(* Theorems about Subscriptions, for any number of checkouts and any bounds. *)
EXTENDS Subscriptions, TLAPS

\* The provider will not renew these.
WillEnd == {"CANCEL_REQUESTED", "CANCELED"}

\* Every event tells a fact: its period is paid, and a cancellation it tells of stands.
EventsAreFacts ==
  \A e \in sent : /\ e.period <= sub[e.key].period
                  /\ e.at <= now
                  /\ e.status = "CANCEL_REQUESTED" => sub[e.key].status \in WillEnd

\* A request that has been taken, and whose handler still waits, was granted.
TakenIsScheduled ==
  \A i \in DOMAIN cancels : cancels[i].caller /\ ~cancels[i].wire =>
    sub[cancels[i].of].status \in WillEnd

Facts(k) == {e \in applied : e.key = k /\ e.kind # "completed"}

\* A cancellation of the subscription is confirmed.
Overruled(k) == \E i \in DOMAIN cancels : cancels[i].of = k /\ cancels[i].state = "CONFIRMED"

\* The row has the time of its latest fact, and its status unless that is overruled.
RowIsLatest ==
  \A k \in Keys :
    /\ row[k].status = "none" => Facts(k) = {}
    /\ \A e \in Facts(k) : e.at <= row[k].last
    /\ row[k].last # 0 => Facts(k) # {}
    /\ \/ row[k].status = "CANCEL_REQUESTED" /\ Overruled(k)
       \/ Facts(k) = {} /\ row[k].status \in {"none", "PENDING"}
       \/ \E e \in Facts(k) : e.at = row[k].last /\ e.status = row[k].status

\* The paid period is the latest one granted, and each is granted once.
PaidIsLatest ==
  \A k \in Keys :
    /\ \A p \in Periods : grants[k][p] = IF \E e \in PaidEvents(k) : e.period = p THEN 1 ELSE 0
    /\ \A e \in PaidEvents(k) : e.period <= row[k].paid
    /\ row[k].paid # 0 => \E e \in PaidEvents(k) : e.period = row[k].paid

PeriodsAreFacts ==
  \A k \in Keys : sub[k].period <= now /\ (sub[k].status = "none" => sub[k].period = 0)

Inv ==
  /\ TypeOK
  /\ PeriodsAreFacts
  /\ EventsAreFacts
  /\ TakenIsScheduled
  /\ ConfirmedWillEnd
  /\ RowIsLatest
  /\ PaidIsLatest

-----------------------------------------------------------------------------
(* Data *)

LEMMA MaxIs ==
  ASSUME NEW S \in SUBSET Nat, NEW m \in S, \A x \in S : x <= m
  PROVE  Max(S) = m
<1>1. \E x \in S : \A y \in S : x >= y
  OBVIOUS
<1>2. Max(S) \in S /\ \A y \in S : Max(S) >= y
  BY <1>1 DEF Max
<1> DEFINE n == Max(S)
<1>3. n \in Nat /\ n <= m /\ m <= n /\ m \in Nat
  BY <1>2
<1> HIDE DEF n
<1>4. n = m
  BY <1>3
<1> QED
  BY <1>4 DEF n

LEMMA RowFields ==
  ASSUME TypeOK, NEW k \in Keys
  PROVE  /\ row[k] \in [status : Statuses \union {"none"}, last : Periods, paid : Periods]
         /\ row[k].status \in Statuses \union {"none"} /\ row[k].last \in Periods /\ row[k].paid \in Periods
         /\ row[k].paid <= sub[k].period /\ row[k].last <= now
         /\ sub[k].status \in Statuses \union {"none"} /\ sub[k].period \in Periods
         /\ now \in Periods /\ MaxFacts \in Nat
BY BoundsAreCounts DEF TypeOK

LEMMA EventFields ==
  ASSUME TypeOK, NEW e \in sent
  PROVE  /\ e.key \in Keys /\ e.status \in Statuses /\ e.period \in Periods /\ e.at \in Periods
         /\ e.kind \in {"completed", "status", "paid"} /\ e \in Event
BY DEF TypeOK, Event

LEMMA CancelFields ==
  ASSUME TypeOK, NEW i \in DOMAIN cancels
  PROVE  cancels[i] \in Cancel /\ cancels[i].of \in Keys
<1>1. cancels \in Seq(Cancel)
  BY DEF TypeOK
<1>2. cancels[i] \in Cancel
  BY <1>1
<1> QED
  BY <1>2 DEF Cancel

\* A cancellation is changed in place.
LEMMA ChangedCancels ==
  ASSUME TypeOK, NEW c, c = [i \in DOMAIN cancels |-> c[i]],
         \A i \in DOMAIN cancels : c[i] \in Cancel
  PROVE  c \in Seq(Cancel) /\ Len(c) = Len(cancels) /\ DOMAIN c = DOMAIN cancels
<1>1. cancels \in Seq(Cancel)
  BY DEF TypeOK
<1>2. DOMAIN cancels = 1..Len(cancels) /\ Len(cancels) \in Nat
  BY <1>1
<1>3. c \in [1..Len(cancels) -> Cancel]
  BY <1>2
<1> QED
  BY <1>2, <1>3

-----------------------------------------------------------------------------

LEMMA InitInv == Init => Inv
<1> SUFFICES ASSUME Init PROVE Inv
  OBVIOUS
<1>1. 0 \in Periods /\ MaxCancels \in Nat
  BY BoundsAreCounts DEF Periods
<1>2. TypeOK
  BY <1>1 DEF Init, TypeOK, NoRow
<1>3. DOMAIN cancels = {}
  BY DEF Init
<1>4. EventsAreFacts /\ TakenIsScheduled /\ ConfirmedWillEnd
  BY <1>3 DEF Init, EventsAreFacts, TakenIsScheduled, ConfirmedWillEnd
<1>5. RowIsLatest /\ PaidIsLatest
  BY DEF Init, RowIsLatest, PaidIsLatest, Facts, PaidEvents, NoRow
<1>6. PeriodsAreFacts
  BY DEF Init, PeriodsAreFacts
<1> QED
  BY <1>2, <1>4, <1>5, <1>6 DEF Inv

\* Steps that leave the subscriptions and the events as they are.
LEMMA QuietStep ==
  ASSUME Inv, UNCHANGED <<row, grants, sub, now, sent, applied>>,
         checkout' \in [Keys -> {"unused", "CALLING", "READY", "UNKNOWN",
                                  "FAILED_RETRYABLE", "CONFIRMED"}],
         reading' \in Keys \union {None}, posting' \subseteq Keys,
         ending' \in Keys \union {None}, reviewed' \subseteq sent,
         cancels' \in Seq(Cancel), Len(cancels') <= MaxCancels,
         DOMAIN cancels \subseteq DOMAIN cancels',
         \A i \in DOMAIN cancels :
           /\ cancels'[i].of = cancels[i].of
           /\ cancels[i].state = "CONFIRMED" => cancels'[i].state = "CONFIRMED",
         TakenIsScheduled', ConfirmedWillEnd'
  PROVE  Inv'
<1>1. TypeOK'
  BY DEF Inv, TypeOK
<1>2. EventsAreFacts' /\ PeriodsAreFacts'
  BY DEF Inv, EventsAreFacts, PeriodsAreFacts
<1>3. PaidIsLatest'
  BY DEF Inv, PaidIsLatest, PaidEvents
<1>4. RowIsLatest'
  <2>1. \A k \in Keys : Overruled(k) => Overruled(k)'
    BY DEF Overruled
  <2>2. \A k \in Keys : Facts(k)' = Facts(k)
    BY DEF Facts
  <2> QED
    BY <2>1, <2>2 DEF Inv, RowIsLatest
<1> QED
  BY <1>1, <1>2, <1>3, <1>4 DEF Inv

\* Steps that leave the cancellations alone, too.
LEMMA CheckoutStep ==
  ASSUME Inv, UNCHANGED <<row, grants, sub, now, sent, applied, cancels>>,
         checkout' \in [Keys -> {"unused", "CALLING", "READY", "UNKNOWN",
                                  "FAILED_RETRYABLE", "CONFIRMED"}],
         reading' \in Keys \union {None}, posting' \subseteq Keys,
         ending' \in Keys \union {None}, reviewed' \subseteq sent
  PROVE  Inv'
<1>1. TakenIsScheduled' /\ ConfirmedWillEnd'
  BY DEF Inv, TakenIsScheduled, ConfirmedWillEnd
<1>2. cancels \in Seq(Cancel) /\ Len(cancels) <= MaxCancels
  BY DEF Inv, TypeOK
<1> QED
  BY <1>1, <1>2, QuietStep

LEMMA CheckoutsInv ==
  ASSUME Inv, \/ \E k \in Keys : ReadCurrent(k) \/ CheckoutAnswer(k) \/ CheckoutCrash(k) \/ ReadCancelable(k)
              \/ InsertCheckout
  PROVE  Inv'
<1>1. TypeOK
  BY DEF Inv
<1>2. ASSUME NEW k \in Keys, ReadCurrent(k) PROVE Inv'
  BY <1>1, <1>2, CheckoutStep DEF ReadCurrent, TypeOK, cancellation, provider
<1>3. ASSUME NEW k \in Keys, CheckoutAnswer(k) PROVE Inv'
  BY <1>1, <1>3, CheckoutStep DEF CheckoutAnswer, TypeOK, cancellation, provider
<1>4. ASSUME NEW k \in Keys, CheckoutCrash(k) PROVE Inv'
  BY <1>1, <1>4, CheckoutStep DEF CheckoutCrash, TypeOK, cancellation, provider
<1>5. ASSUME NEW k \in Keys, ReadCancelable(k) PROVE Inv'
  BY <1>1, <1>5, CheckoutStep DEF ReadCancelable, TypeOK, requests, provider
<1>6. ASSUME InsertCheckout PROVE Inv'
  <2>1. reading \in Keys
    BY <1>1, <1>6 DEF InsertCheckout, TypeOK
  <2> QED
    BY <1>1, <1>6, <2>1, CheckoutStep DEF InsertCheckout, TypeOK, cancellation, provider
<1> QED
  BY <1>2, <1>3, <1>4, <1>5, <1>6

\* A cancellation gets another record.
LEMMA OneCancel ==
  ASSUME Inv, NEW i \in DOMAIN cancels, NEW r \in Cancel,
         cancels' = [cancels EXCEPT ![i] = r], r.of = cancels[i].of,
         cancels[i].state = "CONFIRMED" => r.state = "CONFIRMED"
  PROVE  /\ cancels' \in Seq(Cancel) /\ Len(cancels') = Len(cancels) /\ Len(cancels') <= MaxCancels
         /\ DOMAIN cancels' = DOMAIN cancels
         /\ cancels'[i] = r
         /\ \A j \in DOMAIN cancels : j # i => cancels'[j] = cancels[j]
         /\ \A j \in DOMAIN cancels :
              /\ cancels'[j].of = cancels[j].of
              /\ cancels[j].state = "CONFIRMED" => cancels'[j].state = "CONFIRMED"
<1>1. cancels \in Seq(Cancel) /\ Len(cancels) <= MaxCancels
  BY DEF Inv, TypeOK
<1> QED
  BY <1>1

LEMMA InsertCancelInv == Inv /\ InsertCancel => Inv'
<1> SUFFICES ASSUME Inv, InsertCancel PROVE Inv'
  OBVIOUS
<1>1. TypeOK /\ cancels \in Seq(Cancel) /\ ending \in Keys /\ MaxCancels \in Nat
  BY BoundsAreCounts DEF Inv, TypeOK, InsertCancel
<1> DEFINE r == [of |-> ending, state |-> "CALLING", wire |-> TRUE, caller |-> TRUE]
<1>2. r \in Cancel /\ r.wire /\ r.state = "CALLING"
  BY <1>1 DEF Cancel
<1>3. cancels' = Append(cancels, r)
  BY DEF InsertCancel
<1> HIDE DEF r
<1>4. /\ cancels' \in Seq(Cancel) /\ Len(cancels') = Len(cancels) + 1
      /\ \A i \in DOMAIN cancels : i \in DOMAIN cancels' /\ cancels'[i] = cancels[i]
      /\ \A i \in DOMAIN cancels' : i \in DOMAIN cancels \/ cancels'[i] = r
  BY <1>1, <1>2, <1>3
<1>5. Len(cancels') <= MaxCancels
  BY <1>1, <1>4 DEF InsertCancel
<1>6. TakenIsScheduled' /\ ConfirmedWillEnd'
  BY <1>2, <1>4 DEF Inv, TakenIsScheduled, ConfirmedWillEnd, InsertCancel, provider
<1> QED
  BY <1>1, <1>4, <1>5, <1>6, QuietStep DEF InsertCancel, requests, provider, TypeOK

\* The handler of a cancellation ends without a confirmation of its own.
LEMMA CallerEnds ==
  ASSUME Inv, NEW i \in DOMAIN cancels, NEW r \in Cancel,
         cancels' = [cancels EXCEPT ![i] = r], r.of = cancels[i].of, ~r.caller,
         \/ r.state = cancels[i].state
         \/ cancels[i].state # "CONFIRMED" /\ r.state # "CONFIRMED",
         UNCHANGED <<requests, row, grants, ending, provider, applied, reviewed>>
  PROVE  Inv'
<1>1. TypeOK
  BY DEF Inv
<1>2. TakenIsScheduled'
  BY OneCancel DEF Inv, TakenIsScheduled, provider
<1>3. ConfirmedWillEnd'
  BY OneCancel DEF Inv, ConfirmedWillEnd, provider
<1> QED
  BY <1>1, <1>2, <1>3, OneCancel, QuietStep DEF requests, provider, TypeOK

LEMMA CancelEndsInv ==
  ASSUME Inv, NEW i \in DOMAIN cancels, CancelUnknown(i) \/ CancelRefused(i) \/ CancelCrash(i)
  PROVE  Inv'
<1>1. cancels[i] \in Cancel /\ cancels \in Seq(Cancel)
  BY CancelFields DEF Inv, TypeOK
<1>2. ASSUME NEW state \in {"UNKNOWN", "FAILED_RETRYABLE"}, NEW wire \in BOOLEAN,
             cancels' = Ends(i, state, wire),
             UNCHANGED <<requests, row, grants, ending, provider, applied, reviewed>>
      PROVE  Inv'
  <2> DEFINE st == IF cancels[i].state = "CONFIRMED" THEN "CONFIRMED" ELSE state
             r == [of |-> cancels[i].of, wire |-> wire, caller |-> FALSE, state |-> st]
  <2>1. /\ st \in {"CALLING", "UNKNOWN", "FAILED_RETRYABLE", "CONFIRMED"}
        /\ (st = cancels[i].state \/ (cancels[i].state # "CONFIRMED" /\ st # "CONFIRMED"))
    <3>1. cancels[i].state \in {"CALLING", "UNKNOWN", "FAILED_RETRYABLE", "CONFIRMED"}
      BY <1>1 DEF Cancel
    <3>2. CASE cancels[i].state = "CONFIRMED"
      BY <3>2
    <3>3. CASE cancels[i].state # "CONFIRMED"
      BY <1>2, <3>3
    <3> QED
      BY <3>2, <3>3
  <2>2. cancels' = [cancels EXCEPT ![i] = r]
    BY <1>2 DEF Ends
  <2> HIDE DEF st
  <2>3. r \in Cancel /\ r.of = cancels[i].of /\ ~r.caller /\ r.state = st
    BY <1>1, <1>2, <2>1 DEF Cancel
  <2> HIDE DEF r
  <2> QED
    BY <1>2, <2>1, <2>2, <2>3, CallerEnds
<1>3. CASE CancelUnknown(i) \/ CancelRefused(i)
  <2>1. cancels[i].wire \in BOOLEAN
    BY <1>1 DEF Cancel
  <2> QED
    BY <1>2, <1>3, <2>1 DEF CancelUnknown, CancelRefused
<1>4. CASE CancelCrash(i)
  <2> DEFINE r == [cancels[i] EXCEPT !.caller = FALSE]
  <2>1. r \in Cancel /\ r.of = cancels[i].of /\ ~r.caller /\ r.state = cancels[i].state
    BY <1>1 DEF Cancel
  <2>2. cancels' = [cancels EXCEPT ![i] = r]
    BY <1>4 DEF CancelCrash
  <2> HIDE DEF r
  <2> QED
    BY <1>4, <2>1, <2>2, CallerEnds DEF CancelCrash
<1> QED
  BY <1>3, <1>4

LEMMA CancelConfirmedInv ==
  ASSUME Inv, NEW i \in DOMAIN cancels, CancelConfirmed(i)
  PROVE  Inv'
<1> SUFFICES ASSUME NEW k \in Keys, k = cancels[i].of PROVE Inv'
  BY CancelFields DEF Inv
<1> DEFINE r == [of |-> k, wire |-> FALSE, caller |-> FALSE, state |-> "CONFIRMED"]
<1>1. TypeOK /\ cancels[i] \in Cancel
  BY CancelFields DEF Inv
<1>2. r \in Cancel /\ r.of = k /\ ~r.caller /\ r.state = "CONFIRMED"
  BY <1>1 DEF Cancel
<1>3. cancels' = [cancels EXCEPT ![i] = r]
  BY <1>1 DEF CancelConfirmed, Ends, Cancel
<1> HIDE DEF r
<1>4. /\ cancels' \in Seq(Cancel) /\ Len(cancels') <= MaxCancels /\ DOMAIN cancels' = DOMAIN cancels
      /\ cancels'[i] = r
      /\ \A j \in DOMAIN cancels : j # i => cancels'[j] = cancels[j]
      /\ \A j \in DOMAIN cancels :
           /\ cancels'[j].of = cancels[j].of
           /\ cancels[j].state = "CONFIRMED" => cancels'[j].state = "CONFIRMED"
  BY <1>2, <1>3, OneCancel
<1>5. /\ row' = [row EXCEPT ![k].status = "CANCEL_REQUESTED"]
      /\ cancels[i].caller /\ ~cancels[i].wire
      /\ UNCHANGED <<requests, grants, ending, provider, applied, reviewed>>
  BY DEF CancelConfirmed, Proven
<1>6. /\ row' \in [Keys -> [status : Statuses \union {"none"}, last : Periods, paid : Periods]]
      /\ row'[k].status = "CANCEL_REQUESTED"
      /\ \A j \in Keys : row'[j].paid = row[j].paid /\ row'[j].last = row[j].last
      /\ \A j \in Keys : j # k => row'[j] = row[j]
  <2> DEFINE new == [row[k] EXCEPT !.status = "CANCEL_REQUESTED"]
  <2>1. row[k] \in [status : Statuses \union {"none"}, last : Periods, paid : Periods]
    BY <1>1, RowFields
  <2>2. /\ new \in [status : Statuses \union {"none"}, last : Periods, paid : Periods]
        /\ new.status = "CANCEL_REQUESTED" /\ new.paid = row[k].paid /\ new.last = row[k].last
    BY <2>1 DEF Statuses, Live
  <2>3. row' = [row EXCEPT ![k] = new]
    BY <1>5
  <2>4. row \in [Keys -> [status : Statuses \union {"none"}, last : Periods, paid : Periods]]
    BY <1>1 DEF TypeOK
  <2> HIDE DEF new
  <2> QED
    BY <2>2, <2>3, <2>4
<1>7. TypeOK'
  <2>1. \A j \in Keys : row'[j].paid <= sub'[j].period /\ row'[j].last <= now'
    BY <1>1, <1>5, <1>6 DEF TypeOK, provider
  <2>2. UNCHANGED <<checkout, reading, posting, grants, ending, sub, now, sent, applied, reviewed>>
    BY <1>5 DEF requests, provider
  <2> QED
    BY <1>1, <1>4, <1>6, <2>1, <2>2 DEF TypeOK
<1>8. EventsAreFacts' /\ PeriodsAreFacts'
  BY <1>5 DEF Inv, EventsAreFacts, PeriodsAreFacts, provider
<1>9. TakenIsScheduled' /\ ConfirmedWillEnd'
  BY <1>2, <1>4, <1>5 DEF Inv, TakenIsScheduled, ConfirmedWillEnd, provider, WillEnd
<1>10. PaidIsLatest'
  BY <1>5, <1>6 DEF Inv, PaidIsLatest, PaidEvents
<1>11. RowIsLatest'
  <2>1. \A j \in Keys : Overruled(j) => Overruled(j)'
    BY <1>4 DEF Overruled
  <2>2. Overruled(k)'
    BY <1>2, <1>4 DEF Overruled
  <2>3. \A j \in Keys : Facts(j)' = Facts(j)
    BY <1>5 DEF Facts
  <2>4. \A j \in Keys : j # k => row'[j] = row[j] /\ Facts(j)' = Facts(j)
    BY <1>6, <2>3
  <2>5. row'[k].last = row[k].last /\ Facts(k)' = Facts(k)
    BY <1>1, <1>6, <2>3
  <2> SUFFICES ASSUME NEW j \in Keys
               PROVE  RowIsLatest!(j)'
    BY DEF RowIsLatest
  <2>6. RowIsLatest!(j)
    BY DEF Inv, RowIsLatest
  <2>7. CASE j = k
    BY <1>6, <2>2, <2>5, <2>6, <2>7
  <2>8. CASE j # k
    <3>1. row'[j] = row[j] /\ Facts(j)' = Facts(j) /\ (Overruled(j) => Overruled(j)')
      BY <2>1, <2>4, <2>8
    <3> QED
      BY <2>6, <3>1
  <2> QED
    BY <2>7, <2>8
<1> QED
  BY <1>7, <1>8, <1>9, <1>10, <1>11 DEF Inv

-----------------------------------------------------------------------------
(* The provider *)

\* A fact of the provider: it never takes back a payment or a cancellation.
LEMMA FactInv ==
  ASSUME Inv, NEW k \in Keys, NEW status \in Statuses, NEW period \in Nat,
         NEW events \in SUBSET Event, Fact(k, status, period, events),
         sub[k].period <= period, period <= now + 1,
         sub[k].status \in WillEnd => status \in WillEnd,
         \A e \in events : /\ e.key = k /\ e.period <= period /\ e.at <= now + 1
                           /\ e.status = "CANCEL_REQUESTED" => status \in WillEnd,
         ending' = ending,
         \/ cancels' = cancels
         \/ \E i \in DOMAIN cancels : /\ cancels' = [cancels EXCEPT ![i].wire = FALSE]
                                      /\ cancels[i].of = k /\ status \in WillEnd
  PROVE  Inv'
<1>1. TypeOK /\ MaxFacts \in Nat /\ now \in Nat /\ now + 1 <= MaxFacts
  <2>1. TypeOK
    BY DEF Inv
  <2>2. now \in Periods /\ MaxFacts \in Nat
    BY <2>1, RowFields
  <2> QED
    BY <2>1, <2>2 DEF Fact, Periods
<1>2. /\ now' = now + 1 /\ sent' = sent \union events
      /\ UNCHANGED <<requests, row, grants, applied, reviewed>>
      /\ sub' = [sub EXCEPT ![k] = [status |-> status, period |-> period]]
  BY DEF Fact
<1>3. /\ sub' \in [Keys -> [status : Statuses \union {"none"}, period : Periods]]
      /\ sub'[k].status = status /\ sub'[k].period = period
      /\ \A j \in Keys : j # k => sub'[j] = sub[j]
  <2>1. period \in Periods
    BY <1>1 DEF Periods
  <2> QED
    BY <1>1, <1>2, <2>1 DEF TypeOK
<1>4. \A j \in Keys : /\ sub[j].period <= sub'[j].period
                      /\ sub[j].status \in WillEnd => sub'[j].status \in WillEnd
  <2> SUFFICES ASSUME NEW j \in Keys
               PROVE  /\ sub[j].period <= sub'[j].period
                      /\ sub[j].status \in WillEnd => sub'[j].status \in WillEnd
    OBVIOUS
  <2>1. CASE j = k
    BY <1>3, <2>1
  <2>2. CASE j # k
    <3>1. sub[j].period \in Nat
      BY <1>1, RowFields DEF Periods
    <3> QED
      BY <1>3, <2>2, <3>1
  <2> QED
    BY <2>1, <2>2
<1>5. /\ cancels' \in Seq(Cancel) /\ Len(cancels') = Len(cancels) /\ DOMAIN cancels' = DOMAIN cancels
      /\ \A i \in DOMAIN cancels : /\ cancels'[i].of = cancels[i].of
                                   /\ cancels'[i].state = cancels[i].state
                                   /\ cancels'[i].caller = cancels[i].caller
                                   /\ \/ cancels'[i].wire = cancels[i].wire
                                      \/ cancels[i].of = k /\ status \in WillEnd
  <2>1. cancels \in Seq(Cancel)
    BY <1>1 DEF TypeOK
  <2>2. CASE cancels' = cancels
    BY <2>1, <2>2
  <2>3. ASSUME NEW i \in DOMAIN cancels, cancels' = [cancels EXCEPT ![i].wire = FALSE],
               cancels[i].of = k, status \in WillEnd
        PROVE  <1>5!:
    <3>1. cancels[i] \in Cancel
      BY <2>1
    <3> DEFINE r == [cancels[i] EXCEPT !.wire = FALSE]
    <3>2. r \in Cancel /\ r.of = k /\ r.state = cancels[i].state /\ r.caller = cancels[i].caller
      BY <3>1, <2>3 DEF Cancel
    <3>3. cancels' = [cancels EXCEPT ![i] = r]
      BY <2>3
    <3> HIDE DEF r
    <3>4. /\ cancels' \in Seq(Cancel) /\ Len(cancels') = Len(cancels) /\ DOMAIN cancels' = DOMAIN cancels
          /\ cancels'[i] = r /\ \A j \in DOMAIN cancels : j # i => cancels'[j] = cancels[j]
      BY <2>1, <3>2, <3>3
    <3> QED
      BY <2>3, <3>2, <3>4
  <2> QED
    BY <2>2, <2>3
<1>6. TypeOK'
  <2>4. sent \subseteq Event
    BY <1>1 DEF TypeOK
  <2>1. sent' \subseteq Event /\ now' \in Periods
    BY <1>1, <1>2, <2>4 DEF Periods
  <2>2. \A j \in Keys : row[j].paid <= sub'[j].period /\ row[j].last <= now'
    <3> SUFFICES ASSUME NEW j \in Keys PROVE row[j].paid <= sub'[j].period /\ row[j].last <= now'
      OBVIOUS
    <3>1. row[j].paid \in Nat /\ row[j].last \in Nat /\ sub[j].period \in Nat
          /\ row[j].paid <= sub[j].period /\ row[j].last <= now
      BY <1>1, RowFields DEF Periods
    <3>2. sub'[j].period \in Nat
      BY <1>3 DEF Periods
    <3> QED
      BY <1>1, <1>2, <1>4, <3>1, <3>2
  <2> QED
    BY <1>1, <1>2, <1>3, <1>5, <2>1, <2>2 DEF TypeOK, requests
<1>7. PeriodsAreFacts'
  <2> SUFFICES ASSUME NEW j \in Keys
               PROVE  sub'[j].period <= now' /\ (sub'[j].status = "none" => sub'[j].period = 0)
    BY DEF PeriodsAreFacts
  <2>1. sub[j].period \in Nat /\ sub[j].period <= now /\ (sub[j].status = "none" => sub[j].period = 0)
    BY <1>1, RowFields DEF Inv, Periods, PeriodsAreFacts
  <2>2. status # "none"
    BY DEF Statuses, Live
  <2> QED
    BY <1>1, <1>2, <1>3, <2>1, <2>2
<1>8. EventsAreFacts'
  <2> SUFFICES ASSUME NEW e \in sent \union events
               PROVE  /\ e.period <= sub'[e.key].period
                      /\ e.at <= now'
                      /\ e.status = "CANCEL_REQUESTED" => sub'[e.key].status \in WillEnd
    BY <1>2 DEF EventsAreFacts
  <2>1. CASE e \in events
    <3>1. /\ e.key = k /\ e.period <= period /\ e.at <= now + 1
          /\ e.status = "CANCEL_REQUESTED" => status \in WillEnd
      BY <2>1
    <3>2. sub'[e.key].period = period /\ sub'[e.key].status = status
      BY <1>3, <3>1
    <3> QED
      BY <1>2, <3>1, <3>2
  <2>2. CASE e \in sent
    <3>1. e.key \in Keys /\ e.period \in Nat /\ e.at \in Nat
      BY <1>1, <2>2, EventFields DEF Periods
    <3>2. /\ e.period <= sub[e.key].period /\ e.at <= now
          /\ e.status = "CANCEL_REQUESTED" => sub[e.key].status \in WillEnd
      BY <2>2 DEF Inv, EventsAreFacts
    <3>3. sub[e.key].period \in Nat /\ sub'[e.key].period \in Nat
      BY <1>1, <1>3, <3>1, RowFields DEF Periods
    <3> QED
      BY <1>1, <1>2, <1>4, <3>1, <3>2, <3>3
  <2> QED
    BY <2>1, <2>2
<1>9. TakenIsScheduled'
  <2> SUFFICES ASSUME NEW i \in DOMAIN cancels, cancels'[i].caller, ~cancels'[i].wire
               PROVE  sub'[cancels'[i].of].status \in WillEnd
    BY <1>5 DEF TakenIsScheduled
  <2>1. cancels[i].of \in Keys
    BY <1>1, CancelFields
  <2> QED
    BY <1>3, <1>4, <1>5, <2>1 DEF Inv, TakenIsScheduled
<1>10. ConfirmedWillEnd'
  <2> SUFFICES ASSUME NEW i \in DOMAIN cancels, cancels'[i].state = "CONFIRMED"
               PROVE  sub'[cancels'[i].of].status \in WillEnd
    BY <1>5 DEF ConfirmedWillEnd, WillEnd
  <2>1. cancels[i].of \in Keys
    BY <1>1, CancelFields
  <2> QED
    BY <1>4, <1>5, <2>1 DEF Inv, ConfirmedWillEnd, WillEnd
<1>11. RowIsLatest'
  <2>1. \A j \in Keys : Overruled(j)' = Overruled(j)
    BY <1>5 DEF Overruled
  <2>2. \A j \in Keys : Facts(j)' = Facts(j)
    BY <1>2 DEF Facts
  <2> QED
    BY <1>2, <2>1, <2>2 DEF Inv, RowIsLatest
<1>12. PaidIsLatest'
  BY <1>2 DEF Inv, PaidIsLatest, PaidEvents
<1> QED
  BY <1>6, <1>7, <1>8, <1>9, <1>10, <1>11, <1>12 DEF Inv

LEMMA SubFields ==
  ASSUME Inv, NEW k \in Keys
  PROVE  /\ sub[k].period \in Nat /\ sub[k].period <= now /\ now \in Nat
         /\ sub[k].status \in Statuses \union {"none"}
         /\ sub[k].status = "none" => sub[k].period = 0
BY RowFields DEF Inv, Periods, PeriodsAreFacts

\* What the provider sends is an event.
LEMMA SendsEvent ==
  ASSUME TypeOK, now < MaxFacts, NEW k \in Keys, NEW kind \in {"completed", "status", "paid"},
         NEW status \in Statuses, NEW period \in Nat, period <= now + 1, NEW valid \in BOOLEAN
  PROVE  LET e == Sends(k, kind, status, period, valid) IN
           /\ e \in Event /\ e.key = k /\ e.status = status /\ e.period = period
           /\ e.at = now + 1 /\ e.kind = kind /\ e.copy = 0
<1>1. now \in Periods /\ MaxFacts \in Nat
  BY BoundsAreCounts DEF TypeOK
<1>2. period \in Periods /\ now + 1 \in Periods
  BY <1>1 DEF Periods
<1> QED
  BY <1>2 DEF Sends, Event

LEMMA PayInv == ASSUME Inv, NEW k \in Keys, Pay(k) PROVE Inv'
<1>1. PICK valid \in BOOLEAN : Fact(k, "ACTIVE", 1, {Sends(k, "completed", "PENDING", 0, TRUE),
                                                    Sends(k, "paid", "ACTIVE", 1, valid)})
  BY DEF Pay
<1> DEFINE a == Sends(k, "completed", "PENDING", 0, TRUE)
           b == Sends(k, "paid", "ACTIVE", 1, valid)
<1>2. now < MaxFacts /\ TypeOK /\ now \in Nat /\ sub[k].period <= now /\ sub[k].period \in Nat
  BY <1>1, SubFields DEF Fact, Inv
<1>3. "ACTIVE" \in Statuses /\ "PENDING" \in Statuses
  BY DEF Statuses, Live
<1>4. /\ a \in Event /\ a.key = k /\ a.status = "PENDING" /\ a.period = 0 /\ a.at = now + 1
      /\ b \in Event /\ b.key = k /\ b.status = "ACTIVE" /\ b.period = 1 /\ b.at = now + 1
  <2> HIDE DEF a, b
  <2>1. /\ a \in Event /\ a.key = k /\ a.status = "PENDING" /\ a.period = 0 /\ a.at = now + 1
    <3>1. 0 \in Periods /\ now + 1 \in Periods
      BY <1>2, BoundsAreCounts DEF Periods
    <3> QED
      BY <1>3, <3>1 DEF a, Sends, Event
  <2>2. /\ b \in Event /\ b.key = k /\ b.status = "ACTIVE" /\ b.period = 1 /\ b.at = now + 1
    BY <1>2, <1>3, SendsEvent DEF b
  <2> QED
    BY <2>1, <2>2
<1>5. sub[k].status \notin WillEnd /\ ending' = ending /\ cancels' = cancels
  BY DEF Pay, WillEnd, cancellation
<1>6. Fact(k, "ACTIVE", 1, {a, b})
  BY <1>1
<1> HIDE DEF a, b
<1>7. sub[k].period <= 1
  BY SubFields DEF Pay
<1> QED
  BY <1>2, <1>3, <1>4, <1>5, <1>6, <1>7, FactInv

LEMMA RenewInv == ASSUME Inv, NEW k \in Keys, Renew(k) PROVE Inv'
<1> DEFINE p == sub[k].period + 1
<1>1. PICK valid \in BOOLEAN : Fact(k, "ACTIVE", p, {Sends(k, "paid", "ACTIVE", p, valid)})
  BY DEF Renew
<1> DEFINE b == Sends(k, "paid", "ACTIVE", p, valid)
<1>2. now < MaxFacts /\ TypeOK /\ now \in Nat /\ sub[k].period <= now /\ sub[k].period \in Nat
  BY <1>1, SubFields DEF Fact, Inv
<1>3. "ACTIVE" \in Statuses
  BY DEF Statuses, Live
<1>4. p \in Nat /\ p <= now + 1 /\ sub[k].period <= p
  BY <1>2
<1>5. sub[k].status \notin WillEnd /\ ending' = ending /\ cancels' = cancels
  BY DEF Renew, WillEnd, cancellation
<1>6. Fact(k, "ACTIVE", p, {b})
  BY <1>1
<1> HIDE DEF p
<1>7. b \in Event /\ b.key = k /\ b.status = "ACTIVE" /\ b.period = p /\ b.at = now + 1
  <2>1. p \in Periods /\ now + 1 \in Periods
    BY <1>2, <1>4, BoundsAreCounts DEF Periods
  <2> QED
    BY <1>1, <1>3, <2>1 DEF Sends, Event
<1> HIDE DEF b
<1> QED
  BY <1>2, <1>3, <1>4, <1>5, <1>6, <1>7, FactInv

\* A status is told.
LEMMA StatusFact ==
  ASSUME Inv, NEW k \in Keys, NEW status \in Statuses,
         Fact(k, status, sub[k].period, {Sends(k, "status", status, 0, TRUE)}),
         sub[k].status \in WillEnd => status \in WillEnd,
         ending' = ending,
         \/ cancels' = cancels
         \/ \E i \in DOMAIN cancels : /\ cancels' = [cancels EXCEPT ![i].wire = FALSE]
                                      /\ cancels[i].of = k /\ status \in WillEnd
  PROVE  Inv'
<1> DEFINE p == sub[k].period
           b == Sends(k, "status", status, 0, TRUE)
<1>1. now < MaxFacts /\ now \in Nat /\ p <= now /\ p \in Nat /\ p <= now + 1
  BY SubFields DEF Fact
<1>2. 0 \in Periods /\ now + 1 \in Periods
  BY <1>1, BoundsAreCounts DEF Periods
<1>3. b \in Event /\ b.key = k /\ b.status = status /\ b.period = 0 /\ b.at = now + 1
  BY <1>2 DEF Sends, Event
<1>4. Fact(k, status, p, {b}) /\ sub[k].period <= p
  BY <1>1
<1> HIDE DEF b, p
<1>5. /\ b.period <= p
      /\ b.status = "CANCEL_REQUESTED" => status \in WillEnd
  BY <1>1, <1>3 DEF WillEnd
<1> QED
  BY <1>1, <1>3, <1>4, <1>5, FactInv

LEMMA TurnsInv == ASSUME Inv, NEW k \in Keys, Turns(k) PROVE Inv'
<1>1. PICK t \in {<<"ACTIVE", "PAST_DUE">>, <<"CANCEL_REQUESTED", "CANCELED">>, <<"PAST_DUE", "EXPIRED">>} :
        /\ sub[k].status = t[1]
        /\ Fact(k, t[2], sub[k].period, {Sends(k, "status", t[2], 0, TRUE)})
  BY DEF Turns
<1>2. t[2] \in Statuses /\ (sub[k].status \in WillEnd => t[2] \in WillEnd)
  BY <1>1 DEF Statuses, Live, WillEnd
<1>3. cancels' = cancels /\ ending' = ending
  BY DEF Turns, cancellation
<1> QED
  BY <1>1, <1>2, <1>3, StatusFact

LEMMA ScheduleInv == ASSUME Inv, NEW i \in DOMAIN cancels, Schedule(i) PROVE Inv'
<1> SUFFICES ASSUME NEW k \in Keys, k = cancels[i].of PROVE Inv'
  BY CancelFields DEF Inv
<1>1. cancels' = [cancels EXCEPT ![i].wire = FALSE] /\ ending' = ending
  BY DEF Schedule
<1>2. CASE /\ sub[k].status \in {"ACTIVE", "PAST_DUE"}
           /\ Fact(k, "CANCEL_REQUESTED", sub[k].period, {Sends(k, "status", "CANCEL_REQUESTED", 0, TRUE)})
  <2>1. "CANCEL_REQUESTED" \in Statuses /\ "CANCEL_REQUESTED" \in WillEnd
    BY DEF Statuses, Live, WillEnd
  <2> QED
    BY <1>1, <1>2, <2>1, StatusFact
<1>3. CASE /\ sub[k].status = "CANCEL_REQUESTED"
           /\ UNCHANGED <<provider, requests, row, grants, applied, reviewed>>
  <2> DEFINE r == [cancels[i] EXCEPT !.wire = FALSE]
  <2>1. TypeOK /\ cancels[i] \in Cancel
    BY CancelFields DEF Inv
  <2>2. r \in Cancel /\ r.of = k /\ r.state = cancels[i].state
    BY <2>1 DEF Cancel
  <2>3. cancels' = [cancels EXCEPT ![i] = r]
    BY <1>1
  <2> HIDE DEF r
  <2>4. /\ cancels' \in Seq(Cancel) /\ Len(cancels') <= MaxCancels /\ DOMAIN cancels' = DOMAIN cancels
        /\ cancels'[i] = r
        /\ \A j \in DOMAIN cancels : j # i => cancels'[j] = cancels[j]
        /\ \A j \in DOMAIN cancels :
             /\ cancels'[j].of = cancels[j].of
             /\ cancels[j].state = "CONFIRMED" => cancels'[j].state = "CONFIRMED"
    BY <2>2, <2>3, OneCancel
  <2>5. TakenIsScheduled' /\ ConfirmedWillEnd'
    BY <1>3, <2>2, <2>4 DEF Inv, TakenIsScheduled, ConfirmedWillEnd, provider, WillEnd
  <2> QED
    BY <1>1, <1>3, <2>1, <2>4, <2>5, QuietStep DEF provider, requests, TypeOK
<1> QED
  BY <1>2, <1>3 DEF Schedule

LEMMA SendAgainInv == ASSUME Inv, NEW e \in sent, SendAgain(e) PROVE Inv'
<1> DEFINE f == [e EXCEPT !.copy = 1]
<1>1. TypeOK /\ e \in Event
  BY EventFields DEF Inv
<1>2. f \in Event /\ f.key = e.key /\ f.period = e.period /\ f.at = e.at /\ f.status = e.status
  BY <1>1 DEF Event
<1>3. /\ sent' = sent \union {f}
      /\ UNCHANGED <<requests, row, grants, cancellation, sub, now, applied, reviewed>>
  BY DEF SendAgain
<1> HIDE DEF f
<1>4. TypeOK'
  BY <1>1, <1>2, <1>3 DEF TypeOK, requests, cancellation
<1>5. EventsAreFacts'
  BY <1>2, <1>3 DEF Inv, EventsAreFacts
<1>6. PeriodsAreFacts' /\ TakenIsScheduled' /\ ConfirmedWillEnd'
  BY <1>3 DEF Inv, PeriodsAreFacts, TakenIsScheduled, ConfirmedWillEnd, cancellation
<1>7. RowIsLatest' /\ PaidIsLatest'
  BY <1>3 DEF Inv, RowIsLatest, PaidIsLatest, Facts, PaidEvents, Overruled, cancellation
<1> QED
  BY <1>4, <1>5, <1>6, <1>7 DEF Inv

-----------------------------------------------------------------------------
(* Webhooks *)

\* The row that an event finds or makes.
LEMMA ProjectedRow ==
  ASSUME Inv, NEW k \in Keys
  PROVE  /\ Projected(k) \in [status : Statuses \union {"none"}, last : Periods, paid : Periods]
         /\ Projected(k).status # "none"
         /\ Projected(k).paid <= sub[k].period /\ Projected(k).last <= now
         /\ \A e \in Facts(k) : e.at <= Projected(k).last
         /\ Facts(k) # {} => Projected(k) = row[k]
         /\ row[k].status # "none" => Projected(k) = row[k]
         /\ Projected(k).paid = row[k].paid
         /\ row[k].status = "none" => Projected(k).status = "PENDING" /\ Projected(k).last = 0
<1>1. TypeOK /\ RowIsLatest /\ PaidIsLatest
  BY DEF Inv
<1>2. CASE row[k].status # "none"
  <2>1. Projected(k) = row[k]
    BY <1>2 DEF Projected
  <2> QED
    BY <1>1, <1>2, <2>1, RowFields DEF RowIsLatest
<1>3. CASE row[k].status = "none"
  <2>1. Projected(k) = [status |-> "PENDING", last |-> 0, paid |-> 0]
    BY <1>3 DEF Projected, NoRow
  <2>2. Facts(k) = {}
    BY <1>1, <1>3 DEF RowIsLatest
  <2>3. row[k].paid = 0
    <3>1. PaidEvents(k) \subseteq Facts(k)
      BY DEF PaidEvents, Facts
    <3> QED
      BY <1>1, <2>2, <3>1 DEF PaidIsLatest
  <2>4. 0 \in Periods /\ sub[k].period \in Nat /\ now \in Nat /\ "PENDING" \in Statuses
    BY <1>1, RowFields DEF Periods, Statuses, Live
  <2> QED
    BY <1>3, <2>1, <2>2, <2>3, <2>4
<1> QED
  BY <1>2, <1>3

\* Events that change no status and grant nothing.
LEMMA ProjectedStep ==
  ASSUME Inv, NEW k \in Keys, row' = [row EXCEPT ![k] = Projected(k)],
         \A j \in Keys : Facts(j)' = Facts(j) /\ PaidEvents(j)' = PaidEvents(j),
         UNCHANGED <<reading, posting, ending, provider, grants, cancels>>,
         checkout' = checkout \/ checkout' = [checkout EXCEPT ![k] = "CONFIRMED"],
         applied' \subseteq sent, reviewed' \subseteq sent
  PROVE  Inv'
<1>1. TypeOK
  BY DEF Inv
<1> DEFINE r == Projected(k)
<1>2. /\ r \in [status : Statuses \union {"none"}, last : Periods, paid : Periods]
      /\ r.status # "none" /\ r.paid <= sub[k].period /\ r.last <= now /\ r.paid = row[k].paid
      /\ Facts(k) # {} => r = row[k]
      /\ row[k].status # "none" => r = row[k]
      /\ row[k].status = "none" => r.status = "PENDING" /\ r.last = 0
  BY ProjectedRow
<1>3. row' = [row EXCEPT ![k] = r]
  OBVIOUS
<1> HIDE DEF r
<1>4. /\ row' \in [Keys -> [status : Statuses \union {"none"}, last : Periods, paid : Periods]]
      /\ row'[k] = r /\ \A j \in Keys : j # k => row'[j] = row[j]
  BY <1>1, <1>2, <1>3 DEF TypeOK
<1>5. TypeOK'
  <2>1. \A j \in Keys : row'[j].paid <= sub'[j].period /\ row'[j].last <= now'
    BY <1>1, <1>2, <1>4 DEF TypeOK, provider
  <2>2. checkout' \in [Keys -> {"unused", "CALLING", "READY", "UNKNOWN",
                               "FAILED_RETRYABLE", "CONFIRMED"}]
    BY <1>1 DEF TypeOK
  <2> QED
    BY <1>1, <1>4, <2>1, <2>2 DEF TypeOK, provider
<1>6. EventsAreFacts' /\ PeriodsAreFacts' /\ TakenIsScheduled' /\ ConfirmedWillEnd'
  BY DEF Inv, EventsAreFacts, PeriodsAreFacts, TakenIsScheduled, ConfirmedWillEnd, provider
<1>7. PaidIsLatest'
  <2>1. \A j \in Keys : row'[j].paid = row[j].paid
    BY <1>2, <1>4
  <2> QED
    BY <2>1 DEF Inv, PaidIsLatest
<1>8. RowIsLatest'
  <2> SUFFICES ASSUME NEW j \in Keys PROVE RowIsLatest!(j)'
    BY DEF RowIsLatest
  <2>1. RowIsLatest!(j)
    BY DEF Inv, RowIsLatest
  <2>2. Facts(j)' = Facts(j) /\ (Overruled(j)' <=> Overruled(j))
    BY DEF Overruled
  <2>3. CASE row'[j] = row[j]
    BY <2>1, <2>2, <2>3
  <2>4. CASE row'[j] # row[j]
    <3>1. j = k /\ Facts(k) = {} /\ r.status = "PENDING" /\ r.last = 0
      BY <1>2, <1>4, <2>4
    <3> QED
      BY <1>4, <2>2, <3>1
  <2> QED
    BY <2>3, <2>4
<1> QED
  BY <1>5, <1>6, <1>7, <1>8 DEF Inv

\* An event is put aside.
LEMMA ReviewStep ==
  ASSUME Inv, NEW e \in sent, Review(e), UNCHANGED <<row, checkout, reading, posting, ending, provider>>
  PROVE  Inv'
<1>1. TypeOK /\ reviewed' \subseteq sent
  BY DEF Inv, TypeOK, Review
<1> QED
  BY <1>1, CheckoutStep DEF Review, provider, TypeOK

LEMMA CompletedInv == ASSUME Inv, NEW e \in sent, Completed(e) PROVE Inv'
<1>1. TypeOK /\ e.key \in Keys
  BY EventFields DEF Inv
<1>2. CASE Review(e) /\ UNCHANGED <<row, checkout>>
  BY <1>2, ReviewStep DEF Completed
<1>3. CASE /\ row' = [row EXCEPT ![e.key] = Projected(e.key)]
           /\ checkout' = [checkout EXCEPT ![e.key] = "CONFIRMED"]
           /\ applied' = applied \union {e}
           /\ UNCHANGED <<grants, cancels, reviewed>>
  <2>1. \A j \in Keys : Facts(j)' = Facts(j) /\ PaidEvents(j)' = PaidEvents(j)
    BY <1>3 DEF Completed, Facts, PaidEvents
  <2>2. applied' \subseteq sent /\ reviewed' \subseteq sent
    BY <1>1, <1>3 DEF TypeOK
  <2> QED
    BY <1>1, <1>3, <2>1, <2>2, ProjectedStep DEF Completed
<1> QED
  BY <1>2, <1>3 DEF Completed

LEMMA LaterOf ==
  ASSUME NEW a \in Nat, NEW b \in Nat
  PROVE  Max({a, b}) \in {a, b} /\ Max({a, b}) >= a /\ Max({a, b}) >= b
<1>1. CASE a <= b
  BY <1>1, MaxIs
<1>2. CASE b <= a
  BY <1>2, MaxIs
<1> QED
  BY <1>1, <1>2

\* What the newest cancellation becomes.
LEMMA NewestConfirmedIs ==
  ASSUME TypeOK, NEW k \in Keys
  PROVE  LET c == NewestConfirmed(k) IN
         /\ c \in Seq(Cancel) /\ Len(c) = Len(cancels) /\ DOMAIN c = DOMAIN cancels
         /\ \A i \in DOMAIN cancels :
              /\ c[i].of = cancels[i].of /\ c[i].wire = cancels[i].wire /\ c[i].caller = cancels[i].caller
              /\ c[i].state = cancels[i].state \/ (cancels[i].of = k /\ c[i].state = "CONFIRMED")
<1> DEFINE c == NewestConfirmed(k)
<1>1. c = [i \in DOMAIN cancels |-> c[i]]
  BY DEF NewestConfirmed
<1>2. ASSUME NEW i \in DOMAIN cancels
      PROVE  /\ c[i] \in Cancel
             /\ c[i].of = cancels[i].of /\ c[i].wire = cancels[i].wire /\ c[i].caller = cancels[i].caller
             /\ c[i].state = cancels[i].state \/ (cancels[i].of = k /\ c[i].state = "CONFIRMED")
  <2>1. cancels[i] \in Cancel
    BY CancelFields
  <2> DEFINE r == [cancels[i] EXCEPT !.state = "CONFIRMED"]
  <2>2. /\ r \in Cancel /\ r.of = cancels[i].of /\ r.wire = cancels[i].wire
        /\ r.caller = cancels[i].caller /\ r.state = "CONFIRMED"
    BY <2>1 DEF Cancel
  <2>3. c[i] = cancels[i] \/ (c[i] = r /\ cancels[i].of = k)
    BY DEF NewestConfirmed
  <2> HIDE DEF c, r
  <2> QED
    BY <2>1, <2>2, <2>3
<1> HIDE DEF c
<1>3. c \in Seq(Cancel) /\ Len(c) = Len(cancels) /\ DOMAIN c = DOMAIN cancels
  BY <1>1, <1>2, ChangedCancels
<1> QED
  BY <1>2, <1>3 DEF c

LEMMA ApplyInv ==
  ASSUME Inv, NEW e \in sent, e \notin applied, e.kind \in {"status", "paid"}, Apply(e),
         checkout' \in [Keys -> {"unused", "CALLING", "READY", "UNKNOWN",
                                  "FAILED_RETRYABLE", "CONFIRMED"}],
         UNCHANGED <<reading, posting, ending, provider>>
  PROVE  Inv'
<1> SUFFICES ASSUME NEW k \in Keys, k = e.key PROVE Inv'
  BY EventFields DEF Inv
<1> DEFINE pays == e.kind = "paid" /\ ~Granted(e)
           found == Projected(k)
           paid == IF pays THEN PaidThrough(found, e) ELSE found.paid
           r == IF pays THEN [found EXCEPT !.paid = PaidThrough(found, e)] ELSE found
           new == WithStatus(r, e)
<1>1. TypeOK /\ e \in Event /\ e.status \in Statuses /\ e.period \in Periods /\ e.at \in Periods
  BY EventFields DEF Inv
<1>2. /\ e.period <= sub[k].period /\ e.at <= now
      /\ e.status = "CANCEL_REQUESTED" => sub[k].status \in WillEnd
  BY DEF Inv, EventsAreFacts
<1>3. /\ found \in [status : Statuses \union {"none"}, last : Periods, paid : Periods]
      /\ found.status # "none" /\ found.paid <= sub[k].period /\ found.last <= now
      /\ \A f \in Facts(k) : f.at <= found.last
      /\ Facts(k) # {} => found = row[k]
      /\ row[k].status # "none" => found = row[k]
      /\ found.paid = row[k].paid
      /\ row[k].status = "none" => found.status = "PENDING"
  BY ProjectedRow
<1>4. /\ row' = [row EXCEPT ![k] = new]
      /\ grants' = IF pays THEN [grants EXCEPT ![k][e.period] = @ + 1] ELSE grants
      /\ cancels' = IF e.status = "CANCEL_REQUESTED" THEN NewestConfirmed(k) ELSE cancels
      /\ applied' = applied \union {e} /\ reviewed' = reviewed
      /\ UNCHANGED <<reading, posting, ending, sub, now, sent>>
  BY DEF Apply, provider
<1>5. now \in Nat /\ found.last \in Nat /\ found.paid \in Nat /\ e.at \in Nat /\ e.period \in Nat
      /\ sub[k].period \in Nat
  BY <1>1, <1>3, RowFields DEF Periods
<1>6. /\ paid \in Periods /\ paid <= sub[k].period
      /\ pays => paid >= e.period /\ paid >= found.paid /\ paid \in {found.paid, e.period}
      /\ ~pays => paid = found.paid
  <2>1. CASE pays
    <3>1. paid = Max({found.paid, e.period})
      BY <2>1 DEF PaidThrough
    <3> HIDE DEF paid, found
    <3> QED
      BY <1>1, <1>2, <1>3, <1>5, <2>1, <3>1, LaterOf
  <2>2. CASE ~pays
    BY <1>3, <2>2
  <2> QED
    BY <2>1, <2>2
<1>7. /\ r \in [status : Statuses \union {"none"}, last : Periods, paid : Periods]
      /\ r.status = found.status /\ r.last = found.last /\ r.paid = paid
  <2>1. CASE pays
    <3>1. r = [found EXCEPT !.paid = paid]
      BY <2>1
    <3> HIDE DEF r, paid, found
    <3> QED
      BY <1>3, <1>6, <3>1
  <2>2. CASE ~pays
    BY <1>3, <2>2
  <2> QED
    BY <2>1, <2>2
<1> HIDE DEF r, paid
<1>8. /\ new \in [status : Statuses \union {"none"}, last : Periods, paid : Periods]
      /\ new.paid = paid /\ new.status # "none" /\ new.last <= now
      /\ e.at <= new.last /\ found.last <= new.last
      /\ \/ new.last = e.at /\ new.status = e.status
         \/ new.last = found.last /\ new.status = found.status /\ e.at < found.last
  <2>1. CASE e.at >= r.last
    <3>1. new = [r EXCEPT !.status = e.status, !.last = e.at]
      BY <2>1 DEF WithStatus, Newer
    <3>2. e.status # "none"
      BY <1>1 DEF Statuses, Live
    <3> HIDE DEF new, found
    <3>3. /\ new \in [status : Statuses \union {"none"}, last : Periods, paid : Periods]
          /\ new.status = e.status /\ new.last = e.at /\ new.paid = paid
      BY <1>1, <1>7, <3>1
    <3>4. found.last <= e.at /\ e.at <= e.at
      BY <1>5, <1>7, <2>1
    <3> QED
      BY <1>2, <3>2, <3>3, <3>4
  <2>2. CASE ~(e.at >= r.last)
    <3>1. new = r
      BY <2>2 DEF WithStatus, Newer
    <3> HIDE DEF new, found
    <3>2. e.at < found.last /\ r.last = found.last /\ r.status = found.status /\ r.paid = paid
      BY <1>5, <1>7, <2>2
    <3>3. found.last <= now /\ found.status # "none"
      BY <1>3
    <3>4. e.at <= found.last /\ found.last <= found.last
      BY <1>5, <3>2
    <3>5. /\ new.last = found.last /\ new.status = found.status /\ new.paid = paid
      BY <3>1, <3>2
    <3>6. new \in [status : Statuses \union {"none"}, last : Periods, paid : Periods]
      BY <1>7, <3>1
    <3> QED
      BY <3>2, <3>3, <3>4, <3>5, <3>6
  <2> QED
    BY <2>1, <2>2
<1> HIDE DEF new
<1>9. /\ row' \in [Keys -> [status : Statuses \union {"none"}, last : Periods, paid : Periods]]
      /\ row'[k] = new /\ \A j \in Keys : j # k => row'[j] = row[j]
  BY <1>1, <1>4, <1>8 DEF TypeOK
<1>10. /\ cancels' \in Seq(Cancel) /\ Len(cancels') = Len(cancels) /\ DOMAIN cancels' = DOMAIN cancels
       /\ \A i \in DOMAIN cancels :
            /\ cancels'[i].of = cancels[i].of /\ cancels'[i].wire = cancels[i].wire
            /\ cancels'[i].caller = cancels[i].caller
            /\ \/ cancels'[i].state = cancels[i].state
               \/ /\ cancels[i].of = k /\ cancels'[i].state = "CONFIRMED"
                  /\ e.status = "CANCEL_REQUESTED"
  <2>1. CASE e.status = "CANCEL_REQUESTED"
    BY <1>1, <1>4, <2>1, NewestConfirmedIs
  <2>2. CASE e.status # "CANCEL_REQUESTED"
    BY <1>1, <1>4, <2>2 DEF TypeOK
  <2> QED
    BY <2>1, <2>2
<1>11. TypeOK'
  <2>1. \A j \in Keys : row'[j].paid <= sub'[j].period /\ row'[j].last <= now'
    BY <1>1, <1>4, <1>6, <1>8, <1>9 DEF TypeOK
  <2>2. grants' \in [Keys -> [Periods -> Nat]]
    <3>1. grants \in [Keys -> [Periods -> Nat]]
      BY <1>1 DEF TypeOK
    <3>2. grants[k] \in [Periods -> Nat] /\ grants[k][e.period] + 1 \in Nat
      BY <1>1, <3>1
    <3> HIDE DEF pays
    <3> QED
      BY <1>4, <3>1, <3>2
  <2>3. applied' \subseteq sent' /\ reviewed' \subseteq sent'
    BY <1>1, <1>4 DEF TypeOK
  <2> QED
    BY <1>1, <1>4, <1>9, <1>10, <2>1, <2>2, <2>3 DEF TypeOK
<1>12. EventsAreFacts' /\ PeriodsAreFacts'
  BY <1>4 DEF Inv, EventsAreFacts, PeriodsAreFacts
<1>13. TakenIsScheduled'
  BY <1>4, <1>10 DEF Inv, TakenIsScheduled
<1>14. ConfirmedWillEnd'
  BY <1>2, <1>4, <1>10 DEF Inv, ConfirmedWillEnd, WillEnd
<1>15. PaidIsLatest'
  <2>1. /\ \A j \in Keys : j # k => PaidEvents(j)' = PaidEvents(j)
        /\ e.kind = "paid" => PaidEvents(k)' = PaidEvents(k) \union {e}
        /\ e.kind # "paid" => PaidEvents(k)' = PaidEvents(k)
    BY <1>4 DEF PaidEvents
  <2> SUFFICES ASSUME NEW j \in Keys PROVE PaidIsLatest!(j)'
    BY DEF PaidIsLatest
  <2>2. PaidIsLatest!(j)
    BY DEF Inv, PaidIsLatest
  <2>3. grants \in [Keys -> [Periods -> Nat]]
    BY <1>1 DEF TypeOK
  <2>4. CASE j # k
    <3>1. grants'[j] = grants[j]
      BY <1>4, <2>3, <2>4
    <3>2. row'[j] = row[j] /\ PaidEvents(j)' = PaidEvents(j)
      BY <1>9, <2>1, <2>4
    <3> QED
      BY <2>2, <3>1, <3>2
  <2>5. CASE j = k /\ pays
    <3>1. e.kind = "paid" /\ grants[k][e.period] = 0 /\ PaidEvents(k)' = PaidEvents(k) \union {e}
      <4>1. grants[k][e.period] \in Nat
        BY <1>1, <2>3
      <4> QED
        BY <2>1, <2>5, <4>1 DEF Granted
    <3>2. \A f \in PaidEvents(k) : f.period # e.period
      BY <1>1, <2>2, <2>5, <3>1
    <3>3. grants'[k] = [grants[k] EXCEPT ![e.period] = 1]
      BY <1>1, <1>4, <2>3, <2>5, <3>1
    <3>4. \A p \in Periods : grants'[k][p] = IF \E f \in PaidEvents(k)' : f.period = p THEN 1 ELSE 0
      <4> SUFFICES ASSUME NEW p \in Periods
                   PROVE  grants'[k][p] = IF \E f \in PaidEvents(k)' : f.period = p THEN 1 ELSE 0
        OBVIOUS
      <4>1. grants[k] \in [Periods -> Nat]
        BY <2>3
      <4>2. CASE p = e.period
        BY <1>1, <3>1, <3>3, <4>1, <4>2
      <4>3. CASE p # e.period
        <5>1. grants'[k][p] = grants[k][p]
          BY <3>3, <4>1, <4>3
        <5>2. (\E f \in PaidEvents(k)' : f.period = p) <=> (\E f \in PaidEvents(k) : f.period = p)
          BY <3>1, <4>3
        <5> QED
          BY <2>2, <2>5, <5>1, <5>2
      <4> QED
        BY <4>2, <4>3
    <3>5. row'[k].paid = paid /\ paid >= e.period /\ paid >= row[k].paid /\ paid \in {row[k].paid, e.period}
      BY <1>3, <1>6, <1>8, <1>9, <2>5
    <3>6. \A f \in PaidEvents(k)' : f.period <= row'[k].paid
      <4> SUFFICES ASSUME NEW f \in PaidEvents(k)' PROVE f.period <= row'[k].paid
        OBVIOUS
      <4>1. CASE f = e
        BY <3>5, <4>1
      <4>2. CASE f \in PaidEvents(k)
        <5>1. f.period <= row[k].paid
          BY <2>2, <2>5, <4>2
        <5>2. f \in sent
          BY <1>1, <4>2 DEF PaidEvents, TypeOK
        <5>3. f.period \in Nat /\ row[k].paid \in Nat /\ paid \in Nat
          BY <1>1, <1>6, <5>2, EventFields, RowFields DEF Periods
        <5> QED
          BY <3>5, <5>1, <5>3
      <4> QED
        BY <3>1, <4>1, <4>2
    <3>7. row'[k].paid # 0 => \E f \in PaidEvents(k)' : f.period = row'[k].paid
      BY <2>2, <2>5, <3>1, <3>5
    <3> QED
      BY <2>5, <3>4, <3>6, <3>7
  <2>6. CASE j = k /\ ~pays
    <3>1. row'[k].paid = row[k].paid /\ grants' = grants
      BY <1>3, <1>4, <1>6, <1>8, <1>9, <2>6
    <3>2. CASE e.kind # "paid"
      BY <2>1, <2>2, <2>6, <3>1, <3>2
    <3>3. CASE e.kind = "paid"
      <4>1. grants[k][e.period] > 0 /\ PaidEvents(k)' = PaidEvents(k) \union {e}
        BY <2>1, <2>6, <3>3 DEF Granted
      <4>2. PICK f \in PaidEvents(k) : f.period = e.period
        BY <1>1, <2>2, <2>6, <4>1
      <4>3. e.period <= row[k].paid
        BY <2>2, <2>6, <4>2
      <4>4. \A p : (\E g \in PaidEvents(k)' : g.period = p) <=> (\E g \in PaidEvents(k) : g.period = p)
        BY <4>1, <4>2
      <4>5. \A g \in PaidEvents(k)' : g.period <= row'[k].paid
        BY <2>2, <2>6, <3>1, <4>1, <4>3
      <4> QED
        BY <2>2, <2>6, <3>1, <4>4, <4>5
    <3> QED
      BY <3>2, <3>3
  <2> QED
    BY <2>4, <2>5, <2>6
<1>16. RowIsLatest'
  <2>1. Facts(k)' = Facts(k) \union {e} /\ \A j \in Keys : j # k => Facts(j)' = Facts(j)
    BY <1>4 DEF Facts
  <2>2. \A j \in Keys : Overruled(j) => Overruled(j)'
    BY <1>10 DEF Overruled
  <2> SUFFICES ASSUME NEW j \in Keys PROVE RowIsLatest!(j)'
    BY DEF RowIsLatest
  <2>3. RowIsLatest!(j)
    BY DEF Inv, RowIsLatest
  <2>4. CASE j # k
    <3>1. row'[j] = row[j] /\ Facts(j)' = Facts(j) /\ (Overruled(j) => Overruled(j)')
      BY <1>9, <2>1, <2>2, <2>4
    <3> QED
      BY <2>3, <3>1
  <2>5. CASE j = k
    <3>1. row'[k] = new /\ new.status # "none"
      BY <1>8, <1>9
    <3>2. \A f \in Facts(k)' : f.at <= new.last
      <4> SUFFICES ASSUME NEW f \in Facts(k)' PROVE f.at <= new.last
        OBVIOUS
      <4>1. CASE f = e
        BY <1>8, <4>1
      <4>2. CASE f \in Facts(k)
        <5>1. f \in sent
          BY <1>1, <4>2 DEF Facts, TypeOK
        <5>2. f.at \in Nat /\ found.last \in Nat /\ new.last \in Nat
          BY <1>1, <1>5, <1>8, <5>1, EventFields DEF Periods
        <5>3. f.at <= found.last /\ found.last <= new.last
          BY <1>3, <1>8, <4>2
        <5> HIDE DEF found
        <5> QED
          BY <5>2, <5>3
      <4> QED
        BY <2>1, <4>1, <4>2
    <3>3. CASE new.last = e.at /\ new.status = e.status
      BY <2>1, <2>5, <3>1, <3>2, <3>3
    <3>4. CASE new.last = found.last /\ new.status = found.status /\ e.at < found.last
      <4>1. Facts(k) # {}
        <5>1. CASE row[k].status = "none"
          <6>1. found = [status |-> "PENDING", last |-> 0, paid |-> 0]
            BY <5>1 DEF Projected, NoRow
          <6>2. found.last = 0
            BY <6>1
          <6> QED
            BY <1>5, <3>4, <6>2
        <5>2. CASE row[k].status # "none"
          BY <1>3, <1>5, <2>3, <2>5, <3>4, <5>2
        <5> QED
          BY <5>1, <5>2
      <4>2. found = row[k]
        BY <1>3, <4>1
      <4>3. /\ new.last = row[k].last /\ new.status = row[k].status
        BY <3>4, <4>2
      <4> QED
        BY <2>1, <2>2, <2>3, <2>5, <3>1, <3>2, <4>1, <4>3
    <3> QED
      BY <1>8, <3>3, <3>4
  <2> QED
    BY <2>4, <2>5
<1> QED
  BY <1>11, <1>12, <1>13, <1>14, <1>15, <1>16 DEF Inv

LEMMA SubscriptionEventInv == ASSUME Inv, NEW e \in sent, SubscriptionEvent(e) PROVE Inv'
<1> SUFFICES ASSUME NEW k \in Keys, k = e.key PROVE Inv'
  BY EventFields DEF Inv
<1>1. TypeOK /\ e \notin applied /\ e.kind \in {"status", "paid"}
      /\ UNCHANGED <<reading, posting, ending, provider>>
  BY DEF Inv, SubscriptionEvent, Due
<1>2. CASE Review(e) /\ UNCHANGED <<row, checkout>>
  BY <1>1, <1>2, ReviewStep
<1>3. CASE checkout' = [checkout EXCEPT ![k] = IF row[k].status = "none" THEN "CONFIRMED" ELSE @]
  <2>1. checkout' = checkout \/ checkout' = [checkout EXCEPT ![k] = "CONFIRMED"]
    BY <1>1, <1>3 DEF TypeOK
  <2>2. checkout' \in [Keys -> {"unused", "CALLING", "READY", "UNKNOWN",
                               "FAILED_RETRYABLE", "CONFIRMED"}]
    BY <1>1, <2>1 DEF TypeOK
  <2>3. CASE Apply(e)
    BY <1>1, <2>2, <2>3, ApplyInv
  <2>4. CASE row' = [row EXCEPT ![k] = Projected(k)] /\ Review(e)
    <3>1. \A j \in Keys : Facts(j)' = Facts(j) /\ PaidEvents(j)' = PaidEvents(j)
      BY <2>4 DEF Review, Facts, PaidEvents
    <3>2. applied' \subseteq sent /\ reviewed' \subseteq sent
      BY <1>1, <2>4 DEF TypeOK, Review
    <3> QED
      BY <1>1, <2>1, <2>4, <3>1, <3>2, ProjectedStep DEF Review
  <2> QED
    BY <1>2, <2>3, <2>4 DEF SubscriptionEvent
<1> QED
  BY <1>2, <1>3 DEF SubscriptionEvent

LEMMA NextInv == Inv /\ [Next]_vars => Inv'
<1> SUFFICES ASSUME Inv, [Next]_vars PROVE Inv'
  OBVIOUS
<1>1. CASE UNCHANGED vars
  BY <1>1, CheckoutStep DEF vars, requests, cancellation, provider, Inv, TypeOK
<1>2. CASE Next
  <2>1. ASSUME NEW i \in DOMAIN cancels,
               Schedule(i) \/ CancelConfirmed(i) \/ CancelUnknown(i) \/ CancelRefused(i) \/ CancelCrash(i)
        PROVE  Inv'
    BY <2>1, ScheduleInv, CancelConfirmedInv, CancelEndsInv
  <2>2. ASSUME NEW e \in sent, SendAgain(e) \/ Completed(e) \/ SubscriptionEvent(e)
        PROVE  Inv'
    BY <2>2, SendAgainInv, CompletedInv, SubscriptionEventInv
  <2>3. ASSUME NEW k \in Keys, Pay(k) \/ Renew(k) \/ Turns(k)
        PROVE  Inv'
    BY <2>3, PayInv, RenewInv, TurnsInv
  <2> QED
    BY <1>2, <2>1, <2>2, <2>3, CheckoutsInv, InsertCancelInv DEF Next
<1> QED
  BY <1>1, <1>2

LEMMA Invariant == Spec => []Inv
<1>1. Init => Inv
  BY InitInv
<1>2. Inv /\ [Next]_vars => Inv'
  BY NextInv
<1> QED
  BY <1>1, <1>2, PTL DEF Spec

-----------------------------------------------------------------------------
(* Theorems *)

\* The variables keep their types, and no row is ahead of the provider.
THEOREM TypeCorrect == Spec => []TypeOK
<1>1. Inv => TypeOK
  BY DEF Inv
<1> QED
  BY <1>1, Invariant, PTL

\* A cancellation is confirmed only when the provider will not renew.
THEOREM ConfirmationsHold == Spec => []ConfirmedWillEnd
<1>1. Inv => ConfirmedWillEnd
  BY DEF Inv
<1> QED
  BY <1>1, Invariant, PTL

\* Each payment grants once, in whatever order and however often it is told, and
\* the paid period is the latest one.
THEOREM GrantsFollowPayments == Spec => []GrantedOncePerPayment
<1>1. Inv => GrantedOncePerPayment
  <2> SUFFICES ASSUME Inv, NEW k \in Keys
               PROVE  /\ \A p \in Periods :
                           grants[k][p] = IF \E e \in PaidEvents(k) : e.period = p THEN 1 ELSE 0
                      /\ row[k].paid = Max({e.period : e \in PaidEvents(k)} \union {0})
    BY DEF GrantedOncePerPayment
  <2>1. PaidIsLatest!(k) /\ TypeOK
    BY DEF Inv, PaidIsLatest
  <2> DEFINE S == {e.period : e \in PaidEvents(k)} \union {0}
  <2>2. \A e \in PaidEvents(k) : e.period \in Nat
    BY <2>1, EventFields DEF PaidEvents, TypeOK, Periods
  <2>3. S \in SUBSET Nat /\ row[k].paid \in S /\ \A x \in S : x <= row[k].paid
    <3>1. row[k].paid \in Nat
      BY <2>1, RowFields DEF Periods
    <3> QED
      BY <2>1, <2>2, <3>1
  <2> HIDE DEF S
  <2>4. Max(S) = row[k].paid
    BY <2>3, MaxIs
  <2> QED
    BY <2>1, <2>4 DEF S
<1> QED
  BY <1>1, Invariant, PTL

\* The status shown is the latest fact's, or that of a confirmed cancellation.
THEOREM StatusIsLatest == Spec => []StatusFollowsProvider
<1>1. Inv => StatusFollowsProvider
  <2> SUFFICES ASSUME Inv, NEW k \in Keys, row[k].status # "none"
               PROVE  \/ Facts(k) = {} /\ row[k].status = "PENDING"
                      \/ \E e \in Facts(k) : e.status = row[k].status /\ \A f \in Facts(k) : e.at >= f.at
                      \/ /\ row[k].status = "CANCEL_REQUESTED"
                         /\ \E i \in DOMAIN cancels : cancels[i].of = k /\ cancels[i].state = "CONFIRMED"
    BY DEF StatusFollowsProvider, Facts
  <2>1. RowIsLatest!(k)
    BY DEF Inv, RowIsLatest
  <2>2. ASSUME NEW e \in Facts(k), e.at = row[k].last, e.status = row[k].status
        PROVE  \A f \in Facts(k) : e.at >= f.at
    <3> SUFFICES ASSUME NEW f \in Facts(k) PROVE e.at >= f.at
      OBVIOUS
    <3>0. TypeOK /\ f \in sent /\ e \in sent
      BY DEF Inv, TypeOK, Facts
    <3>1. f.at \in Nat /\ e.at \in Nat
      BY <3>0, EventFields DEF Periods
    <3> QED
      BY <2>1, <2>2, <3>1
  <2> QED
    BY <2>1, <2>2 DEF Overruled
<1> QED
  BY <1>1, Invariant, PTL

=============================================================================
