---------------------------- MODULE Subscriptions ----------------------------
(***************************************************************************)
(* The subscriptions of one user (subscription_service): checkouts and     *)
(* period-end cancellations posted to the payment provider, and the        *)
(* provider's signed events, which arrive in any order, more than once and *)
(* between the steps of the requests.                                      *)
(*                                                                         *)
(* A checkout opens at most one provider subscription, so its              *)
(* Idempotency-Key names both.  Provider facts are numbered by the time    *)
(* they occurred; a paid period stands for its transaction.                *)
(***************************************************************************)
EXTENDS Naturals, Sequences, FiniteSets, FiniteSetsExt

CONSTANTS
  Keys,        \* Idempotency-Keys of the user's checkouts
  None,        \* no key
  MaxFacts,    \* bound: facts of the provider
  MaxCancels,  \* bound: cancellations the user asks for
  MaxCopies    \* bound: payments the provider tells twice

ASSUME BoundsAreCounts == {MaxFacts, MaxCancels, MaxCopies} \subseteq Nat

VARIABLES
  checkout,   \* subscription_checkout_intents: the state of each key
  reading,    \* the checkout that has seen no current subscription
  posting,    \* checkouts whose handler waits for the provider
  row,        \* user_subscriptions
  grants,     \* subscription_credit_grants: how many for each paid period
  cancels,    \* subscription_cancel_intents, oldest first
  ending,     \* the subscription a cancellation has read as cancelable
  sub,        \* at the provider: the subscriptions
  now,        \* at the provider: facts so far
  sent,       \* events the provider has sent, and delivers until they are processed
  applied,    \* payment_events APPLIED
  reviewed    \* payment_events RECONCILIATION_REQUIRED

requests == <<checkout, reading, posting>>
cancellation == <<cancels, ending>>
provider == <<sub, now, sent>>
vars == <<requests, row, grants, cancellation, provider, applied, reviewed>>

Live == {"PENDING", "ACTIVE", "PAST_DUE", "CANCEL_REQUESTED"}

Statuses == Live \union {"CANCELED", "EXPIRED"}

Periods == 0..MaxFacts

NoRow == [status |-> "none", last |-> 0, paid |-> 0]

\* valid: a paid event that matches the catalog; copy: 1 when sent again under another id.
Event ==
  [key : Keys, kind : {"completed", "status", "paid"}, status : Statuses,
   period : Periods, valid : BOOLEAN, at : Periods, copy : {0, 1}]

\* wire: the request is on its way; caller: its handler waits for the answer.
Cancel ==
  [of : Keys, state : {"CALLING", "UNKNOWN", "FAILED_RETRYABLE", "CONFIRMED"},
   wire : BOOLEAN, caller : BOOLEAN]

Init ==
  /\ checkout = [k \in Keys |-> "unused"]
  /\ reading = None
  /\ posting = {}
  /\ row = [k \in Keys |-> NoRow]
  /\ grants = [k \in Keys |-> [p \in Periods |-> 0]]
  /\ cancels = <<>>
  /\ ending = None
  /\ sub = [k \in Keys |-> [status |-> "none", period |-> 0]]
  /\ now = 0
  /\ sent = {}
  /\ applied = {}
  /\ reviewed = {}

\* No row is ahead of the provider.
TypeOK ==
  /\ checkout \in [Keys -> {"unused", "CALLING", "READY", "UNKNOWN",
                            "FAILED_RETRYABLE", "CONFIRMED"}]
  /\ reading \in Keys \union {None}
  /\ posting \subseteq Keys
  /\ row \in [Keys -> [status : Statuses \union {"none"}, last : Periods, paid : Periods]]
  /\ grants \in [Keys -> [Periods -> Nat]]
  /\ cancels \in Seq(Cancel) /\ Len(cancels) <= MaxCancels
  /\ ending \in Keys \union {None}
  /\ sub \in [Keys -> [status : Statuses \union {"none"}, period : Periods]]
  /\ now \in Periods
  /\ sent \subseteq Event
  /\ applied \subseteq sent /\ reviewed \subseteq sent
  /\ \A k \in Keys : row[k].paid <= sub[k].period /\ row[k].last <= now

-----------------------------------------------------------------------------
(* Checkouts *)

HasLive == \E k \in Keys : row[k].status \in Live

NothingPending == \A k \in Keys : checkout[k] \in {"unused", "CONFIRMED"}

\* The scope lock of the user is held from here to the insert.
ReadCurrent(k) ==
  /\ reading = None
  /\ checkout[k] = "unused"
  /\ ~HasLive
  /\ reading' = k
  /\ UNCHANGED <<checkout, posting, row, grants, cancellation, provider, applied, reviewed>>

InsertCheckout ==
  /\ reading # None
  /\ reading' = None
  /\ IF NothingPending
     THEN /\ checkout' = [checkout EXCEPT ![reading] = "CALLING"]
          /\ posting' = posting \union {reading}
     ELSE UNCHANGED <<checkout, posting>>
  /\ UNCHANGED <<row, grants, cancellation, provider, applied, reviewed>>

\* READY with a checkout URL; UNKNOWN after a timeout, a 5xx or an answer that
\* does not hold; FAILED_RETRYABLE after any other status.
CheckoutAnswer(k) ==
  /\ k \in posting
  /\ posting' = posting \ {k}
  /\ \E s \in {"READY", "UNKNOWN", "FAILED_RETRYABLE"} :
       checkout' = [checkout EXCEPT ![k] = s]
  /\ UNCHANGED <<reading, row, grants, cancellation, provider, applied, reviewed>>

\* The process ends while the provider is asked: the intent stays CALLING.
CheckoutCrash(k) ==
  /\ k \in posting
  /\ posting' = posting \ {k}
  /\ UNCHANGED <<checkout, reading, row, grants, cancellation, provider, applied, reviewed>>

-----------------------------------------------------------------------------
(* The provider *)

Fact(k, status, period, events) ==
  /\ now < MaxFacts
  /\ now' = now + 1
  /\ sub' = [sub EXCEPT ![k] = [status |-> status, period |-> period]]
  /\ sent' = sent \union events
  /\ UNCHANGED <<requests, row, grants, applied, reviewed>>

Sends(k, kind, status, period, valid) ==
  [key |-> k, kind |-> kind, status |-> status, period |-> period, valid |-> valid,
   at |-> now + 1, copy |-> 0]

\* The user pays at the checkout URL.
Pay(k) ==
  /\ checkout[k] = "READY"
  /\ sub[k].status = "none"
  /\ \E valid \in BOOLEAN :
       Fact(k, "ACTIVE", 1, {Sends(k, "completed", "PENDING", 0, TRUE),
                             Sends(k, "paid", "ACTIVE", 1, valid)})
  /\ UNCHANGED cancellation

Renew(k) ==
  /\ sub[k].status \in {"ACTIVE", "PAST_DUE"}
  /\ LET p == sub[k].period + 1 IN
       \E valid \in BOOLEAN : Fact(k, "ACTIVE", p, {Sends(k, "paid", "ACTIVE", p, valid)})
  /\ UNCHANGED cancellation

\* A payment that fails, a period that ends after a cancellation, a subscription that lapses.
Turns(k) ==
  /\ \E t \in {<<"ACTIVE", "PAST_DUE">>, <<"CANCEL_REQUESTED", "CANCELED">>,
               <<"PAST_DUE", "EXPIRED">>} :
       /\ sub[k].status = t[1]
       /\ Fact(k, t[2], sub[k].period, {Sends(k, "status", t[2], 0, TRUE)})
  /\ UNCHANGED cancellation

\* POST /v1/subscriptions/{id}/cancel reaches the provider.
Schedule(i) ==
  LET k == cancels[i].of IN
  /\ cancels[i].wire
  /\ cancels' = [cancels EXCEPT ![i].wire = FALSE]
  /\ \/ /\ sub[k].status \in {"ACTIVE", "PAST_DUE"}
        /\ Fact(k, "CANCEL_REQUESTED", sub[k].period,
                {Sends(k, "status", "CANCEL_REQUESTED", 0, TRUE)})
     \/ /\ sub[k].status = "CANCEL_REQUESTED"
        /\ UNCHANGED <<provider, requests, row, grants, applied, reviewed>>
  /\ UNCHANGED ending

\* A paid event is sent once more, under another event id.
SendAgain(e) ==
  /\ e \in sent /\ e.kind = "paid" /\ e.copy = 0
  /\ Cardinality({f \in sent : f.copy = 1}) < MaxCopies
  /\ sent' = sent \union {[e EXCEPT !.copy = 1]}
  /\ UNCHANGED <<requests, row, grants, cancellation, sub, now, applied, reviewed>>

-----------------------------------------------------------------------------
(* Webhooks: each delivery is one transaction *)

\* _create_subscription_projection_from_intent: no other subscription may be live.
MayProject(k) == \A j \in Keys \ {k} : row[j].status \notin Live

Projected(k) == IF row[k].status = "none" THEN [NoRow EXCEPT !.status = "PENDING"] ELSE row[k]

Due(e) == e \in sent \ (applied \union reviewed)

Review(e) ==
  /\ reviewed' = reviewed \union {e}
  /\ UNCHANGED <<grants, cancels, applied>>

\* A row that has ended makes the insert fail, now and whenever the event is delivered again.
Completed(e) ==
  /\ Due(e) /\ e.kind = "completed"
  /\ \/ /\ ~MayProject(e.key)
        /\ Review(e)
        /\ UNCHANGED <<row, checkout>>
     \/ /\ MayProject(e.key)
        /\ row[e.key].status \in Live \union {"none"}
        /\ row' = [row EXCEPT ![e.key] = Projected(e.key)]
        /\ checkout' = [checkout EXCEPT ![e.key] = "CONFIRMED"]
        /\ applied' = applied \union {e}
        /\ UNCHANGED <<grants, cancels, reviewed>>
  /\ UNCHANGED <<reading, posting, ending, provider>>

\* A replay is looked for under its event id only.
GrantedByEvent(e) == e \in applied

\* _find_invoice_candidate: the transaction, or the period, has been granted.
Granted(e) == grants[e.key][e.period] > 0

PaidThrough(r, e) == Max({r.paid, e.period})

\* Events are applied in the order in which they arrive.
NewerAlways(r, e) == TRUE

Newer(r, e) == e.at >= r.last

WithStatus(r, e) ==
  IF Newer(r, e) THEN [r EXCEPT !.status = e.status, !.last = e.at] ELSE r

\* The newest cancellation of the subscription, if its outcome is open.
NewestConfirmed(k) ==
  [i \in DOMAIN cancels |->
     IF /\ cancels[i].of = k
        /\ \A j \in DOMAIN cancels : cancels[j].of = k => j <= i
        /\ cancels[i].state \in {"CALLING", "UNKNOWN"}
     THEN [cancels[i] EXCEPT !.state = "CONFIRMED"]
     ELSE cancels[i]]

\* apply_normalized_payment_event
Apply(e) ==
  LET k == e.key
      pays == e.kind = "paid" /\ ~Granted(e)
      found == Projected(k)
      r == IF pays THEN [found EXCEPT !.paid = PaidThrough(found, e)] ELSE found IN
  /\ row' = [row EXCEPT ![k] = WithStatus(r, e)]
  /\ grants' = IF pays THEN [grants EXCEPT ![k][e.period] = @ + 1] ELSE grants
  /\ cancels' = IF e.status = "CANCEL_REQUESTED" THEN NewestConfirmed(k) ELSE cancels
  /\ applied' = applied \union {e}
  /\ UNCHANGED reviewed

\* A subscription event finds its row, or its checkout if no other one is live;
\* an invalid payment leaves the projection behind.
SubscriptionEvent(e) ==
  LET k == e.key IN
  /\ Due(e) /\ e.kind \in {"status", "paid"}
  /\ \/ /\ row[k].status = "none" /\ ~MayProject(k)
        /\ Review(e)
        /\ UNCHANGED <<row, checkout>>
     \/ /\ row[k].status # "none" \/ MayProject(k)
        /\ checkout' = [checkout EXCEPT ![k] = IF row[k].status = "none" THEN "CONFIRMED" ELSE @]
        /\ IF e.valid THEN Apply(e)
           ELSE /\ row' = [row EXCEPT ![k] = Projected(k)]
                /\ Review(e)
  /\ UNCHANGED <<reading, posting, ending, provider>>

-----------------------------------------------------------------------------
(* Cancellations at the end of the period *)

\* get_current_subscription: the row that the locked read returns again as it was.
ReadCancelable(k) ==
  /\ ending = None
  /\ row[k].status \in {"ACTIVE", "PAST_DUE"}
  /\ ending' = k
  /\ UNCHANGED <<requests, row, grants, cancels, provider, applied, reviewed>>

InsertCancel ==
  /\ ending # None
  /\ Len(cancels) < MaxCancels
  /\ cancels' = Append(cancels, [of |-> ending, state |-> "CALLING", wire |-> TRUE, caller |-> TRUE])
  /\ ending' = None
  /\ UNCHANGED <<requests, row, grants, provider, applied, reviewed>>

\* A confirmed intent refuses every other state: the handler fails.
Ends(i, state, wire) ==
  [cancels EXCEPT ![i] =
     [of |-> cancels[i].of, wire |-> wire, caller |-> FALSE,
      state |-> IF cancels[i].state = "CONFIRMED" THEN "CONFIRMED" ELSE state]]

\* Any answer of the provider is taken for a confirmation.
AnyAnswerCounts(i) == TRUE

\* The answer names the subscription and says that it is scheduled to end.
Proven(i) == ~cancels[i].wire

\* The status is written over whatever the row has become since it was loaded,
\* unless another subscription has become live.
CancelConfirmed(i) ==
  LET k == cancels[i].of IN
  /\ cancels[i].caller
  /\ Proven(i)
  /\ MayProject(k)
  /\ cancels' = Ends(i, "CONFIRMED", FALSE)
  /\ row' = [row EXCEPT ![k].status = "CANCEL_REQUESTED"]
  /\ UNCHANGED <<requests, grants, ending, provider, applied, reviewed>>

\* A timeout, or an answer that proves nothing; the request may still arrive.
CancelUnknown(i) ==
  /\ cancels[i].caller
  /\ cancels' = Ends(i, "UNKNOWN", cancels[i].wire)
  /\ UNCHANGED <<requests, row, grants, ending, provider, applied, reviewed>>

\* Any status from 400 on; a 5xx says nothing of what the provider did or will do.
CancelRefused(i) ==
  /\ cancels[i].caller
  /\ \E wire \in {cancels[i].wire, FALSE} : cancels' = Ends(i, "FAILED_RETRYABLE", wire)
  /\ UNCHANGED <<requests, row, grants, ending, provider, applied, reviewed>>

\* The process ends while the provider is asked.
CancelCrash(i) ==
  /\ cancels[i].caller
  /\ cancels' = [cancels EXCEPT ![i].caller = FALSE]
  /\ UNCHANGED <<requests, row, grants, ending, provider, applied, reviewed>>

-----------------------------------------------------------------------------
Next ==
  \/ \E k \in Keys : ReadCurrent(k) \/ CheckoutAnswer(k) \/ CheckoutCrash(k) \/ ReadCancelable(k)
  \/ InsertCheckout
  \/ InsertCancel
  \/ \E k \in Keys : Pay(k) \/ Renew(k) \/ Turns(k)
  \/ \E e \in sent : SendAgain(e) \/ Completed(e) \/ SubscriptionEvent(e)
  \/ \E i \in DOMAIN cancels :
       Schedule(i) \/ CancelConfirmed(i) \/ CancelUnknown(i) \/ CancelRefused(i) \/ CancelCrash(i)

Spec == Init /\ [][Next]_vars

-----------------------------------------------------------------------------
(* Properties *)

PaidEvents(k) == {e \in applied : e.key = k /\ e.kind = "paid"}

\* However often and in whatever order the payments of a subscription are told,
\* each one grants its credits once, and the paid period reaches as far as the
\* latest of them (apply_subscription_paid_transaction).
GrantedOncePerPayment ==
  \A k \in Keys :
    /\ \A p \in Periods : grants[k][p] = IF \E e \in PaidEvents(k) : e.period = p THEN 1 ELSE 0
    /\ row[k].paid = Max({e.period : e \in PaidEvents(k)} \union {0})

\* The status shown is that of the latest fact processed, whatever came after it
\* out of order, or that of a cancellation the provider has confirmed
\* (apply_normalized_payment_event, request_period_end_cancellation).
StatusFollowsProvider ==
  \A k \in Keys : row[k].status # "none" =>
    LET facts == {e \in applied : e.key = k /\ e.kind # "completed"} IN
    \/ facts = {} /\ row[k].status = "PENDING"
    \/ \E e \in facts : e.status = row[k].status /\ \A f \in facts : e.at >= f.at
    \/ /\ row[k].status = "CANCEL_REQUESTED"
       /\ \E i \in DOMAIN cancels : cancels[i].of = k /\ cancels[i].state = "CONFIRMED"

\* The user is told that a cancellation is confirmed only when the provider will
\* not renew the subscription (cancel_replay_or_raise).
ConfirmedWillEnd ==
  \A i \in DOMAIN cancels : cancels[i].state = "CONFIRMED" =>
    sub[cancels[i].of].status \in {"CANCEL_REQUESTED", "CANCELED"}

-----------------------------------------------------------------------------
(* What the documents say and the code does not do (README, section 6) *)

\* A confirmed cancellation is not taken back by an older event that comes late
\* (vowpic-commercial-closure-design.md:410): the provider never resumes one.
CancellationStands ==
  [][\A k \in Keys : row[k].status = "CANCEL_REQUESTED" =>
       row'[k].status \notin {"ACTIVE", "PAST_DUE"}]_vars

=============================================================================
