--------------------------- MODULE JobProofs ---------------------------
(***************************************************************************)
(* Theorems about a job under its lease: JobLease for any set of sessions, *)
(* owners, lease length and time bound; and, at the end, the row locks of  *)
(* LockOrder for any number of transactions at a time.                     *)
(***************************************************************************)
EXTENDS JobLease, LockOrder, Integers, FiniteSetTheorems, WellFoundedInduction, TLAPS

\* What clearing a lease leaves in the row.
LEMMA ClearedRow ==
  ASSUME NEW j \in JobRow, NEW status \in Status
  PROVE  /\ Cleared(j, status) \in JobRow
         /\ Cleared(j, status).claim = None
         /\ Cleared(j, status).status = status
         /\ Cleared(j, status).token = j.token
         /\ Cleared(j, status).expires = 0
  BY DEF Cleared, JobRow

\* A step that gives one session a well-formed row, and keeps the job well-formed,
\* preserves TypeOK.
LEMMA SessionStep ==
  ASSUME TypeOK, NEW s \in Sessions, NEW r \in SessionRow,
         r.seen <= now, r.beat <= now,
         session' = [session EXCEPT ![s] = r], now' = now,
         job' \in JobRow, job'.expires <= now + LeaseSeconds,
         lastEntry' \in Nat
  PROVE  TypeOK'
<1>1. session' \in [Sessions -> SessionRow]
  BY DEF TypeOK
<1>2. \A t \in Sessions : session'[t].seen <= now /\ session'[t].beat <= now
  BY DEF TypeOK
<1> QED
  BY <1>1, <1>2 DEF TypeOK

\* The row of a session that is over.
LEMMA OverStep ==
  ASSUME TypeOK, NEW s \in Sessions, Over(s), now' = now,
         job' \in JobRow, job'.expires <= now + LeaseSeconds,
         lastEntry' \in Nat
  PROVE  TypeOK'
<1> DEFINE r == [session[s] EXCEPT !.pc = "over", !.seen = 0, !.beat = 0, !.loaded = FALSE]
<1>1. session[s] \in SessionRow
  BY DEF TypeOK
<1>2. r \in SessionRow /\ r.seen = 0 /\ r.beat = 0
  BY <1>1 DEF SessionRow, Step
<1>3. session' = [session EXCEPT ![s] = r]
  BY DEF Over, TypeOK
<1>4. r.seen <= now /\ r.beat <= now
  BY <1>2 DEF TypeOK
<1> HIDE DEF r
<1> QED
  BY <1>2, <1>3, <1>4, SessionStep

\* The columns keep their types, no reading is ahead of the clock, and no lease
\* runs further ahead than LeaseSeconds (job_lease_service, every writer).
THEOREM TypeCorrect == Spec => []TypeOK
<1>1. Init => TypeOK
  BY LeaseAssumption DEF Init, TypeOK, JobRow, SessionRow, Step, Status
<1>2. TypeOK /\ [Next]_vars => TypeOK'
  <2> SUFFICES ASSUME TypeOK, [Next]_vars
               PROVE  TypeOK'
    OBVIOUS
  <2>types. /\ job \in JobRow /\ job.expires <= now + LeaseSeconds
            /\ now \in Nat /\ lastEntry \in Nat /\ LeaseSeconds \in Nat
    BY LeaseAssumption DEF TypeOK
  <2>1. CASE Tick
    BY <2>1, <2>types DEF Tick, TypeOK, JobRow, SessionRow
  <2>2. ASSUME NEW s \in Sessions, Claims(s)
        PROVE  TypeOK'
    <3>row. session[s] \in SessionRow /\ session[s].seen <= now /\ session[s].beat <= now
      BY DEF TypeOK
    <3>1. ASSUME NEW kind \in {"claimJob", "claimReconciliation"}, BeginClaim(s, kind)
          PROVE  TypeOK'
      <4> DEFINE r == [session[s] EXCEPT !.pc = kind, !.seen = now]
      <4>1. r \in SessionRow /\ r.seen = now /\ r.beat = session[s].beat
        BY <3>row, <2>types DEF SessionRow, Step
      <4>2. session' = [session EXCEPT ![s] = r]
        BY <3>1 DEF BeginClaim, TypeOK
      <4>3. r.seen <= now /\ r.beat <= now
        BY <4>1, <3>row, <2>types
      <4> HIDE DEF r
      <4> QED
        BY <3>1, <4>1, <4>2, <4>3, <2>types, SessionStep DEF BeginClaim
    <3>2. CASE ClaimRefused(s)
      BY <3>2, <2>types, OverStep DEF ClaimRefused
    <3>3. CASE ClaimRouted(s)
      BY <3>3, <2>types, ClearedRow, OverStep DEF ClaimRouted, Status
    <3>4. CASE ClaimGranted(s)
      <4> DEFINE r == [session[s] EXCEPT !.pc = "working", !.token = job.token + 1]
      <4>token. job.token + 1 \in Nat
        BY <2>types DEF JobRow
      <4>1. r \in SessionRow /\ r.seen = session[s].seen /\ r.beat = session[s].beat
        BY <3>row, <4>token DEF SessionRow, Step
      <4>2. session' = [session EXCEPT ![s] = r]
        BY <3>4 DEF ClaimGranted, NextToken, TypeOK
      <4>3. job' \in JobRow /\ job'.expires <= now + LeaseSeconds
        BY <3>4, <3>row, <2>types, LeaseAssumption
           DEF ClaimGranted, NextToken, GrantedUntil, JobRow, SessionRow, Status
      <4> HIDE DEF r
      <4> QED
        BY <3>4, <3>row, <4>1, <4>2, <4>3, <2>types, SessionStep DEF ClaimGranted
    <3> QED
      BY <2>2, <3>1, <3>2, <3>3, <3>4 DEF Claims
  <2>3. ASSUME NEW s \in Sessions, Works(s)
        PROVE  TypeOK'
    <3>row. session[s] \in SessionRow /\ session[s].seen <= now /\ session[s].beat <= now
      BY DEF TypeOK
    <3>1. ASSUME NEW loaded \in {FALSE, session[s].loaded}, now' = now, job' = job,
                 session' = [session EXCEPT ![s].seen = now, ![s].loaded = loaded],
                 lastEntry' = lastEntry
          PROVE  TypeOK'
      <4> DEFINE r == [session[s] EXCEPT !.seen = now, !.loaded = loaded]
      <4>0. loaded \in BOOLEAN
        BY <3>row DEF SessionRow
      <4>1. r \in SessionRow /\ r.seen <= now /\ r.beat <= now
        BY <4>0, <3>row, <2>types, now <= now DEF SessionRow
      <4>2. session' = [session EXCEPT ![s] = r]
        BY <3>1 DEF TypeOK
      <4> HIDE DEF r
      <4> QED
        BY <3>1, <4>1, <4>2, <2>types, SessionStep
    <3>2. CASE FencedWrite(s)
      <4> DEFINE r == [session[s] EXCEPT !.loaded = TRUE]
      <4>1. r \in SessionRow /\ r.seen <= now /\ r.beat <= now
        BY <3>row DEF SessionRow
      <4>2. session' = [session EXCEPT ![s] = r]
        BY <3>2 DEF FencedWrite, TypeOK
      <4>3. job' = job /\ now' = now /\ lastEntry' \in Nat
        BY <3>2, <3>row, <2>types
           DEF FencedWrite, Fenced, FenceOfRow, FenceOfCopy, SessionRow
      <4> HIDE DEF r
      <4> QED
        BY <4>1, <4>2, <4>3, <2>types, SessionStep
    <3>3. ASSUME NEW status \in {"RECONCILING", "ACTIVE", "FINISHED", "FAILED"},
                 HandOn(s, status)
          PROVE  TypeOK'
      <4>1. PICK after \in Status : job' = Cleared(job, after)
        BY <3>3, <2>types DEF HandOn, Status, Closed, JobRow
      <4>2. job' \in JobRow /\ job'.expires <= now + LeaseSeconds
        BY <4>1, <2>types, ClearedRow
      <4>3. lastEntry' \in Nat
        BY <3>3, <3>row, <2>types
           DEF HandOn, Fenced, FenceOfRow, FenceOfCopy, SessionRow
      <4> QED
        BY <3>3, <4>2, <4>3, OverStep DEF HandOn
    <3>4. CASE FenceRaises(s)
      BY <3>4, <2>types, OverStep DEF FenceRaises
    <3>5. CASE Crash(s)
      BY <3>5, <2>types, OverStep DEF Crash
    <3>6. CASE BeginHeartbeat(s)
      BY <3>6 DEF BeginHeartbeat, TypeOK, SessionRow
    <3>7. CASE Heartbeat(s)
      <4> DEFINE r == [session[s] EXCEPT !.beat = 0]
      <4>1. r \in SessionRow /\ r.seen <= now /\ r.beat <= now
        BY <3>row, <2>types DEF SessionRow
      <4>2. session' = [session EXCEPT ![s] = r]
        BY <3>7 DEF Heartbeat, TypeOK
      <4>3. job' \in JobRow /\ job'.expires <= now + LeaseSeconds
        BY <3>7, <3>row, <2>types DEF Heartbeat, JobRow, SessionRow
      <4> HIDE DEF r
      <4> QED
        BY <3>7, <3>row, <4>1, <4>2, <4>3, <2>types, SessionStep DEF Heartbeat
    <3>8. CASE HeartbeatRaises(s)
      BY <3>8, <2>types, OverStep DEF HeartbeatRaises
    <3> QED
      BY <2>3, <3>1, <3>2, <3>3, <3>4, <3>5, <3>6, <3>7, <3>8 DEF Works, ReadClock
  <2>4. CASE Unleased
    <3>1. CASE CallbackHandsOn
      BY <3>1, <2>types, ClearedRow DEF CallbackHandsOn, TypeOK, Status
    <3>2. CASE OperatorRules
      BY <3>2 DEF OperatorRules, TypeOK, JobRow, Status, Closed
    <3>3. CASE PartnerWithdraws
      BY <3>3 DEF PartnerWithdraws, TypeOK, JobRow, Status, Closed
    <3>4. CASE WithdrawalSettled
      BY <3>4, <2>types, ClearedRow DEF WithdrawalSettled, TypeOK, Status, Closed
    <3> QED
      BY <2>4, <3>1, <3>2, <3>3, <3>4 DEF Unleased
  <2>5. CASE UNCHANGED vars
    BY <2>5 DEF vars, TypeOK
  <2> QED
    BY <2>1, <2>2, <2>3, <2>4, <2>5 DEF Next
<1> QED
  BY <1>1, <1>2, PTL DEF Spec

-----------------------------------------------------------------------------

\* Only a granted claim touches a fencing token.
LEMMA TokensKept ==
  ASSUME TypeOK, [Next]_vars, \A s \in Sessions : ~ClaimGranted(s)
  PROVE  /\ job'.token = job.token
         /\ \A t \in Sessions : session'[t].token = session[t].token
<1> USE DEF TypeOK, SessionRow, JobRow
<1>1. CASE Tick
  BY <1>1 DEF Tick
<1>2. ASSUME NEW s \in Sessions, Claims(s)
      PROVE  /\ job'.token = job.token
             /\ \A t \in Sessions : session'[t].token = session[t].token
  <2>1. CASE \E kind \in {"claimJob", "claimReconciliation"} : BeginClaim(s, kind)
    BY <2>1 DEF BeginClaim
  <2>2. CASE ClaimRefused(s)
    BY <2>2 DEF ClaimRefused, Over
  <2>3. CASE ClaimRouted(s)
    BY <2>3 DEF ClaimRouted, Over, Cleared
  <2> QED
    BY <1>2, <2>1, <2>2, <2>3 DEF Claims
<1>3. ASSUME NEW s \in Sessions, Works(s)
      PROVE  /\ job'.token = job.token
             /\ \A t \in Sessions : session'[t].token = session[t].token
  <2>1. CASE ReadClock(s) \/ FencedWrite(s)
    BY <2>1 DEF ReadClock, FencedWrite
  <2>2. CASE \E status \in {"RECONCILING", "ACTIVE", "FINISHED", "FAILED"} : HandOn(s, status)
    BY <2>2 DEF HandOn, Over, Cleared
  <2>3. CASE FenceRaises(s) \/ Crash(s) \/ HeartbeatRaises(s)
    BY <2>3 DEF FenceRaises, Crash, HeartbeatRaises, Over
  <2>4. CASE BeginHeartbeat(s) \/ Heartbeat(s)
    BY <2>4 DEF BeginHeartbeat, Heartbeat
  <2> QED
    BY <1>3, <2>1, <2>2, <2>3, <2>4 DEF Works
<1>4. CASE Unleased
  BY <1>4 DEF Unleased, CallbackHandsOn, OperatorRules, PartnerWithdraws,
              WithdrawalSettled, Cleared
<1>5. CASE UNCHANGED vars
  BY <1>5 DEF vars
<1> QED
  BY <1>1, <1>2, <1>3, <1>4, <1>5 DEF Next

\* Whoever passes the fence holds the newest token, and writes it.
LEMMA WritesCarryNewestToken ==
  ASSUME TypeOK, [Next]_vars
  PROVE  lastEntry' \in {lastEntry, job.token}
<1>1. CASE Tick
  BY <1>1 DEF Tick
<1>2. ASSUME NEW s \in Sessions, Claims(s)
      PROVE  lastEntry' = lastEntry
  BY <1>2 DEF Claims, BeginClaim, ClaimRefused, ClaimRouted, ClaimGranted
<1>3. ASSUME NEW s \in Sessions, Works(s)
      PROVE  lastEntry' \in {lastEntry, job.token}
  <2>1. CASE FencedWrite(s) \/
             \E status \in {"RECONCILING", "ACTIVE", "FINISHED", "FAILED"} : HandOn(s, status)
    BY <2>1 DEF FencedWrite, HandOn, Fenced, FenceOfRow, FenceOfCopy, Fence
  <2>2. CASE ReadClock(s) \/ FenceRaises(s) \/ Crash(s) \/ BeginHeartbeat(s)
             \/ Heartbeat(s) \/ HeartbeatRaises(s)
    BY <2>2 DEF ReadClock, FenceRaises, Crash, BeginHeartbeat, Heartbeat, HeartbeatRaises
  <2> QED
    BY <1>3, <2>1, <2>2 DEF Works
<1>4. CASE Unleased
  BY <1>4 DEF Unleased, CallbackHandsOn, OperatorRules, PartnerWithdraws, WithdrawalSettled
<1>5. CASE UNCHANGED vars
  BY <1>5 DEF vars
<1> QED
  BY <1>1, <1>2, <1>3, <1>4, <1>5 DEF Next

TokenInv == TypeOK /\ TokensNeverReused /\ lastEntry <= job.token

\* Every step hands out tokens above those it has handed out.
LEMMA TokenInvInductive == TokenInv /\ [Next]_vars /\ TypeOK' => TokenInv'
<1> SUFFICES ASSUME TokenInv, [Next]_vars, TypeOK'
             PROVE  TokenInv'
  OBVIOUS
<1>types. /\ job.token \in Nat /\ lastEntry \in Nat
          /\ \A s \in Sessions : session[s].token \in Nat
  BY DEF TokenInv, TypeOK, JobRow, SessionRow
<1>write. lastEntry' \in {lastEntry, job.token}
  BY WritesCarryNewestToken DEF TokenInv
<1>1. CASE \A s \in Sessions : ~ClaimGranted(s)
  <2>1. /\ job'.token = job.token
        /\ \A t \in Sessions : session'[t].token = session[t].token
    BY <1>1, TokensKept DEF TokenInv
  <2> QED
    BY <2>1, <1>types, <1>write DEF TokenInv, TokensNeverReused
<1>2. ASSUME NEW s \in Sessions, ClaimGranted(s)
      PROVE  TokenInv'
  <2>1. job'.token = job.token + 1
    BY <1>2 DEF ClaimGranted, NextToken
  <2>2. /\ session'[s].token = job.token + 1
        /\ \A t \in Sessions \ {s} : session'[t].token = session[t].token
    BY <1>2 DEF ClaimGranted, NextToken, TokenInv, TypeOK, SessionRow
  <2>3. \A t \in Sessions : session[t].token <= job.token
    BY DEF TokenInv, TokensNeverReused
  <2>4. \A t \in Sessions : session'[t].token <= job'.token
    BY <2>1, <2>2, <2>3, <1>types
  <2>5. \A t, u \in Sessions : session'[t].token = session'[u].token =>
                                t = u \/ session'[t].token = 0
    <3> SUFFICES ASSUME NEW t \in Sessions, NEW u \in Sessions, t # u,
                        session'[t].token = session'[u].token
                 PROVE  session'[t].token = 0
      OBVIOUS
    <3>1. t # s /\ u # s
      BY <2>2, <2>3, <1>types
    <3> QED
      BY <3>1, <2>2 DEF TokenInv, TokensNeverReused
  <2>6. lastEntry' <= job'.token
    BY <2>1, <1>write, <1>types DEF TokenInv
  <2> QED
    BY <2>4, <2>5, <2>6 DEF TokenInv, TokensNeverReused
<1> QED
  BY <1>1, <1>2

\* The inductive invariant about tokens: the row holds the last token handed out, and no
\* invocation a later one.
THEOREM TokenInvariant == Spec => []TokenInv
<1>1. Init => TokenInv
  BY LeaseAssumption
     DEF Init, TokenInv, TokensNeverReused, TypeOK, JobRow, SessionRow, Step, Status
<1>2. TokenInv /\ [Next]_vars /\ TypeOK' => TokenInv'
  BY TokenInvInductive
<1> QED
  BY <1>1, <1>2, TypeCorrect, PTL DEF Spec

\* No two claims are ever given the same fencing token (both claim functions).
THEOREM TokensUnique == Spec => []TokensNeverReused
<1>1. TokenInv => TokensNeverReused
  BY DEF TokenInv
<1> QED
  BY <1>1, TokenInvariant, PTL

\* After a later claim has passed a first fence, an earlier one never passes another:
\* it may end the service it is in, but enters none (_require_current_fence).
THEOREM OldClaimsStayOut == Spec => OldClaimsNeverEnter
<1>1. TokenInv /\ [Next]_vars => [lastEntry' >= lastEntry]_vars
  <2> SUFFICES ASSUME TokenInv, [Next]_vars
               PROVE  lastEntry' >= lastEntry
    BY DEF TokenInv
  <2>1. lastEntry' \in {lastEntry, job.token}
    BY WritesCarryNewestToken DEF TokenInv
  <2> QED
    BY <2>1 DEF TokenInv, TypeOK, JobRow
<1> QED
  BY <1>1, TokenInvariant, PTL DEF Spec, OldClaimsNeverEnter

-----------------------------------------------------------------------------

\* A lease in the row belongs to a session that was granted it, is cleared as a
\* whole, and is never ahead of the renewal that may be under way.
RowInv ==
  /\ TypeOK
  /\ LeaseOnlyWhileActive
  /\ job.claim = None => job.expires = 0
  /\ job.claim # None => session[job.claim].pc \in {"working", "over"}
  /\ \A s \in Sessions :
       session[s].beat # 0 =>
         /\ session[s].pc = "working"
         /\ job.claim = s => job.expires <= session[s].beat + LeaseSeconds

\* A session that is over, and a row that either stays or is cleared.
LEMMA OverKeepsRowInv ==
  ASSUME RowInv, TypeOK', NEW s \in Sessions, Over(s), session[s].pc # "new",
         \/ job' = job
         \/ \E status \in Status : job' = Cleared(job, status)
  PROVE  RowInv'
<1>1. /\ session'[s].pc = "over" /\ session'[s].beat = 0
      /\ \A t \in Sessions \ {s} : session'[t] = session[t]
  BY DEF Over, RowInv, TypeOK, SessionRow
<1>2. CASE job' = job
  BY <1>1, <1>2 DEF RowInv, TypeOK, JobRow, LeaseOnlyWhileActive
<1>3. ASSUME NEW status \in Status, job' = Cleared(job, status)
      PROVE  RowInv'
  <2>1. job'.claim = None /\ job'.expires = 0
    BY <1>3, ClearedRow DEF RowInv, TypeOK
  <2>2. LeaseOnlyWhileActive'
    BY <2>1 DEF LeaseOnlyWhileActive
  <2>3. \A t \in Sessions : session'[t].beat # 0 =>
          /\ session'[t].pc = "working"
          /\ job'.claim # t
    <3> SUFFICES ASSUME NEW t \in Sessions, session'[t].beat # 0
                 PROVE  session'[t].pc = "working" /\ job'.claim # t
      OBVIOUS
    <3>1. t # s /\ session'[t] = session[t]
      BY <1>1
    <3> QED
      BY <2>1, <3>1, LeaseAssumption DEF RowInv
  <2> QED
    BY <2>1, <2>2, <2>3 DEF RowInv
<1> QED
  BY <1>2, <1>3

\* Every step keeps leases to jobs that are active.
LEMMA RowInvInductive == RowInv /\ [Next]_vars /\ TypeOK' => RowInv'
<1> SUFFICES ASSUME RowInv, [Next]_vars, TypeOK'
             PROVE  RowInv'
  OBVIOUS
<1>types. /\ TypeOK /\ job \in JobRow /\ now \in Nat
          /\ LeaseSeconds \in Nat /\ None \notin Sessions
          /\ job.expires <= now + LeaseSeconds
          /\ \A s \in Sessions : session[s] \in SessionRow
  BY LeaseAssumption DEF RowInv, TypeOK
<1>1. CASE Tick
  BY <1>1 DEF Tick, RowInv, LeaseOnlyWhileActive
<1>2. ASSUME NEW s \in Sessions, Claims(s)
      PROVE  RowInv'
  <2>1. ASSUME NEW kind \in {"claimJob", "claimReconciliation"}, BeginClaim(s, kind)
        PROVE  RowInv'
    <3>1. /\ job' = job /\ session[s].pc = "new"
          /\ session'[s].pc = kind /\ session'[s].beat = session[s].beat
          /\ \A t \in Sessions \ {s} : session'[t] = session[t]
      BY <2>1, <1>types DEF BeginClaim, TypeOK, SessionRow
    <3> QED
      BY <3>1, <1>types DEF RowInv, JobRow, LeaseOnlyWhileActive
  <2>2. CASE ClaimRefused(s)
    BY <2>2, OverKeepsRowInv DEF ClaimRefused
  <2>3. CASE ClaimRouted(s)
    BY <2>3, OverKeepsRowInv DEF ClaimRouted, Status
  <2>4. CASE ClaimGranted(s)
    <3>1. session[s].pc \in {"claimJob", "claimReconciliation"}
      BY <2>4 DEF ClaimGranted, MayClaim, StatusClaimable
    <3>2. session[s].beat = 0
      BY <3>1 DEF RowInv
    <3>3. /\ session'[s].pc = "working" /\ session'[s].beat = 0
          /\ \A t \in Sessions \ {s} : session'[t] = session[t]
      BY <2>4, <3>2, <1>types DEF ClaimGranted, TypeOK, SessionRow
    <3>4. job'.claim = s /\ job'.status = "ACTIVE"
      BY <2>4 DEF ClaimGranted
    <3> QED
      BY <3>3, <3>4, <1>types DEF RowInv, LeaseOnlyWhileActive
  <2> QED
    BY <1>2, <2>1, <2>2, <2>3, <2>4 DEF Claims
<1>3. ASSUME NEW s \in Sessions, Works(s)
      PROVE  RowInv'
  <2>1. CASE ReadClock(s)
    <3>1. /\ job' = job
          /\ session'[s].pc = session[s].pc /\ session'[s].beat = session[s].beat
          /\ \A t \in Sessions \ {s} : session'[t] = session[t]
      BY <2>1, <1>types DEF ReadClock, TypeOK, SessionRow
    <3> QED
      BY <3>1, <1>types DEF RowInv, JobRow, LeaseOnlyWhileActive
  <2>2. CASE FencedWrite(s)
    <3>1. /\ job' = job
          /\ session'[s].pc = session[s].pc /\ session'[s].beat = session[s].beat
          /\ \A t \in Sessions \ {s} : session'[t] = session[t]
      BY <2>2, <1>types DEF FencedWrite, TypeOK, SessionRow
    <3> QED
      BY <3>1, <1>types DEF RowInv, JobRow, LeaseOnlyWhileActive
  <2>3. ASSUME NEW status \in {"RECONCILING", "ACTIVE", "FINISHED", "FAILED"},
               HandOn(s, status)
        PROVE  RowInv'
    <3>1. \E after \in Status : job' = Cleared(job, after)
      BY <2>3, <1>types DEF HandOn, JobRow, Status, Closed
    <3> QED
      BY <2>3, <3>1, OverKeepsRowInv DEF HandOn, Fenced, Working
  <2>4. CASE FenceRaises(s) \/ Crash(s) \/ HeartbeatRaises(s)
    BY <2>4, OverKeepsRowInv DEF FenceRaises, Crash, HeartbeatRaises, Working
  <2>5. CASE BeginHeartbeat(s)
    <3>1. /\ job' = job /\ session[s].pc = "working"
          /\ session'[s].pc = "working" /\ session'[s].beat = now
          /\ \A t \in Sessions \ {s} : session'[t] = session[t]
      BY <2>5, <1>types DEF BeginHeartbeat, Working, TypeOK, SessionRow
    <3> QED
      BY <3>1, <1>types DEF RowInv, JobRow, LeaseOnlyWhileActive
  <2>6. CASE Heartbeat(s)
    <3>1. /\ session'[s].pc = "working" /\ session'[s].beat = 0
          /\ \A t \in Sessions \ {s} : session'[t] = session[t]
      BY <2>6, <1>types DEF Heartbeat, Working, TypeOK, SessionRow
    <3>2. job.claim = s /\ job'.claim = s /\ job'.status = "ACTIVE"
      BY <2>6, <1>types DEF Heartbeat, Fence, JobRow
    <3> QED
      BY <3>1, <3>2, <1>types DEF RowInv, LeaseOnlyWhileActive
  <2> QED
    BY <1>3, <2>1, <2>2, <2>3, <2>4, <2>5, <2>6 DEF Works
<1>4. CASE Unleased
  <2>1. CASE CallbackHandsOn \/ WithdrawalSettled
    <3>1. \E status \in Status : job' = Cleared(job, status)
      BY <2>1 DEF CallbackHandsOn, WithdrawalSettled, Status, Closed
    <3>2. job'.claim = None /\ job'.expires = 0
      BY <3>1, <1>types, ClearedRow
    <3>3. session' = session
      BY <2>1 DEF CallbackHandsOn, WithdrawalSettled
    <3> QED
      BY <3>2, <3>3, <1>types DEF RowInv, LeaseOnlyWhileActive
  <2>2. CASE OperatorRules
    <3>1. job.claim = None
      BY <2>2 DEF OperatorRules, RowInv, LeaseOnlyWhileActive
    <3>2. job'.claim = None /\ job'.expires = job.expires /\ session' = session
      BY <2>2, <3>1, <1>types DEF OperatorRules, JobRow
    <3> QED
      BY <3>1, <3>2, <1>types DEF RowInv, LeaseOnlyWhileActive
  <2>3. CASE PartnerWithdraws
    <3>1. /\ job'.claim = job.claim /\ job'.expires = job.expires
          /\ job'.status = "CANCELLED" /\ session' = session
      BY <2>3, <1>types DEF PartnerWithdraws, JobRow
    <3> QED
      BY <3>1, <1>types DEF RowInv, LeaseOnlyWhileActive
  <2> QED
    BY <1>4, <2>1, <2>2, <2>3 DEF Unleased
<1>5. CASE UNCHANGED vars
  BY <1>5 DEF vars, RowInv, LeaseOnlyWhileActive
<1> QED
  BY <1>1, <1>2, <1>3, <1>4, <1>5 DEF Next

\* The inductive invariant about the row: a lease belongs to an invocation that was granted
\* it, and is cleared as a whole.
THEOREM RowInvariant == Spec => []RowInv
<1>1. Init => RowInv
  BY LeaseAssumption
     DEF Init, RowInv, LeaseOnlyWhileActive, TypeOK, JobRow, SessionRow, Step, Status
<1>2. RowInv /\ [Next]_vars /\ TypeOK' => RowInv'
  BY RowInvInductive
<1> QED
  BY <1>1, <1>2, TypeCorrect, PTL DEF Spec

\* Nobody holds a job that waits for reconciliation or was closed by its worker.
THEOREM FreeUnlessActive == Spec => []LeaseOnlyWhileActive
<1>1. RowInv => LeaseOnlyWhileActive
  BY DEF RowInv
<1> QED
  BY <1>1, RowInvariant, PTL

-----------------------------------------------------------------------------

\* What a step may do to the row: hand a lease over only when it has run out by the
\* clock, extend it, clear it, or leave the lease columns alone.
LEMMA RowSteps ==
  ASSUME RowInv, [Next]_vars
  PROVE  \/ \E s \in Sessions :
              /\ ~Live(now) /\ job.claim # s
              /\ job'.claim = s /\ job'.token = job.token + 1
              /\ UNCHANGED <<now, lastEntry>>
         \/ /\ job.claim # None
            /\ job'.claim = job.claim /\ job'.token = job.token
            /\ job'.expires >= job.expires
            /\ UNCHANGED <<now, lastEntry>>
         \/ /\ job'.claim = None /\ job'.token = job.token
            /\ \/ UNCHANGED lastEntry
               \/ job.claim # None /\ lastEntry' = job.token
            /\ job'.expires = 0 /\ now' = now
         \/ /\ job'.claim = job.claim /\ job'.token = job.token
            /\ job'.expires = job.expires
            /\ \/ UNCHANGED lastEntry
               \/ job.claim # None /\ lastEntry' = job.token /\ now' = now
            /\ now' \in Nat /\ now' >= now
<1>types. /\ job \in JobRow /\ now \in Nat /\ None \notin Sessions
          /\ \A s \in Sessions : session[s] \in SessionRow
          /\ \A s \in Sessions : session[s].seen <= now
  BY LeaseAssumption DEF RowInv, TypeOK
<1>1. CASE Tick
  BY <1>1, <1>types DEF Tick, JobRow
<1>2. ASSUME NEW s \in Sessions, ClaimGranted(s)
      PROVE  /\ ~Live(now) /\ job.claim # s
             /\ job'.claim = s /\ job'.token = job.token + 1
             /\ UNCHANGED <<now, lastEntry>>
  <2>1. session[s].pc \in {"claimJob", "claimReconciliation"}
    BY <1>2 DEF ClaimGranted, MayClaim, StatusClaimable
  <2>2. job.claim # s
    BY <2>1, <1>types DEF RowInv
  <2>3. ~(job.expires > session[s].seen)
    BY <1>2 DEF ClaimGranted, MayClaim, Live
  <2>4. ~Live(now)
    BY <2>3, <1>types DEF Live, JobRow, SessionRow
  <2> QED
    BY <1>2, <2>2, <2>4 DEF ClaimGranted, NextToken
<1>3. ASSUME NEW s \in Sessions, Heartbeat(s)
      PROVE  /\ job.claim # None
             /\ job'.claim = job.claim /\ job'.token = job.token
             /\ job'.expires >= job.expires
             /\ UNCHANGED <<now, lastEntry>>
  <2>1. job.claim = s /\ session[s].beat # 0
    BY <1>3 DEF Heartbeat, Fence
  <2>2. job.expires <= session[s].beat + LeaseSeconds
    BY <2>1 DEF RowInv
  <2>3. job' = [job EXCEPT !.expires = session[s].beat + LeaseSeconds]
    BY <1>3 DEF Heartbeat
  <2> QED
    BY <1>3, <2>1, <2>2, <2>3, <1>types, LeaseAssumption DEF Heartbeat, JobRow, SessionRow
<1>4. ASSUME NEW s \in Sessions, ClaimRouted(s)
      PROVE  job'.claim = None /\ job'.token = job.token /\ job'.expires = 0
             /\ UNCHANGED <<now, lastEntry>>
  BY <1>4, <1>types, ClearedRow DEF ClaimRouted, Status
<1>5. ASSUME NEW s \in Sessions,
             NEW status \in {"RECONCILING", "ACTIVE", "FINISHED", "FAILED"}, HandOn(s, status)
      PROVE  /\ job'.claim = None /\ job'.token = job.token /\ job'.expires = 0
             /\ now' = now
             /\ \/ UNCHANGED lastEntry
                \/ job.claim # None /\ lastEntry' = job.token
  <2>1. \E after \in Status : job' = Cleared(job, after)
    BY <1>5, <1>types DEF HandOn, JobRow, Status, Closed
  <2> QED
    BY <1>5, <2>1, <1>types, ClearedRow DEF HandOn, Fenced, FenceOfRow, FenceOfCopy, Fence
<1>6. ASSUME NEW s \in Sessions, FencedWrite(s)
      PROVE  /\ UNCHANGED <<now, job>>
             /\ \/ UNCHANGED lastEntry
                \/ job.claim # None /\ lastEntry' = job.token
  BY <1>6, <1>types DEF FencedWrite, Fenced, FenceOfRow, FenceOfCopy, Fence
<1>7. ASSUME NEW s \in Sessions,
             \/ \E kind \in {"claimJob", "claimReconciliation"} : BeginClaim(s, kind)
             \/ ClaimRefused(s) \/ ReadClock(s) \/ FenceRaises(s) \/ Crash(s)
             \/ BeginHeartbeat(s) \/ HeartbeatRaises(s)
      PROVE  UNCHANGED <<now, job, lastEntry>>
  BY <1>7 DEF BeginClaim, ClaimRefused, ReadClock, FenceRaises, Crash, BeginHeartbeat,
              HeartbeatRaises
<1>8. CASE CallbackHandsOn \/ WithdrawalSettled
  <2>1. \E status \in Status : job' = Cleared(job, status)
    BY <1>8 DEF CallbackHandsOn, WithdrawalSettled, Status, Closed
  <2> QED
    BY <1>8, <2>1, <1>types, ClearedRow DEF CallbackHandsOn, WithdrawalSettled
<1>9. CASE OperatorRules \/ PartnerWithdraws
  BY <1>9, <1>types DEF OperatorRules, PartnerWithdraws, JobRow
<1>10. CASE UNCHANGED vars
  BY <1>10, <1>types DEF vars
<1>11. now \in Nat /\ now >= now
  BY <1>types
<1> QED
  BY <1>1, <1>2, <1>3, <1>4, <1>5, <1>6, <1>7, <1>8, <1>9, <1>10, <1>11
     DEF Next, Claims, Works, Unleased

\* A lease that is live by the clock never passes to another claim
\* (claim_generation_job, claim_generation_reconciliation).
THEOREM LiveLeaseKept == Spec => LiveLeaseNotStolen
<1>1. RowInv /\ [Next]_vars =>
        [job.claim # None /\ Live(now) => job'.claim \in {job.claim, None}]_vars
  BY RowSteps
<1> QED
  BY <1>1, RowInvariant, PTL DEF Spec, LiveLeaseNotStolen

\* The deadline of a claim that stands never moves back (heartbeat_generation_job).
THEOREM DeadlineMonotone == Spec => DeadlineNeverMovesBack
<1>1. RowInv /\ [Next]_vars => [job'.claim = job.claim => job'.expires >= job.expires]_vars
  <2> SUFFICES ASSUME RowInv, [Next]_vars, job'.claim = job.claim
               PROVE  job'.expires >= job.expires
    BY DEF RowInv
  <2>1. job.expires \in Nat /\ (job.claim = None => job.expires = 0)
    BY DEF RowInv, TypeOK, JobRow
  <2>2. CASE job'.claim = None /\ job'.expires = 0
    BY <2>1, <2>2
  <2> QED
    BY <2>1, <2>2, RowSteps
<1> QED
  BY <1>1, RowInvariant, PTL DEF Spec, DeadlineNeverMovesBack

\* The row implements the abstract lock: every step of the code is a step of
\* FencedHolder or leaves the lock as it is.
THEOREM Implements == Spec => ImplementsFencedHolder
<1>1. Init => Holder!Init
  BY DEF Init, Holder!Init, Live
<1>2. RowInv /\ [Next]_vars => [Holder!Next]_(Holder!vars)
  <2> SUFFICES ASSUME RowInv, [Next]_vars
               PROVE  [Holder!Next]_(Holder!vars)
    OBVIOUS
  <2> USE DEF Holder!Next, Holder!vars
  <2>types. job.expires \in Nat /\ now \in Nat /\ None \notin Sessions
    BY LeaseAssumption DEF RowInv, TypeOK, JobRow
  <2>1. ASSUME NEW s \in Sessions, ~Live(now), job'.claim = s,
               job'.token = job.token + 1, UNCHANGED <<now, lastEntry>>
        PROVE  Holder!Take(s)
    BY <2>1 DEF Holder!Take
  <2>2. ASSUME job.claim # None, job'.claim = job.claim, job'.token = job.token,
               UNCHANGED <<now, lastEntry>>
        PROVE  Holder!Renew
    BY <2>2 DEF Holder!Renew
  <2>3. ASSUME job'.claim = None, job'.token = job.token,
               \/ UNCHANGED lastEntry
               \/ job.claim # None /\ lastEntry' = job.token
        PROVE  Holder!Drop \/ Holder!Enter
    BY <2>3 DEF Holder!Drop, Holder!Enter
  <2>4. ASSUME job'.claim = job.claim, job'.token = job.token, job'.expires = job.expires,
               \/ UNCHANGED lastEntry
               \/ job.claim # None /\ lastEntry' = job.token /\ now' = now,
               now' \in Nat, now' >= now
        PROVE  Holder!Expire \/ Holder!Enter \/ UNCHANGED Holder!vars
    <3> DEFINE live == job.claim # None /\ Live(now)
    <3>1. live' => live
      BY <2>4, <2>types DEF Live
    <3>2. CASE UNCHANGED lastEntry /\ live'
      <4>1. live' = live
        BY <3>1, <3>2
      <4> QED
        BY <2>4, <3>2, <4>1
    <3>3. CASE UNCHANGED lastEntry /\ ~live'
      <4>1. live' = FALSE
        BY <3>3
      <4> QED
        BY <2>4, <3>3, <4>1 DEF Holder!Expire
    <3>4. CASE job.claim # None /\ lastEntry' = job.token /\ now' = now
      <4>1. live => live'
        BY <2>4, <3>4 DEF Live
      <4>2. live' = live
        BY <3>1, <4>1
      <4> QED
        BY <2>4, <3>4, <4>2 DEF Holder!Enter
    <3> QED
      BY <2>4, <3>2, <3>3, <3>4
  <2> QED
    BY <2>1, <2>2, <2>3, <2>4, RowSteps
<1> QED
  BY <1>1, <1>2, RowInvariant, PTL DEF Spec, ImplementsFencedHolder, Holder!Spec

-----------------------------------------------------------------------------
(* The row locks of the transactions about one order: sequences of rows     *)

\* The rows before the i-th, and all of them.
Before(rows, i) == {rows[j] : j \in 1..(i - 1)}
Has(rows) == {rows[j] : j \in 1..Len(rows)}

\* What a transaction that works under the job's lock takes besides the invite.
JobRows ==
  {"job", "attempt1", "attempt2", "order", "reservation", "account", "lot1", "lot2",
   "source", "candidate", "result", "entitlement"}

\* The global order: the invite first or never, then the job, then attempts and the order,
\* and nothing else before both job and order.
Proper(held, row) ==
  /\ row = "invite" => held = {} \/ "invite" \in held
  /\ row = "job" => held \subseteq {"invite"} \/ "job" \in held
  /\ row \notin {"invite", "job"} => row \in JobRows /\ "job" \in held
  /\ row \notin {"invite", "job", "attempt1", "attempt2", "order"} => "order" \in held

\* A transaction that has locked held may go on with rows.
KeepsFrom(held, rows) ==
  /\ rows \in Seq(RowNames)
  /\ \A i \in 1..Len(rows) : Proper(held \cup Before(rows, i), rows[i])

Keeps(rows) == KeepsFrom({}, rows)

\* What two sequences of rows give, one after the other.
LEMMA Concatenation ==
  ASSUME NEW r \in Seq(RowNames), NEW s \in Seq(RowNames)
  PROVE  /\ r \o s \in Seq(RowNames)
         /\ Len(r \o s) = Len(r) + Len(s)
         /\ Has(r \o s) = Has(r) \cup Has(s)
         /\ \A i \in 1..Len(r) : (r \o s)[i] = r[i] /\ Before(r \o s, i) = Before(r, i)
         /\ \A i \in 1..Len(s) : /\ (r \o s)[Len(r) + i] = s[i]
                                 /\ Before(r \o s, Len(r) + i) = Has(r) \cup Before(s, i)
<1> DEFINE t == r \o s
<1>1. t \in Seq(RowNames) /\ Len(t) = Len(r) + Len(s) /\ Len(r) \in Nat /\ Len(s) \in Nat
  OBVIOUS
<1>2. \A i \in 1..Len(r) : t[i] = r[i]
  OBVIOUS
<1>3. \A i \in 1..Len(s) : t[Len(r) + i] = s[i]
  OBVIOUS
<1>4. \A j \in 1..Len(t) :
        j \in 1..Len(r) \/ (j - Len(r) \in 1..Len(s) /\ j = Len(r) + (j - Len(r)))
  BY <1>1
<1> HIDE DEF t
<1>5. Has(t) = Has(r) \cup Has(s)
  <2>1. ASSUME NEW x \in Has(t) PROVE x \in Has(r) \cup Has(s)
    <3>1. PICK j \in 1..Len(t) : x = t[j]
      BY <2>1 DEF Has
    <3> QED
      BY <3>1, <1>2, <1>3, <1>4 DEF Has
  <2>2. \A j \in 1..Len(r) : r[j] \in Has(t)
    <3> SUFFICES ASSUME NEW j \in 1..Len(r) PROVE r[j] \in Has(t)
      OBVIOUS
    <3>1. j \in 1..Len(t) /\ t[j] = r[j]
      BY <1>1, <1>2
    <3> QED
      BY <3>1 DEF Has
  <2>3. \A j \in 1..Len(s) : s[j] \in Has(t)
    <3> SUFFICES ASSUME NEW j \in 1..Len(s) PROVE s[j] \in Has(t)
      OBVIOUS
    <3>1. Len(r) + j \in 1..Len(t) /\ t[Len(r) + j] = s[j]
      BY <1>1, <1>3
    <3> QED
      BY <3>1 DEF Has
  <2> QED
    BY <2>1, <2>2, <2>3 DEF Has
<1>6. ASSUME NEW i \in 1..Len(r) PROVE Before(t, i) = Before(r, i)
  <2>1. \A j \in 1..(i - 1) : t[j] = r[j]
    BY <1>1, <1>2
  <2> QED
    BY <2>1 DEF Before
<1>7. ASSUME NEW i \in 1..Len(s) PROVE Before(t, Len(r) + i) = Has(r) \cup Before(s, i)
  <2>1. ASSUME NEW x \in Before(t, Len(r) + i) PROVE x \in Has(r) \cup Before(s, i)
    <3>1. PICK j \in 1..(Len(r) + i - 1) : x = t[j]
      BY <2>1 DEF Before
    <3>2. CASE j \in 1..Len(r)
      BY <3>1, <3>2, <1>2 DEF Has
    <3>3. CASE j \notin 1..Len(r)
      <4>1. j - Len(r) \in 1..(i - 1) /\ j - Len(r) \in 1..Len(s) /\ j = Len(r) + (j - Len(r))
        BY <3>3, <1>1
      <4>2. t[j] = s[j - Len(r)]
        BY <4>1, <1>3
      <4> QED
        BY <3>1, <4>1, <4>2 DEF Before
    <3> QED
      BY <3>2, <3>3
  <2>2. ASSUME NEW j \in 1..Len(r) PROVE r[j] \in Before(t, Len(r) + i)
    <3>1. j \in 1..(Len(r) + i - 1) /\ t[j] = r[j]
      BY <1>1, <1>2
    <3> QED
      BY <3>1 DEF Before
  <2>3. ASSUME NEW j \in 1..(i - 1) PROVE s[j] \in Before(t, Len(r) + i)
    <3>1. Len(r) + j \in 1..(Len(r) + i - 1) /\ j \in 1..Len(s)
      BY <1>1
    <3>2. t[Len(r) + j] = s[j]
      BY <3>1, <1>3
    <3> QED
      BY <3>1, <3>2 DEF Before
  <2> QED
    BY <2>1, <2>2, <2>3 DEF Has, Before
<1> QED
  BY <1>1, <1>2, <1>3, <1>5, <1>6, <1>7 DEF t

\* The rows of short sequences.
LEMMA Short ==
  /\ <<>> \in Seq(RowNames) /\ Has(<<>>) = {} /\ Len(<<>>) = 0
  /\ \A a \in RowNames :
       <<a>> \in Seq(RowNames) /\ Has(<<a>>) = {a} /\ Before(<<a>>, 1) = {}
  /\ \A a, b \in RowNames :
       /\ <<a, b>> \in Seq(RowNames) /\ Has(<<a, b>>) = {a, b}
       /\ Before(<<a, b>>, 1) = {} /\ Before(<<a, b>>, 2) = {a}
  /\ \A a, b, c \in RowNames :
       /\ <<a, b, c>> \in Seq(RowNames) /\ Has(<<a, b, c>>) = {a, b, c}
       /\ Before(<<a, b, c>>, 1) = {} /\ Before(<<a, b, c>>, 2) = {a}
       /\ Before(<<a, b, c>>, 3) = {a, b}
<1>0. /\ 1..0 = {} /\ 1..1 = {1} /\ 1..2 = {1, 2} /\ 1..3 = {1, 2, 3}
      /\ 1 - 1 = 0 /\ 2 - 1 = 1 /\ 3 - 1 = 2
  OBVIOUS
<1>1. <<>> \in Seq(RowNames) /\ Has(<<>>) = {} /\ Len(<<>>) = 0
  BY <1>0 DEF Has
<1>2. ASSUME NEW a \in RowNames
      PROVE  /\ <<a>> \in Seq(RowNames) /\ Has(<<a>>) = {a}
             /\ Before(<<a>>, 1) = {}
  <2> DEFINE t == <<a>>
  <2>1. t \in Seq(RowNames) /\ Len(t) = 1 /\ t[1] = a
    OBVIOUS
  <2> HIDE DEF t
  <2>2. Has(t) = {a}
    BY <1>0, <2>1 DEF Has
  <2>3. Before(t, 1) = {}
    BY <1>0, <2>1 DEF Before
  <2> QED
    BY <2>1, <2>2, <2>3 DEF t
<1>3. ASSUME NEW a \in RowNames, NEW b \in RowNames
      PROVE  /\ <<a, b>> \in Seq(RowNames) /\ Has(<<a, b>>) = {a, b}
             /\ Before(<<a, b>>, 1) = {} /\ Before(<<a, b>>, 2) = {a}
  <2> DEFINE t == <<a, b>>
  <2>1. t \in Seq(RowNames) /\ Len(t) = 2 /\ t[1] = a /\ t[2] = b
    OBVIOUS
  <2> HIDE DEF t
  <2>2. Has(t) = {a, b}
    BY <1>0, <2>1 DEF Has
  <2>3. Before(t, 1) = {} /\ Before(t, 2) = {a}
    BY <1>0, <2>1 DEF Before
  <2> QED
    BY <2>1, <2>2, <2>3 DEF t
<1>4. ASSUME NEW a \in RowNames, NEW b \in RowNames, NEW c \in RowNames
      PROVE  /\ <<a, b, c>> \in Seq(RowNames) /\ Has(<<a, b, c>>) = {a, b, c}
             /\ Before(<<a, b, c>>, 1) = {} /\ Before(<<a, b, c>>, 2) = {a}
             /\ Before(<<a, b, c>>, 3) = {a, b}
  <2> DEFINE t == <<a, b, c>>
  <2>1. t \in Seq(RowNames) /\ Len(t) = 3 /\ t[1] = a /\ t[2] = b /\ t[3] = c
    OBVIOUS
  <2> HIDE DEF t
  <2>2. Has(t) = {a, b, c}
    BY <1>0, <2>1 DEF Has
  <2>3. Before(t, 1) = {} /\ Before(t, 2) = {a} /\ Before(t, 3) = {a, b}
    BY <1>0, <2>1 DEF Before
  <2> QED
    BY <2>1, <2>2, <2>3 DEF t
<1> QED
  BY <1>1, <1>2, <1>3, <1>4

-----------------------------------------------------------------------------
(* The transactions that keep the order                                     *)

\* One sequence after the other.
LEMMA KeepsOn ==
  ASSUME NEW held, NEW r, NEW s, KeepsFrom(held, r), KeepsFrom(held \cup Has(r), s)
  PROVE  KeepsFrom(held, r \o s) /\ Has(r \o s) = Has(r) \cup Has(s)
<1>1. r \in Seq(RowNames) /\ s \in Seq(RowNames)
  BY DEF KeepsFrom
<1> DEFINE t == r \o s
<1>2. /\ t \in Seq(RowNames) /\ Len(t) = Len(r) + Len(s) /\ Has(t) = Has(r) \cup Has(s)
      /\ \A i \in 1..Len(r) : t[i] = r[i] /\ Before(t, i) = Before(r, i)
      /\ \A i \in 1..Len(s) : /\ t[Len(r) + i] = s[i]
                              /\ Before(t, Len(r) + i) = Has(r) \cup Before(s, i)
  BY <1>1, Concatenation
<1> HIDE DEF t
<1>3. ASSUME NEW i \in 1..Len(t) PROVE Proper(held \cup Before(t, i), t[i])
  <2>1. CASE i \in 1..Len(r)
    BY <2>1, <1>2 DEF KeepsFrom
  <2>2. CASE i \notin 1..Len(r)
    <3> DEFINE k == i - Len(r)
    <3>1. k \in 1..Len(s) /\ i = Len(r) + k
      BY <2>2, <1>1, <1>2
    <3> HIDE DEF k
    <3>2. t[i] = s[k] /\ Before(t, i) = Has(r) \cup Before(s, k)
      BY <3>1, <1>2
    <3>3. Proper((held \cup Has(r)) \cup Before(s, k), s[k])
      BY <3>1 DEF KeepsFrom
    <3>4. (held \cup Has(r)) \cup Before(s, k) = held \cup (Has(r) \cup Before(s, k))
      OBVIOUS
    <3> QED
      BY <3>2, <3>3, <3>4
  <2> QED
    BY <2>1, <2>2
<1> QED
  BY <1>2, <1>3 DEF KeepsFrom, t

\* Whoever has the job may do what those may who have less.
LEMMA KeepsWithMore ==
  ASSUME NEW held, NEW more, NEW s, KeepsFrom(held, s), held \subseteq more, "job" \in more,
         "invite" \in Has(s) => "invite" \in more
  PROVE  KeepsFrom(more, s)
<1>1. ASSUME NEW i \in 1..Len(s) PROVE Proper(more \cup Before(s, i), s[i])
  <2>1. Proper(held \cup Before(s, i), s[i])
    BY DEF KeepsFrom
  <2>2. s[i] = "invite" => "invite" \in more
    BY DEF Has
  <2> QED
    BY <2>1, <2>2 DEF Proper
<1> QED
  BY <1>1 DEF KeepsFrom

\* Behind the job come attempts and the order, behind the order all rows of the job.
LEMMA KeepsBehind ==
  ASSUME NEW held, NEW s \in Seq(RowNames), "job" \in held,
         \/ Has(s) \subseteq {"job", "attempt1", "attempt2", "order"}
         \/ "order" \in held /\ Has(s) \subseteq JobRows
  PROVE  KeepsFrom(held, s)
<1>1. ASSUME NEW i \in 1..Len(s) PROVE Proper(held \cup Before(s, i), s[i])
  <2>1. s[i] \in Has(s)
    BY DEF Has
  <2> QED
    BY <2>1 DEF Proper, JobRows
<1> QED
  BY <1>1 DEF KeepsFrom

\* The same from the start of a transaction.
LEMMA KeepsAfter ==
  ASSUME NEW r, NEW s, Keeps(r), KeepsFrom(Has(r), s)
  PROVE  Keeps(r \o s) /\ Has(r \o s) = Has(r) \cup Has(s)
<1> DEFINE none == {}
<1>1. none \cup Has(r) = Has(r)
  OBVIOUS
<1>2. KeepsFrom(none, r)
  BY DEF Keeps
<1> HIDE DEF none
<1>3. KeepsFrom(none \cup Has(r), s)
  BY <1>1
<1>4. KeepsFrom(none, r \o s) /\ Has(r \o s) = Has(r) \cup Has(s)
  BY <1>2, <1>3, KeepsOn, ZenonT(30)
<1> QED
  BY <1>4 DEF Keeps, none

\* How a transaction that has the job may go on.
LEMMA GoesOn ==
  ASSUME NEW r, NEW s, Keeps(r), "job" \in Has(r), s \in Seq(RowNames),
         \/ Has(s) \subseteq {"job", "attempt1", "attempt2", "order"}
         \/ "order" \in Has(r) /\ Has(s) \subseteq JobRows
         \/ KeepsFrom({"job"}, s) /\ "invite" \notin Has(s)
         \/ Keeps(s) /\ ("invite" \in Has(s) => "invite" \in Has(r))
  PROVE  Keeps(r \o s) /\ Has(r \o s) = Has(r) \cup Has(s)
<1>1. KeepsFrom(Has(r), s)
  BY KeepsBehind, KeepsWithMore DEF Keeps
<1> QED
  BY <1>1, KeepsAfter

\* Whatever keeps the order is a sequence of rows.
LEMMA KeepsIsRows == \A r : Keeps(r) => r \in Seq(RowNames)
BY DEF Keeps, KeepsFrom

\* The parts of which the transactions are made.
LEMMA Parts ==
  /\ Gate \in Seq(RowNames) /\ Has(Gate) = IF partner THEN {"invite"} ELSE {}
  /\ \A a \in Attempts : /\ FencedRows(a) \in Seq(RowNames)
                         /\ Has(FencedRows(a)) = {"job", a}
  /\ RepairLineage \in Seq(RowNames)
  /\ Has(RepairLineage) = {"order", "attempt1", "reservation"}
  /\ Lots \in Seq(RowNames) /\ Has(Lots) = {"lot1", "lot2"}
  /\ GiveBack \in Seq(RowNames) /\ Has(GiveBack) = {"reservation", "account"}
  /\ Fail \in Seq(RowNames)
  /\ Has(Fail) = {"job", "order", "reservation", "account"}
  /\ Capture \in Seq(RowNames)
  /\ Has(Capture) = {"job", "attempt1", "reservation", "account", "lot1", "lot2"}
<1>0. /\ "invite" \in RowNames /\ "job" \in RowNames /\ "attempt1" \in RowNames
      /\ "attempt2" \in RowNames /\ "order" \in RowNames
      /\ "reservation" \in RowNames /\ "account" \in RowNames
      /\ "lot1" \in RowNames /\ "lot2" \in RowNames
  BY DEF RowNames
<1>1. Gate \in Seq(RowNames) /\ Has(Gate) = IF partner THEN {"invite"} ELSE {}
  BY <1>0, Short DEF Gate
<1>2. ASSUME NEW a \in Attempts
      PROVE  FencedRows(a) \in Seq(RowNames) /\ Has(FencedRows(a)) = {"job", a}
  <2>1. "job" \in RowNames /\ a \in RowNames
    BY <1>0 DEF Attempts
  <2> QED
    BY <2>1, Short DEF FencedRows
<1>3. /\ RepairLineage \in Seq(RowNames)
      /\ Has(RepairLineage) = {"order", "attempt1", "reservation"}
  BY <1>0, Short DEF RepairLineage
<1>4. Lots \in Seq(RowNames) /\ Has(Lots) = {"lot1", "lot2"}
  BY <1>0, Short DEF Lots
<1>5. GiveBack \in Seq(RowNames) /\ Has(GiveBack) = {"reservation", "account"}
  BY <1>0, Short DEF GiveBack
<1>6. /\ Fail \in Seq(RowNames)
      /\ Has(Fail) = {"job", "order", "reservation", "account"}
  <2>1. <<"job", "order">> \in Seq(RowNames) /\ Has(<<"job", "order">>) = {"job", "order"}
    BY <1>0, Short
  <2> DEFINE f == <<"job", "order">>
  <2>2. f \in Seq(RowNames) /\ Has(f) = {"job", "order"}
    BY <2>1
  <2> HIDE DEF f
  <2>3. f \o GiveBack \in Seq(RowNames)
          /\ Has(f \o GiveBack) = Has(f) \cup Has(GiveBack)
    BY <2>2, <1>5, Concatenation
  <2> QED
    BY <2>2, <2>3, <1>5 DEF Fail, f
<1>7. /\ Capture \in Seq(RowNames)
      /\ Has(Capture) = {"job", "attempt1", "reservation", "account", "lot1", "lot2"}
  <2>1. /\ <<"reservation", "account">> \in Seq(RowNames)
        /\ Has(<<"reservation", "account">>) = {"reservation", "account"}
    BY <1>0, Short
  <2>2. "attempt1" \in Attempts
    BY DEF Attempts
  <2> DEFINE f == FencedRows("attempt1")
             g == <<"reservation", "account">>
             h == f \o g
  <2>3. f \in Seq(RowNames) /\ Has(f) = {"job", "attempt1"}
    BY <2>2, <1>2
  <2> HIDE DEF f, g
  <2>4. h \in Seq(RowNames) /\ Has(h) = Has(f) \cup Has(g)
    BY <2>1, <2>3, Concatenation DEF g
  <2> HIDE DEF h
  <2>5. h \o Lots \in Seq(RowNames) /\ Has(h \o Lots) = Has(h) \cup Has(Lots)
    BY <2>4, <1>4, Concatenation
  <2> QED
    BY <2>1, <2>3, <2>4, <2>5, <1>4 DEF Capture, f, g, h
<1> QED
  BY <1>1, <1>2, <1>3, <1>4, <1>5, <1>6, <1>7

\* Up to three rows in the order.
LEMMA KeepsShort ==
  ASSUME NEW held, NEW a \in RowNames, NEW b \in RowNames, NEW c \in RowNames,
         Proper(held, a)
  PROVE  /\ KeepsFrom(held, <<a>>)
         /\ Proper(held \cup {a}, b) => KeepsFrom(held, <<a, b>>)
         /\ Proper(held \cup {a}, b) /\ Proper(held \cup {a, b}, c) => KeepsFrom(held, <<a, b, c>>)
<1>0. held \cup {} = held /\ 1..1 = {1} /\ 1..2 = {1, 2} /\ 1..3 = {1, 2, 3}
  OBVIOUS
<1>1. KeepsFrom(held, <<a>>)
  <2> DEFINE t == <<a>>
  <2>1. t \in Seq(RowNames) /\ Len(t) = 1 /\ t[1] = a /\ Before(t, 1) = {}
    BY Short
  <2> HIDE DEF t
  <2>2. KeepsFrom(held, t)
    BY <2>1, <1>0 DEF KeepsFrom
  <2> QED
    BY <2>2 DEF t
<1>2. ASSUME Proper(held \cup {a}, b) PROVE KeepsFrom(held, <<a, b>>)
  <2> DEFINE t == <<a, b>>
  <2>1. /\ t \in Seq(RowNames) /\ Len(t) = 2 /\ t[1] = a /\ t[2] = b
        /\ Before(t, 1) = {} /\ Before(t, 2) = {a}
    BY Short
  <2> HIDE DEF t
  <2>2. KeepsFrom(held, t)
    BY <2>1, <1>0, <1>2 DEF KeepsFrom
  <2> QED
    BY <2>2 DEF t
<1>3. ASSUME Proper(held \cup {a}, b), Proper(held \cup {a, b}, c)
      PROVE  KeepsFrom(held, <<a, b, c>>)
  <2> DEFINE t == <<a, b, c>>
  <2>1. /\ t \in Seq(RowNames) /\ Len(t) = 3 /\ t[1] = a /\ t[2] = b /\ t[3] = c
        /\ Before(t, 1) = {} /\ Before(t, 2) = {a} /\ Before(t, 3) = {a, b}
    BY Short
  <2> HIDE DEF t
  <2>2. KeepsFrom(held, t)
    BY <2>1, <1>0, <1>3 DEF KeepsFrom
  <2> QED
    BY <2>2 DEF t
<1> QED
  BY <1>1, <1>2, <1>3

\* What goes with and without the invite goes behind the invite.
LEMMA GateFirst ==
  ASSUME NEW g, NEW s, Keeps(g), Has(g) \subseteq {"invite"}, Keeps(s), KeepsFrom({"invite"}, s)
  PROVE  Keeps(g \o s) /\ Has(g \o s) = Has(g) \cup Has(s)
<1>1. CASE Has(g) = {}
  <2>1. KeepsFrom(Has(g), s)
    BY <1>1 DEF Keeps
  <2> QED
    BY <2>1, KeepsAfter
<1>2. CASE Has(g) = {"invite"}
  <2>1. KeepsFrom(Has(g), s)
    BY <1>2
  <2> QED
    BY <2>1, KeepsAfter
<1> QED
  BY <1>1, <1>2

\* How they begin.
LEMMA Beginnings ==
  /\ Keeps(<<>>) /\ Keeps(Gate) /\ Keeps(<<"job">>) /\ Keeps(Fail)
  /\ KeepsFrom({"job"}, RepairLineage)
  /\ Keeps(Gate \o <<"job">>) /\ Has(Gate \o <<"job">>) = Has(Gate) \cup {"job"}
  /\ \A a \in Attempts :
       /\ Keeps(FencedRows(a)) /\ Keeps(Gate \o FencedRows(a))
       /\ Has(Gate \o FencedRows(a)) = Has(Gate) \cup {"job", a}
<1>0. /\ "invite" \in RowNames /\ "job" \in RowNames /\ "order" \in RowNames
      /\ "attempt1" \in RowNames /\ "reservation" \in RowNames
      /\ \A a \in Attempts : a \in RowNames
  BY DEF RowNames, Attempts
<1>1. Keeps(<<>>)
  <2> DEFINE t == <<>>
  <2>1. t \in Seq(RowNames) /\ Len(t) = 0
    BY Short
  <2> HIDE DEF t
  <2>2. Keeps(t)
    BY <2>1 DEF Keeps, KeepsFrom
  <2> QED
    BY <2>2 DEF t
<1>2. ASSUME NEW held, held = {} \/ held = {"invite"}
      PROVE  /\ KeepsFrom(held, <<"job">>)
             /\ \A a \in Attempts : KeepsFrom(held, FencedRows(a))
  <2>1. Proper(held, "job")
    BY <1>2 DEF Proper
  <2>2. ASSUME NEW a \in Attempts PROVE Proper(held \cup {"job"}, a)
    BY DEF Proper, JobRows, Attempts
  <2> QED
    BY <2>1, <2>2, <1>0, KeepsShort DEF FencedRows
<1>3. Keeps(<<"invite">>)
  BY <1>0, KeepsShort DEF Keeps, Proper
<1>4. Keeps(Gate)
  BY <1>1, <1>3 DEF Gate
<1>5. Keeps(<<"job">>) /\ \A a \in Attempts : Keeps(FencedRows(a))
  BY <1>2 DEF Keeps
<1>6. Has(Gate) \subseteq {"invite"}
  BY Parts
<1>8. /\ Keeps(Gate \o <<"job">>)
      /\ Has(Gate \o <<"job">>) = Has(Gate) \cup {"job"}
  <2> DEFINE j == <<"job">>
  <2>1. Keeps(j) /\ KeepsFrom({"invite"}, j) /\ Has(j) = {"job"}
    BY <1>0, <1>2, Short DEF Keeps
  <2> HIDE DEF j
  <2>2. Keeps(Gate \o j) /\ Has(Gate \o j) = Has(Gate) \cup Has(j)
    BY <1>4, <1>6, <2>1, GateFirst
  <2> QED
    BY <2>1, <2>2 DEF j
<1>9. ASSUME NEW a \in Attempts
      PROVE  /\ Keeps(Gate \o FencedRows(a))
             /\ Has(Gate \o FencedRows(a)) = Has(Gate) \cup {"job", a}
  <2>1. KeepsFrom({"invite"}, FencedRows(a)) /\ Has(FencedRows(a)) = {"job", a}
    BY <1>2, Parts
  <2> QED
    BY <1>4, <1>5, <1>6, <2>1, GateFirst
<1>10. KeepsFrom({"job"}, RepairLineage)
  <2>1. /\ Proper({"job"}, "order") /\ Proper({"job"} \cup {"order"}, "attempt1")
        /\ Proper({"job"} \cup {"order", "attempt1"}, "reservation")
    BY DEF Proper, JobRows
  <2> QED
    BY <2>1, <1>0, KeepsShort DEF RepairLineage
<1>11. Keeps(Fail)
  <2> DEFINE f == <<"job", "order">>
  <2>1. Proper({}, "job") /\ Proper({} \cup {"job"}, "order")
    BY DEF Proper, JobRows
  <2>2. Keeps(f)
    BY <2>1, <1>0, KeepsShort DEF Keeps
  <2>3. Has(f) = {"job", "order"}
    BY <1>0, Short
  <2> HIDE DEF f
  <2>4. Has(GiveBack) \subseteq JobRows
    BY Parts DEF JobRows
  <2>5. Keeps(f \o GiveBack)
    BY <2>2, <2>3, <2>4, GoesOn, Parts
  <2> QED
    BY <2>5 DEF Fail, f
<1> QED
  BY <1>1, <1>4, <1>5, <1>8, <1>9, <1>10, <1>11

\* A transaction that has the job and attempts, and one that has the order too.
Opened(r) ==
  /\ Keeps(r) /\ "job" \in Has(r)
  /\ Has(r) \subseteq {"job", "attempt1", "attempt2"} \cup Has(Gate)

Ordered(r) ==
  /\ Keeps(r) /\ {"job", "order"} \subseteq Has(r)
  /\ Has(r) \subseteq JobRows \cup Has(Gate)

\* How a transaction goes on that has the job, and perhaps attempts.
LEMMA OpenOn ==
  ASSUME NEW r, Opened(r), NEW s \in Seq(RowNames)
  PROVE  /\ Has(s) \subseteq {"job", "attempt1", "attempt2"} => Opened(r \o s)
         /\ Has(s) \subseteq {"job", "attempt1", "attempt2", "order"} /\ "order" \in Has(s)
              => Ordered(r \o s)
         /\ s = RepairLineage \/ s = Fail => Ordered(r \o s)
         /\ Ordered(s) /\ Has(Gate) \subseteq Has(r) => Ordered(r \o s)
         /\ Has(Gate) \subseteq Has(r) /\ Keeps(s)
              /\ Has(s) \subseteq {"job", "attempt1", "attempt2"} \cup Has(Gate)
              => Opened(r \o s)
<1>0. Keeps(r) /\ "job" \in Has(r) /\ {"job", "attempt1", "attempt2", "order"} \subseteq JobRows
  BY DEF Opened, JobRows
<1>1. ASSUME Has(s) \subseteq {"job", "attempt1", "attempt2"} PROVE Opened(r \o s)
  <2>1. Keeps(r \o s) /\ Has(r \o s) = Has(r) \cup Has(s)
    BY <1>0, <1>1, GoesOn
  <2> QED
    BY <1>1, <2>1 DEF Opened
<1>2. ASSUME Has(s) \subseteq {"job", "attempt1", "attempt2", "order"}, "order" \in Has(s)
      PROVE  Ordered(r \o s)
  <2>1. Keeps(r \o s) /\ Has(r \o s) = Has(r) \cup Has(s)
    BY <1>0, <1>2, GoesOn
  <2> QED
    BY <1>0, <1>2, <2>1 DEF Opened, Ordered
<1>3. ASSUME s = RepairLineage \/ s = Fail PROVE Ordered(r \o s)
  <2>1. /\ "order" \in Has(s) /\ Has(s) \subseteq JobRows
        /\ (KeepsFrom({"job"}, s) /\ "invite" \notin Has(s)) \/ (Keeps(s) /\ "invite" \notin Has(s))
    BY <1>3, Parts, Beginnings DEF JobRows
  <2>2. Keeps(r \o s) /\ Has(r \o s) = Has(r) \cup Has(s)
    BY <1>0, <2>1, GoesOn
  <2> QED
    BY <1>0, <2>1, <2>2 DEF Opened, Ordered
<1>4. ASSUME Ordered(s), Has(Gate) \subseteq Has(r) PROVE Ordered(r \o s)
  <2>1. Keeps(s) /\ ("invite" \in Has(s) => "invite" \in Has(r))
    BY <1>4 DEF Ordered, JobRows
  <2>2. Keeps(r \o s) /\ Has(r \o s) = Has(r) \cup Has(s)
    BY <1>0, <2>1, GoesOn
  <2> QED
    BY <1>0, <1>4, <2>2 DEF Opened, Ordered
<1>5. ASSUME Has(Gate) \subseteq Has(r), Keeps(s),
             Has(s) \subseteq {"job", "attempt1", "attempt2"} \cup Has(Gate)
      PROVE  Opened(r \o s)
  <2>1. "invite" \in Has(s) => "invite" \in Has(r)
    BY <1>5
  <2>2. Keeps(r \o s) /\ Has(r \o s) = Has(r) \cup Has(s)
    BY <1>0, <1>5, <2>1, GoesOn
  <2> QED
    BY <1>0, <1>5, <2>2 DEF Opened
<1> QED
  BY <1>1, <1>2, <1>3, <1>4, <1>5

\* Behind job and order, all rows of the job may come in any order.
LEMMA OrderOn ==
  ASSUME NEW r, Ordered(r), NEW s \in Seq(RowNames), Has(s) \subseteq JobRows
  PROVE  Ordered(r \o s)
<1>1. Keeps(r) /\ "job" \in Has(r) /\ "order" \in Has(r)
  BY DEF Ordered
<1>2. Keeps(r \o s) /\ Has(r \o s) = Has(r) \cup Has(s)
  BY <1>1, GoesOn
<1> QED
  BY <1>1, <1>2 DEF Ordered

\* The rows that are written down one by one.
LEMMA Literals ==
  /\ <<"job">> \in Seq(RowNames) /\ Has(<<"job">>) = {"job"}
  /\ <<"order">> \in Seq(RowNames) /\ Has(<<"order">>) = {"order"}
  /\ <<"candidate">> \in Seq(RowNames) /\ Has(<<"candidate">>) = {"candidate"}
  /\ <<"source">> \in Seq(RowNames) /\ Has(<<"source">>) = {"source"}
  /\ <<"result">> \in Seq(RowNames) /\ Has(<<"result">>) = {"result"}
  /\ <<"reservation">> \in Seq(RowNames) /\ Has(<<"reservation">>) = {"reservation"}
  /\ <<"source", "candidate">> \in Seq(RowNames)
  /\ Has(<<"source", "candidate">>) = {"source", "candidate"}
  /\ <<"attempt2", "order">> \in Seq(RowNames)
  /\ Has(<<"attempt2", "order">>) = {"attempt2", "order"}
  /\ <<"result", "entitlement", "job">> \in Seq(RowNames)
  /\ Has(<<"result", "entitlement", "job">>) = {"result", "entitlement", "job"}
<1>1. /\ "job" \in RowNames /\ "order" \in RowNames /\ "candidate" \in RowNames
      /\ "source" \in RowNames /\ "result" \in RowNames /\ "entitlement" \in RowNames
      /\ "reservation" \in RowNames /\ "attempt2" \in RowNames
  BY DEF RowNames
<1>2. <<"job">> \in Seq(RowNames) /\ Has(<<"job">>) = {"job"}
  BY <1>1, Short
<1>3. <<"order">> \in Seq(RowNames) /\ Has(<<"order">>) = {"order"}
  BY <1>1, Short
<1>4. <<"candidate">> \in Seq(RowNames) /\ Has(<<"candidate">>) = {"candidate"}
  BY <1>1, Short
<1>5. <<"source">> \in Seq(RowNames) /\ Has(<<"source">>) = {"source"}
  BY <1>1, Short
<1>6. <<"result">> \in Seq(RowNames) /\ Has(<<"result">>) = {"result"}
  BY <1>1, Short
<1>7. <<"reservation">> \in Seq(RowNames) /\ Has(<<"reservation">>) = {"reservation"}
  BY <1>1, Short
<1>8. /\ <<"source", "candidate">> \in Seq(RowNames)
      /\ Has(<<"source", "candidate">>) = {"source", "candidate"}
  BY <1>1, Short
<1>9. /\ <<"attempt2", "order">> \in Seq(RowNames)
      /\ Has(<<"attempt2", "order">>) = {"attempt2", "order"}
  BY <1>1, Short
<1>10. /\ <<"result", "entitlement", "job">> \in Seq(RowNames)
       /\ Has(<<"result", "entitlement", "job">>) = {"result", "entitlement", "job"}
  BY <1>1, Short
<1> QED
  BY <1>2, <1>3, <1>4, <1>5, <1>6, <1>7, <1>8, <1>9, <1>10

\* How the transactions of a job open.
LEMMA Openings ==
  /\ Opened(<<"job">>)
  /\ Opened(Gate \o <<"job">>) /\ Has(Gate) \subseteq Has(Gate \o <<"job">>)
  /\ \A a \in Attempts :
       /\ Opened(FencedRows(a))
       /\ Opened(Gate \o FencedRows(a))
       /\ Has(Gate) \subseteq Has(Gate \o FencedRows(a))
BY Beginnings, Parts, Literals DEF Opened, Attempts

\* The context of candidate, strict QA and delivery.
LEMMA ContextKeeps == \A a \in Attempts : Ordered(Context(a))
<1> SUFFICES ASSUME NEW a \in Attempts PROVE Ordered(Context(a))
  OBVIOUS
<1> DEFINE o == <<"order">>
           x == IF a = "attempt2" THEN RepairLineage ELSE <<>>
           k == <<"candidate">>
           r1 == Gate \o FencedRows(a)
           r2 == r1 \o o
           r3 == r2 \o x
<1>0. {"order", "attempt1", "reservation", "candidate"} \subseteq JobRows
  BY DEF JobRows
<1>1. /\ o \in Seq(RowNames) /\ Has(o) = {"order"}
      /\ k \in Seq(RowNames) /\ Has(k) = {"candidate"}
      /\ x \in Seq(RowNames) /\ Has(x) \subseteq {"order", "attempt1", "reservation"}
  BY Literals, Parts, Short
<1> HIDE DEF o, k, x
<1>2. Opened(r1)
  BY Openings
<1> HIDE DEF r1
<1>3. Ordered(r2)
  BY <1>1, <1>2, OpenOn
<1> HIDE DEF r2
<1>4. Ordered(r3)
  BY <1>0, <1>1, <1>3, OrderOn
<1> HIDE DEF r3
<1>5. Ordered(r3 \o k)
  BY <1>0, <1>1, <1>4, OrderOn
<1> QED
  BY <1>5 DEF Context, r3, r2, r1, o, x, k

\* Submission and its rejection; a repair of a partner's order has the job before the invite.
LEMMA SubmissionsKeep ==
  /\ Keeps(SubmitInitial)
  /\ ~partner => Keeps(SubmitRepair)
  /\ \A a \in Attempts : Keeps(FencedRows(a) \o Fail)
<1>0. /\ "attempt1" \in Attempts /\ "attempt2" \in Attempts
      /\ {"job", "attempt1", "attempt2", "order", "reservation", "account", "lot1", "lot2",
          "source", "candidate"} \subseteq JobRows
  BY DEF Attempts, JobRows
<1>1. Keeps(SubmitInitial)
  <2> DEFINE r1 == Gate \o FencedRows("attempt1")
             o == <<"order">>
             r2 == r1 \o o
             r3 == r2 \o GiveBack
             r4 == r3 \o Lots
             s == <<"source">>
  <2>1. /\ o \in Seq(RowNames) /\ Has(o) = {"order"}
        /\ s \in Seq(RowNames) /\ Has(s) = {"source"}
    BY Literals
  <2> HIDE DEF o, s
  <2>2. Opened(r1)
    BY <1>0, Openings
  <2> HIDE DEF r1
  <2>3. Ordered(r2)
    BY <2>1, <2>2, OpenOn
  <2> HIDE DEF r2
  <2>4. Ordered(r3)
    BY <1>0, <2>3, Parts, OrderOn
  <2> HIDE DEF r3
  <2>5. Ordered(r4)
    BY <1>0, <2>4, Parts, OrderOn
  <2> HIDE DEF r4
  <2>6. Ordered(r4 \o s)
    BY <1>0, <2>1, <2>5, OrderOn
  <2> QED
    BY <2>6 DEF SubmitInitial, Ordered, r4, r3, r2, r1, o, s
<1>2. ASSUME ~partner PROVE Keeps(SubmitRepair)
  <2> DEFINE r1 == FencedRows("attempt2") \o Gate
             o == <<"order">>
             r2 == r1 \o o
             r3 == r2 \o RepairLineage
             s == <<"source", "candidate">>
  <2>1. /\ o \in Seq(RowNames) /\ Has(o) = {"order"}
        /\ s \in Seq(RowNames) /\ Has(s) = {"source", "candidate"}
    BY Literals
  <2> HIDE DEF o, s
  <2>2. Opened(FencedRows("attempt2")) /\ Has(Gate) = {}
    BY <1>0, <1>2, Openings, Parts
  <2>3. Opened(r1)
    BY <2>2, Parts, OpenOn
  <2> HIDE DEF r1
  <2>4. Ordered(r2)
    BY <2>1, <2>3, OpenOn
  <2> HIDE DEF r2
  <2>5. Ordered(r3)
    BY <1>0, <2>4, Parts, OrderOn
  <2> HIDE DEF r3
  <2>6. Ordered(r3 \o s)
    BY <1>0, <2>1, <2>5, OrderOn
  <2> QED
    BY <2>6 DEF SubmitRepair, Ordered, r3, r2, r1, o, s
<1>3. ASSUME NEW a \in Attempts PROVE Keeps(FencedRows(a) \o Fail)
  <2>1. Opened(FencedRows(a))
    BY Openings
  <2>2. Ordered(FencedRows(a) \o Fail)
    BY <2>1, Parts, OpenOn
  <2> QED
    BY <2>2 DEF Ordered
<1> QED
  BY <1>1, <1>2, <1>3

\* Accounting, where it locks the order or the lineage of a repair before the reservation.
LEMMA AccountingKeeps ==
  /\ Keeps(FencedRows("attempt1") \o <<"order">> \o Capture)
  /\ Keeps(FencedRows("attempt2") \o RepairLineage)
<1>0. /\ "attempt1" \in Attempts /\ "attempt2" \in Attempts
      /\ Has(Capture) \subseteq JobRows
  BY Parts DEF Attempts, JobRows
<1> DEFINE o == <<"order">>
           r1 == FencedRows("attempt1") \o o
<1>1. o \in Seq(RowNames) /\ Has(o) = {"order"}
  BY Literals
<1> HIDE DEF o
<1>2. Opened(FencedRows("attempt1")) /\ Opened(FencedRows("attempt2"))
  BY <1>0, Openings
<1>3. Ordered(r1)
  BY <1>1, <1>2, OpenOn
<1> HIDE DEF r1
<1>4. Ordered(r1 \o Capture)
  BY <1>0, <1>3, Parts, OrderOn
<1>5. Ordered(FencedRows("attempt2") \o RepairLineage)
  BY <1>2, Parts, OpenOn
<1> QED
  BY <1>4, <1>5 DEF Ordered, r1, o

\* Reconciliation, whose gate is nothing unless the order is a partner's.
LEMMA ReconciliationKeeps ==
  ASSUME ~partner, NEW a \in Attempts, NEW rows \in Reconcile(a)
  PROVE  Keeps(rows)
<1> DEFINE A == {<<>>, FencedRows(a)}
           B == {NothingToSettle, NothingToSettle \o Fail,
                 NothingToSettle \o Context(a)}
                \cup (IF partner THEN {SettleCase(a)} ELSE {})
<1>0. Reconcile(a) = {start \o rest : start \in A, rest \in B}
  BY DEF Reconcile
<1> HIDE DEF A, B
<1>1. PICK start \in A, rest \in B : rows = start \o rest
  BY <1>0
<1>2. Has(Gate) = {} /\ Keeps(Gate) /\ Gate \in Seq(RowNames)
  BY Parts, Beginnings
<1>3. ASSUME NEW s, Keeps(s) PROVE Keeps(Gate \o s) /\ Has(Gate \o s) = Has(s)
  <2>1. KeepsFrom(Has(Gate), s)
    BY <1>2, <1>3 DEF Keeps
  <2>2. Keeps(Gate \o s) /\ Has(Gate \o s) = Has(Gate) \cup Has(s)
    BY <1>2, <2>1, KeepsAfter
  <2> QED
    BY <1>2, <2>2
<1>4. /\ Keeps(Fail) /\ "invite" \notin Has(Fail)
      /\ Keeps(Context(a)) /\ "invite" \notin Has(Context(a))
  <2>1. Ordered(Context(a))
    BY ContextKeeps
  <2> QED
    BY <2>1, <1>2, Beginnings, Parts DEF Ordered, JobRows
<1>5. Keeps(rest) /\ "invite" \notin Has(rest)
  BY <1>1, <1>2, <1>3, <1>4 DEF B, NothingToSettle
<1>6. CASE start = <<>>
  <2> DEFINE e == <<>>
  <2>1. Keeps(e) /\ Has(e) = {}
    BY Beginnings, Short
  <2>2. start = e
    BY <1>6
  <2> HIDE DEF e
  <2>3. KeepsFrom(Has(e), rest)
    BY <1>5, <2>1 DEF Keeps
  <2> QED
    BY <1>1, <2>1, <2>2, <2>3, KeepsAfter
<1>7. CASE start = FencedRows(a)
  <2>1. Keeps(start) /\ "job" \in Has(start)
    BY <1>7, Openings DEF Opened
  <2>2. rest \in Seq(RowNames)
    BY <1>5, KeepsIsRows
  <2>3. Keeps(start \o rest)
    BY <1>5, <2>1, <2>2, GoesOn
  <2> QED
    BY <1>1, <2>3
<1> QED
  BY <1>1, <1>6, <1>7 DEF A

\* Strict QA, with the job before the gate or behind it.
LEMMA JudgementsKeep ==
  ASSUME ~partner, NEW a \in Attempts, NEW rows \in Judge(a)
  PROVE  Keeps(rows)
<1> DEFINE A == {<<>>, FencedRows(a)}
           j == <<"job">>
           s == <<"source">>
<1>0. Judge(a) = {start \o NothingToSettle \o j \o Context(a) \o s : start \in A}
  BY DEF Judge
<1>1. /\ j \in Seq(RowNames) /\ Has(j) = {"job"} /\ Opened(j)
      /\ s \in Seq(RowNames) /\ Has(s) = {"source"} /\ {"source"} \subseteq JobRows
  BY Literals, Openings DEF JobRows
<1>2. Has(Gate) = {} /\ Keeps(Gate) /\ Gate \in Seq(RowNames)
        /\ NothingToSettle = Gate
  BY Parts, Beginnings DEF NothingToSettle
<1>3. Ordered(Context(a)) /\ Context(a) \in Seq(RowNames)
  BY ContextKeeps, KeepsIsRows DEF Ordered
<1>4. Opened(FencedRows(a))
  BY Openings
<1>5. Keeps(<<>>) /\ Has(<<>>) = {}
  BY Beginnings, Short
<1> DEFINE e == <<>>
<1>6. Keeps(e) /\ Has(e) = {}
  BY <1>5
<1>7. Keeps(j)
  BY <1>1 DEF Opened
<1> HIDE DEF j, s, e
<1>8. PICK start \in A : rows = start \o NothingToSettle \o j \o Context(a) \o s
  BY <1>0
<1> DEFINE r1 == start \o Gate
           r2 == r1 \o j
           r3 == r2 \o Context(a)
<1>9. Opened(r2)
  <2>1. CASE start = FencedRows(a)
    <3>1. Opened(r1)
      BY <2>1, <1>2, <1>4, OpenOn
    <3> HIDE DEF r1
    <3> QED
      BY <3>1, <1>1, OpenOn
  <2>2. CASE start = e
    <3>1. KeepsFrom(Has(e), Gate)
      BY <1>2, <1>6 DEF Keeps
    <3>2. Keeps(r1) /\ Has(r1) = {}
      <4>1. Keeps(e \o Gate) /\ Has(e \o Gate) = Has(e) \cup Has(Gate)
        BY <3>1, <1>6, KeepsAfter
      <4>2. Has(e) \cup Has(Gate) = {}
        BY <1>2, <1>6
      <4> QED
        BY <4>1, <4>2, <2>2
    <3> HIDE DEF r1
    <3>3. KeepsFrom(Has(r1), j)
      BY <3>2, <1>7 DEF Keeps
    <3>4. Keeps(r2) /\ Has(r2) = Has(r1) \cup Has(j)
      BY <3>2, <3>3, KeepsAfter
    <3> QED
      BY <3>2, <3>4, <1>1 DEF Opened
  <2> QED
    BY <2>1, <2>2 DEF A, e
<1> HIDE DEF r1, r2
<1>10. Ordered(r3)
  BY <1>2, <1>3, <1>9, OpenOn
<1> HIDE DEF r3
<1>11. Ordered(r3 \o s)
  BY <1>1, <1>10, OrderOn
<1> QED
  BY <1>2, <1>8, <1>11 DEF Ordered, r3, r2, r1

\* The decision on the next action; the gate comes first, for a partner's order too.
LEMMA DispositionsKeep == \A rows \in Dispose : Keeps(rows)
<1> SUFFICES ASSUME NEW rows \in Dispose PROVE Keeps(rows)
  OBVIOUS
<1> DEFINE j == <<"job">>
           w == <<"attempt2", "order">>
           B == {w, RepairLineage, Fail} \cup {Context(a) : a \in Attempts}
           r == Gate \o j
<1>0. Dispose = {Gate \o j \o rest : rest \in B}
  BY DEF Dispose, NothingToSettle
<1>1. w \in Seq(RowNames) /\ Has(w) = {"attempt2", "order"}
  BY Literals
<1>2. Opened(r) /\ Has(Gate) \subseteq Has(r)
  BY Openings
<1> HIDE DEF j, w, r
<1>3. PICK rest \in B : rows = r \o rest
  BY <1>0 DEF r
<1>4. CASE rest = w
  <2>1. Ordered(r \o rest)
    BY <1>1, <1>2, <1>4, OpenOn
  <2> QED
    BY <2>1, <1>3 DEF Ordered
<1>5. CASE rest = RepairLineage \/ rest = Fail
  <2>1. rest \in Seq(RowNames)
    BY <1>5, Parts
  <2>2. Ordered(r \o rest)
    BY <2>1, <1>2, <1>5, OpenOn
  <2> QED
    BY <2>2, <1>3 DEF Ordered
<1>6. ASSUME NEW a \in Attempts, rest = Context(a) PROVE Keeps(rows)
  <2>1. Ordered(rest) /\ rest \in Seq(RowNames)
    BY <1>6, ContextKeeps, KeepsIsRows DEF Ordered
  <2>2. Ordered(r \o rest)
    BY <2>1, <1>2, OpenOn
  <2> QED
    BY <2>2, <1>3 DEF Ordered
<1> QED
  BY <1>3, <1>4, <1>5, <1>6

\* Delivery, and its clean-up out of retries.
LEMMA DeliveriesKeep ==
  ASSUME NEW a \in Attempts
  PROVE  Keeps(Deliver(a)) /\ (~partner => Keeps(CleanUp(a)))
<1>0. /\ {"reservation", "lot1", "lot2", "result", "entitlement", "job"} \subseteq JobRows
      /\ Has(Fail) \subseteq JobRows
  BY Parts DEF JobRows
<1>1. Ordered(Context(a)) /\ Context(a) \in Seq(RowNames)
  BY ContextKeeps, KeepsIsRows DEF Ordered
<1>2. Keeps(Deliver(a))
  <2> DEFINE v == <<"reservation">>
             w == <<"result", "entitlement", "job">>
             r1 == Context(a) \o v
             r2 == r1 \o Lots
  <2>1. /\ v \in Seq(RowNames) /\ Has(v) = {"reservation"}
        /\ w \in Seq(RowNames) /\ Has(w) = {"result", "entitlement", "job"}
    BY Literals
  <2> HIDE DEF v, w
  <2>2. Ordered(r1)
    BY <1>0, <1>1, <2>1, OrderOn
  <2> HIDE DEF r1
  <2>3. Ordered(r2)
    BY <1>0, <2>2, Parts, OrderOn
  <2> HIDE DEF r2
  <2>4. Ordered(r2 \o w)
    BY <1>0, <2>1, <2>3, OrderOn
  <2> QED
    BY <2>4 DEF Deliver, Ordered, r2, r1, v, w
<1>3. ASSUME ~partner PROVE Keeps(CleanUp(a))
  <2> DEFINE j == <<"job">>
             w == <<"result">>
             r1 == j \o Context(a)
             r2 == r1 \o w
  <2>1. /\ Opened(j) /\ Has(Gate) \subseteq Has(j)
        /\ w \in Seq(RowNames) /\ Has(w) = {"result"}
    BY <1>3, Literals, Openings, Parts
  <2> HIDE DEF j, w
  <2>2. Ordered(r1)
    BY <1>1, <2>1, OpenOn
  <2> HIDE DEF r1
  <2>3. Ordered(r2)
    BY <1>0, <2>1, <2>2, OrderOn
  <2> HIDE DEF r2
  <2>4. Ordered(r2 \o Fail)
    BY <1>0, <2>3, Parts, OrderOn
  <2> QED
    BY <2>4 DEF CleanUp, Ordered, r2, r1, j, w
<1> QED
  BY <1>2, <1>3

\* The operator's manual settlement.
LEMMA ResolutionsKeep ==
  ASSUME NEW a \in Attempts, NEW rows \in Resolve(a)
  PROVE  Keeps(rows)
<1> DEFINE e == <<>>
           o == <<"order">>
           t == Capture \o GiveBack
           B == {e, GiveBack, t}
           r == FencedRows(a) \o o
<1>0. Resolve(a) = {FencedRows(a) \o o \o rest : rest \in B}
  BY DEF Resolve
<1>1. /\ e \in Seq(RowNames) /\ Has(e) = {}
      /\ o \in Seq(RowNames) /\ Has(o) = {"order"}
  BY Literals, Short
<1>2. t \in Seq(RowNames) /\ Has(t) = Has(Capture) \cup Has(GiveBack)
  BY Parts, Concatenation
<1> HIDE DEF e, o, t
<1>3. Ordered(r)
  BY <1>1, Openings, OpenOn
<1> HIDE DEF r
<1>4. PICK rest \in B : rows = r \o rest
  BY <1>0 DEF r
<1>5. rest \in Seq(RowNames) /\ Has(rest) \subseteq JobRows
  BY <1>1, <1>2, Parts DEF JobRows
<1>6. Ordered(r \o rest)
  BY <1>3, <1>5, OrderOn
<1> QED
  BY <1>4, <1>6 DEF Ordered

-----------------------------------------------------------------------------
(* What every call locks                                                    *)

\* A transaction of Download, of accounting that starts with the capture, and of a
\* confirmed deletion: none has the job, and then the order.
Deletions == {<<p>> \o rest : p \in Pictures, rest \in {<<>>, <<"case">>}}

Known(rows) ==
  \/ Keeps(rows)
  \/ rows = Capture
  \/ rows = Download
  \/ rows \in Deletions

\* Two tuples, one after the other.
LEMMA Joined ==
  ASSUME NEW r \in Seq(RowNames), NEW s \in Seq(RowNames), NEW t,
         t = r \o s
  PROVE  t \in Seq(RowNames)
OBVIOUS

\* A confirmed deletion locks its picture, and then perhaps the case.
LEMMA ConfirmationsKnown ==
  \A rows \in ConfirmDeletions : rows \in Deletions /\ rows \in Seq(RowNames)
<1> DEFINE e == <<>>
           k == <<"case">>
           f(p) == <<p>>
<1>0. "case" \in RowNames /\ \A p \in Pictures : p \in RowNames
  BY DEF RowNames, Pictures
<1>1. /\ e \in Seq(RowNames) /\ k \in Seq(RowNames)
      /\ \A p \in Pictures : f(p) \in Seq(RowNames)
  BY <1>0, Short
<1> DEFINE R == IF partner THEN {e, k} ELSE {e}
           D == {e, k}
<1>2. ConfirmDeletions = {f(p) \o rest : p \in Pictures, rest \in R}
  BY DEF ConfirmDeletions
<1>3. Deletions = {f(p) \o rest : p \in Pictures, rest \in D}
  BY DEF Deletions
<1>8. R \subseteq D /\ D \subseteq Seq(RowNames)
  BY <1>1
<1> HIDE DEF e, k, f, R, D
<1> SUFFICES ASSUME NEW rows \in ConfirmDeletions
             PROVE  rows \in Deletions /\ rows \in Seq(RowNames)
  OBVIOUS
<1>4. PICK p \in Pictures, rest \in R : rows = f(p) \o rest
  BY <1>2
<1>5. rows \in Deletions
  BY <1>3, <1>4, <1>8
<1>7. rows \in Seq(RowNames)
  BY <1>1, <1>4, <1>8, Joined
<1> QED
  BY <1>5, <1>7

\* The rows of a download and of a capture, one by one.
LEMMA DownloadIs ==
  /\ Download \in Seq(RowNames) /\ Len(Download) = 7
  /\ Download[1] = "order" /\ Download[2] = "result"
  /\ Download[3] = "reservation" /\ Download[4] = "lot1" /\ Download[5] = "lot2"
  /\ Download[6] = "entitlement" /\ Download[7] = "unlockLot"
<1> DEFINE a == <<"order", "result">>
           b == <<"reservation">>
           c == <<"lot1", "lot2">>
           d == <<"entitlement", "unlockLot">>
           bc == b \o c
           bcd == bc \o d
<1>0. /\ "order" \in RowNames /\ "result" \in RowNames /\ "reservation" \in RowNames
      /\ "lot1" \in RowNames /\ "lot2" \in RowNames
      /\ "entitlement" \in RowNames /\ "unlockLot" \in RowNames
  BY DEF RowNames
<1>1. /\ a \in Seq(RowNames) /\ Len(a) = 2 /\ a[1] = "order" /\ a[2] = "result"
      /\ b \in Seq(RowNames) /\ Len(b) = 1 /\ b[1] = "reservation"
      /\ c \in Seq(RowNames) /\ Len(c) = 2 /\ c[1] = "lot1" /\ c[2] = "lot2"
      /\ d \in Seq(RowNames) /\ Len(d) = 2 /\ d[1] = "entitlement" /\ d[2] = "unlockLot"
  BY <1>0
<1> HIDE DEF a, b, c, d
<1>2. /\ bc \in Seq(RowNames) /\ Len(bc) = 3
      /\ bc[1] = "reservation" /\ bc[2] = "lot1" /\ bc[3] = "lot2"
  <2>1. /\ Len(bc) = Len(b) + Len(c) /\ bc \in Seq(RowNames)
        /\ \A i \in 1..Len(b) : bc[i] = b[i]
        /\ \A i \in 1..Len(c) : bc[Len(b) + i] = c[i]
    BY <1>1, Concatenation
  <2> HIDE DEF bc
  <2>2. bc[1] = b[1] /\ bc[1 + 1] = c[1] /\ bc[1 + 2] = c[2]
    BY <1>1, <2>1
  <2> QED
    BY <1>1, <2>1, <2>2
<1> HIDE DEF bc
<1>3. /\ bcd \in Seq(RowNames) /\ Len(bcd) = 5
      /\ bcd[1] = "reservation" /\ bcd[2] = "lot1" /\ bcd[3] = "lot2"
      /\ bcd[4] = "entitlement" /\ bcd[5] = "unlockLot"
  <2>1. /\ Len(bcd) = Len(bc) + Len(d) /\ bcd \in Seq(RowNames)
        /\ \A i \in 1..Len(bc) : bcd[i] = bc[i]
        /\ \A i \in 1..Len(d) : bcd[Len(bc) + i] = d[i]
    BY <1>1, <1>2, Concatenation
  <2> HIDE DEF bcd
  <2>2. bcd[1] = bc[1] /\ bcd[2] = bc[2] /\ bcd[3] = bc[3] /\ bcd[3 + 1] = d[1] /\ bcd[3 + 2] = d[2]
    BY <1>1, <1>2, <2>1
  <2> QED
    BY <1>1, <1>2, <2>1, <2>2
<1> HIDE DEF bcd
<1> DEFINE t == a \o bcd
<1>4. /\ t \in Seq(RowNames) /\ Len(t) = 7 /\ t[1] = "order" /\ t[2] = "result"
      /\ t[3] = "reservation" /\ t[4] = "lot1" /\ t[5] = "lot2"
      /\ t[6] = "entitlement" /\ t[7] = "unlockLot"
  <2>0. a \in Seq(RowNames) /\ bcd \in Seq(RowNames)
    BY <1>1, <1>3
  <2>1. /\ Len(t) = Len(a) + Len(bcd) /\ t \in Seq(RowNames)
        /\ \A i \in 1..Len(a) : t[i] = a[i]
        /\ \A i \in 1..Len(bcd) : t[Len(a) + i] = bcd[i]
    BY <2>0, Concatenation
  <2> HIDE DEF t
  <2>2. /\ t[1] = a[1] /\ t[2] = a[2] /\ t[2 + 1] = bcd[1] /\ t[2 + 2] = bcd[2]
        /\ t[2 + 3] = bcd[3] /\ t[2 + 4] = bcd[4] /\ t[2 + 5] = bcd[5]
    BY <1>1, <1>3, <2>1
  <2> QED
    BY <1>1, <1>3, <2>1, <2>2
<1>5. Download = t
  BY DEF Download, Funding, Lots, a, b, c, d, bc, bcd
<1> HIDE DEF t
<1> QED
  BY <1>4, <1>5

\* See DownloadIs.
LEMMA CaptureIs ==
  /\ Capture \in Seq(RowNames) /\ Len(Capture) = 6
  /\ Capture[1] = "job" /\ Capture[2] = "attempt1"
  /\ Capture[3] = "reservation" /\ Capture[4] = "account"
  /\ Capture[5] = "lot1" /\ Capture[6] = "lot2"
<1> DEFINE a == <<"job", "attempt1">>
           b == <<"reservation", "account">>
           c == <<"lot1", "lot2">>
           ab == a \o b
           t == ab \o c
<1>0. /\ "job" \in RowNames /\ "attempt1" \in RowNames /\ "reservation" \in RowNames
      /\ "lot1" \in RowNames /\ "lot2" \in RowNames
      /\ "account" \in RowNames
  BY DEF RowNames
<1>1. /\ a \in Seq(RowNames) /\ Len(a) = 2 /\ a[1] = "job" /\ a[2] = "attempt1"
      /\ b \in Seq(RowNames) /\ Len(b) = 2 /\ b[1] = "reservation" /\ b[2] = "account"
      /\ c \in Seq(RowNames) /\ Len(c) = 2 /\ c[1] = "lot1" /\ c[2] = "lot2"
  BY <1>0
<1>2. Capture = t
  BY DEF Capture, FencedRows, Lots
<1> HIDE DEF a, b, c
<1>3. /\ ab \in Seq(RowNames) /\ Len(ab) = 4
      /\ ab[1] = "job" /\ ab[2] = "attempt1" /\ ab[3] = "reservation" /\ ab[4] = "account"
  <2>1. /\ Len(ab) = Len(a) + Len(b) /\ ab \in Seq(RowNames)
        /\ \A i \in 1..Len(a) : ab[i] = a[i]
        /\ \A i \in 1..Len(b) : ab[Len(a) + i] = b[i]
    BY <1>1, Concatenation
  <2> HIDE DEF ab
  <2>2. ab[1] = a[1] /\ ab[2] = a[2] /\ ab[2 + 1] = b[1] /\ ab[2 + 2] = b[2]
    BY <1>1, <2>1
  <2> QED
    BY <1>1, <2>1, <2>2
<1> HIDE DEF ab
<1>4. /\ t \in Seq(RowNames) /\ Len(t) = 6 /\ t[1] = "job" /\ t[2] = "attempt1"
      /\ t[3] = "reservation" /\ t[4] = "account" /\ t[5] = "lot1" /\ t[6] = "lot2"
  <2>1. /\ Len(t) = Len(ab) + Len(c) /\ t \in Seq(RowNames)
        /\ \A i \in 1..Len(ab) : t[i] = ab[i]
        /\ \A i \in 1..Len(c) : t[Len(ab) + i] = c[i]
    BY <1>1, <1>3, Concatenation
  <2> HIDE DEF t
  <2>2. /\ t[1] = ab[1] /\ t[2] = ab[2] /\ t[3] = ab[3] /\ t[4] = ab[4]
        /\ t[4 + 1] = c[1] /\ t[4 + 2] = c[2]
    BY <1>1, <1>3, <2>1
  <2> QED
    BY <1>1, <1>3, <2>1, <2>2
<1> HIDE DEF t
<1> QED
  BY <1>2, <1>4

\* All four kinds are sequences of rows.
LEMMA KnownIsRows == \A rows : Known(rows) => rows \in Seq(RowNames)
<1> DEFINE e == <<>>
           k == <<"case">>
           f(p) == <<p>>
           D == {e, k}
<1>0. "case" \in RowNames /\ \A p \in Pictures : p \in RowNames
  BY DEF RowNames, Pictures
<1>1. D \subseteq Seq(RowNames) /\ \A p \in Pictures : f(p) \in Seq(RowNames)
  BY <1>0, Short
<1>2. Deletions = {f(p) \o rest : p \in Pictures, rest \in D}
  BY DEF Deletions
<1> HIDE DEF f, D
<1>3. ASSUME NEW rows \in Deletions PROVE rows \in Seq(RowNames)
  <2>1. PICK p \in Pictures, rest \in D : rows = f(p) \o rest
    BY <1>2
  <2> QED
    BY <2>1, <1>1, Joined
<1> QED
  BY <1>3, KeepsIsRows, DownloadIs, CaptureIs DEF Known

\* The transactions that leave the order lock rows too.
LEMMA OthersAreRows ==
  /\ SubmitRepair \in Seq(RowNames)
  /\ \A a \in Attempts :
       /\ SettleCase(a) \in Seq(RowNames)
       /\ CleanUp(a) \in Seq(RowNames)
  /\ Withdraw \in Seq(RowNames)
  /\ Unlock \in Seq(RowNames)
<1>0. /\ "case" \in RowNames /\ "job" \in RowNames /\ "order" \in RowNames
      /\ "invite" \in RowNames /\ "attempt1" \in RowNames
      /\ "attempt2" \in RowNames /\ "source" \in RowNames
      /\ "candidate" \in RowNames /\ "result" \in RowNames
      /\ "entitlement" \in RowNames
      /\ \A a \in Attempts : a \in RowNames
      /\ "attempt2" \in Attempts
  BY DEF RowNames, Attempts
<1>1. ASSUME NEW a \in Attempts PROVE Context(a) \in Seq(RowNames)
  BY <1>1, ContextKeeps, KeepsIsRows DEF Ordered
<1>2. SubmitRepair \in Seq(RowNames)
  <2> DEFINE r1 == FencedRows("attempt2") \o Gate
             o == <<"order">>
             r2 == r1 \o o
             r3 == r2 \o RepairLineage
             s == <<"source", "candidate">>
  <2>1. o \in Seq(RowNames) /\ s \in Seq(RowNames)
    BY Literals
  <2> HIDE DEF o, s
  <2>2. r1 \in Seq(RowNames)
    BY <1>0, Parts
  <2> HIDE DEF r1
  <2>3. r2 \in Seq(RowNames)
    BY <2>1, <2>2
  <2> HIDE DEF r2
  <2>4. r3 \in Seq(RowNames)
    BY <2>3, Parts
  <2> HIDE DEF r3
  <2>5. r3 \o s \in Seq(RowNames)
    BY <2>1, <2>4
  <2> QED
    BY <2>5 DEF SubmitRepair, r3, r2, r1, o, s
<1>3. ASSUME NEW a \in Attempts PROVE SettleCase(a) \in Seq(RowNames)
  <2> DEFINE k == <<"case", "order", "job", a>>
             r == Gate \o k
  <2>1. k \in Seq(RowNames)
    BY <1>0
  <2> HIDE DEF k
  <2>2. r \in Seq(RowNames)
    BY <2>1, Parts
  <2> HIDE DEF r
  <2>3. r \o GiveBack \in Seq(RowNames)
    BY <2>2, Parts
  <2> QED
    BY <2>3 DEF SettleCase, r, k
<1>4. ASSUME NEW a \in Attempts PROVE CleanUp(a) \in Seq(RowNames)
  <2> DEFINE j == <<"job">>
             w == <<"result">>
             r1 == j \o Context(a)
             r2 == r1 \o w
  <2>1. j \in Seq(RowNames) /\ w \in Seq(RowNames)
    BY Literals
  <2> HIDE DEF j, w
  <2>2. r1 \in Seq(RowNames)
    BY <1>1, <2>1
  <2> HIDE DEF r1
  <2>3. r2 \in Seq(RowNames)
    BY <2>1, <2>2
  <2> HIDE DEF r2
  <2>4. r2 \o Fail \in Seq(RowNames)
    BY <2>3, Parts
  <2> QED
    BY <2>4 DEF CleanUp, r2, r1, j, w
<1>5. Withdraw \in Seq(RowNames)
  <2> DEFINE k == <<"invite", "case">>
             w == <<"invite", "order", "job", "attempt1", "attempt2", "source", "candidate",
                    "result", "entitlement">>
  <2>1. k \in Seq(RowNames) /\ w \in Seq(RowNames)
    BY <1>0
  <2> HIDE DEF k, w
  <2>2. w \o GiveBack \in Seq(RowNames)
    BY <2>1, Parts
  <2> QED
    BY <2>1, <2>2 DEF Withdraw, k, w
<1>6. Unlock \in Seq(RowNames)
  <2> DEFINE j == <<"job">>
  <2>1. j \in Seq(RowNames)
    BY Literals
  <2> HIDE DEF j
  <2>2. Download \o j \in Seq(RowNames)
    BY <2>1, DownloadIs
  <2> QED
    BY <2>2 DEF Unlock, j
<1> QED
  BY <1>2, <1>3, <1>4, <1>5, <1>6

\* The orders of a small set are sequences of its members.
LEMMA AllOrders ==
  ASSUME NEW a \in RowNames, NEW b \in RowNames, NEW c \in RowNames,
         NEW s \in SetToSeqs({a, b, c})
  PROVE  s \in Seq(RowNames)
<1> DEFINE S == {a, b, c}
           n == Cardinality(S)
<1>1. n = Cardinality(S)
  BY Zenon DEF Cardinality, Cardinality
<1>2. n \in Nat
  <2>1. IsFiniteSet({}) /\ {} \cup {a} = {a} /\ {a} \cup {b} = {a, b} /\ {a, b} \cup {c} = {a, b, c}
    BY FS_EmptySet
  <2>2. IsFiniteSet({} \cup {a})
    BY <2>1, FS_AddElement
  <2>3. IsFiniteSet({a} \cup {b})
    BY <2>1, <2>2, FS_AddElement
  <2>4. IsFiniteSet({a, b} \cup {c})
    BY <2>1, <2>3, FS_AddElement
  <2> QED
    BY <1>1, <2>1, <2>4, FS_CardinalityType
<1>3. s \in [1..n -> S]
  BY DEF SetToSeqs
<1> HIDE DEF n
<1>4. s \in Seq(S) /\ S \subseteq RowNames
  BY <1>2, <1>3
<1> QED
  BY <1>4

\* So does reconciliation,
LEMMA ReconciliationIsRows ==
  ASSUME NEW a \in Attempts, NEW rows \in Reconcile(a)
  PROVE  rows \in Seq(RowNames)
<1> DEFINE A == {<<>>, FencedRows(a)}
           B == {NothingToSettle, NothingToSettle \o Fail,
                 NothingToSettle \o Context(a)}
                \cup (IF partner THEN {SettleCase(a)} ELSE {})
<1>0. Reconcile(a) = {start \o rest : start \in A, rest \in B}
  BY DEF Reconcile
<1>1. Context(a) \in Seq(RowNames)
  BY ContextKeeps, KeepsIsRows DEF Ordered
<1>2. A \subseteq Seq(RowNames)
  BY Parts, Short
<1>3. B \subseteq Seq(RowNames)
  <2>1. /\ Gate \o Fail \in Seq(RowNames)
        /\ Gate \o Context(a) \in Seq(RowNames)
    BY <1>1, Parts
  <2>2. Gate \in Seq(RowNames) /\ SettleCase(a) \in Seq(RowNames)
    BY Parts, OthersAreRows
  <2> QED
    BY <2>1, <2>2 DEF NothingToSettle
<1> HIDE DEF A, B
<1>4. PICK start \in A, rest \in B : rows = start \o rest
  BY <1>0
<1> QED
  BY <1>2, <1>3, <1>4, Joined

\* and strict QA,
LEMMA JudgementsAreRows ==
  ASSUME NEW a \in Attempts, NEW rows \in Judge(a)
  PROVE  rows \in Seq(RowNames)
<1> DEFINE A == {<<>>, FencedRows(a)}
           j == <<"job">>
           s == <<"source">>
<1>0. Judge(a) = {start \o Gate \o j \o Context(a) \o s : start \in A}
  BY DEF Judge, NothingToSettle
<1>1. Context(a) \in Seq(RowNames)
  BY ContextKeeps, KeepsIsRows DEF Ordered
<1>2. A \subseteq Seq(RowNames) /\ Gate \in Seq(RowNames)
  BY Parts, Short
<1>3. j \in Seq(RowNames) /\ s \in Seq(RowNames)
  BY Literals
<1> HIDE DEF A, j, s
<1>4. PICK start \in A : rows = start \o Gate \o j \o Context(a) \o s
  BY <1>0
<1> DEFINE r1 == start \o Gate
           r2 == r1 \o j
           r3 == r2 \o Context(a)
<1>5. r1 \in Seq(RowNames)
  BY <1>2
<1> HIDE DEF r1
<1>6. r2 \in Seq(RowNames)
  BY <1>3, <1>5
<1> HIDE DEF r2
<1>7. r3 \in Seq(RowNames)
  BY <1>1, <1>6
<1> HIDE DEF r3
<1>8. r3 \o s \in Seq(RowNames)
  BY <1>3, <1>7
<1> QED
  BY <1>4, <1>8 DEF r3, r2, r1

\* and the calls about lots and pictures of other orders.
LEMMA StrangersAreRows ==
  /\ CreateOrders \subseteq Seq(RowNames)
  /\ Reversals \subseteq Seq(RowNames)
  /\ CloseAccounts \subseteq Seq(RowNames)
<1>0. /\ "lot1" \in RowNames /\ "lot2" \in RowNames /\ "unlockLot" \in RowNames
      /\ "source" \in RowNames /\ "candidate" \in RowNames
      /\ "result" \in RowNames /\ "account" \in RowNames
      /\ "entitlement" \in RowNames
      /\ \A l \in AllLots : l \in RowNames
  BY DEF RowNames, AllLots
<1>1. \A s \in SetToSeqs(AllLots) : s \in Seq(RowNames)
  BY <1>0, AllOrders DEF AllLots
<1>2. CloseAccounts \subseteq Seq(RowNames)
  BY <1>0, AllOrders DEF CloseAccounts, Pictures
<1>3. CreateOrders \subseteq Seq(RowNames)
  <2> DEFINE b == <<"source", "account">>
             T == SetToSeqs(AllLots)
  <2>1. b \in Seq(RowNames) /\ T \subseteq Seq(RowNames)
    BY <1>0, <1>1
  <2>2. CreateOrders = {b \o lots : lots \in T}
    BY DEF CreateOrders
  <2> HIDE DEF b, T
  <2> QED
    BY <2>1, <2>2, Joined
<1>4. Reversals \subseteq Seq(RowNames)
  <2> DEFINE f(l) == <<l, "account", "entitlement">>
  <2>1. \A l \in AllLots : f(l) \in Seq(RowNames)
    BY <1>0, Short
  <2>2. Reversals = {f(l) : l \in AllLots}
    BY DEF Reversals
  <2> HIDE DEF f
  <2> QED
    BY <2>1, <2>2
<1> QED
  BY <1>2, <1>3, <1>4

\* The calls and what they lock.
LEMMA LocksAre ==
  /\ LocksOf("Submit") = {SubmitInitial}
  /\ LocksOf("SubmitRepair") = {SubmitRepair}
  /\ LocksOf("Reject") = {FencedRows(a) \o Fail : a \in Attempts}
  /\ LocksOf("Account")
       = {Capture, FencedRows("attempt1") \o <<"order">> \o Capture,
          FencedRows("attempt2") \o RepairLineage}
  /\ LocksOf("Reconcile") = UNION {Reconcile(a) : a \in Attempts}
  /\ LocksOf("Judge") = UNION {Judge(a) : a \in Attempts}
  /\ LocksOf("Dispose") = Dispose
  /\ LocksOf("Deliver") = {Deliver(a) : a \in Attempts}
  /\ LocksOf("CleanUp") = {CleanUp(a) : a \in Attempts}
<1>1. LocksOf("Submit") = {SubmitInitial}
  BY DEF LocksOf
<1>2. LocksOf("SubmitRepair") = {SubmitRepair}
  BY DEF LocksOf
<1>3. LocksOf("Reject") = {FencedRows(a) \o Fail : a \in Attempts}
  BY DEF LocksOf
<1>4. LocksOf("Account")
        = {Capture, FencedRows("attempt1") \o <<"order">> \o Capture,
           FencedRows("attempt2") \o RepairLineage}
  BY DEF LocksOf
<1>5. LocksOf("Reconcile") = UNION {Reconcile(a) : a \in Attempts}
  BY DEF LocksOf
<1>6. LocksOf("Judge") = UNION {Judge(a) : a \in Attempts}
  BY DEF LocksOf
<1>7. LocksOf("Dispose") = Dispose
  BY DEF LocksOf
<1>8. LocksOf("Deliver") = {Deliver(a) : a \in Attempts}
  BY DEF LocksOf
<1>9. LocksOf("CleanUp") = {CleanUp(a) : a \in Attempts}
  BY DEF LocksOf
<1> QED
  BY <1>1, <1>2, <1>3, <1>4, <1>5, <1>6, <1>7, <1>8, <1>9

\* The calls that no worker makes.
LEMMA LocksAreToo ==
  /\ LocksOf("Resolve") = UNION {Resolve(a) : a \in Attempts}
  /\ LocksOf("Withdraw") = IF partner THEN {Withdraw} ELSE {}
  /\ LocksOf("Download") = {Download}
  /\ LocksOf("Unlock") = {Unlock}
  /\ LocksOf("CreateOrder") = CreateOrders
  /\ LocksOf("Reverse") = Reversals
  /\ LocksOf("ConfirmDeletion") = ConfirmDeletions
  /\ LocksOf("CloseAccount") = CloseAccounts
<1>1. LocksOf("Resolve") = UNION {Resolve(a) : a \in Attempts}
  BY DEF LocksOf
<1>2. LocksOf("Withdraw") = IF partner THEN {Withdraw} ELSE {}
  BY DEF LocksOf
<1>3. LocksOf("Download") = {Download}
  BY DEF LocksOf
<1>4. LocksOf("Unlock") = {Unlock}
  BY DEF LocksOf
<1>5. LocksOf("CreateOrder") = CreateOrders
  BY DEF LocksOf
<1>6. LocksOf("Reverse") = Reversals
  BY DEF LocksOf
<1>7. LocksOf("ConfirmDeletion") = ConfirmDeletions
  BY DEF LocksOf
<1>8. LocksOf("CloseAccount") = CloseAccounts
  BY DEF LocksOf
<1> QED
  BY <1>1, <1>2, <1>3, <1>4, <1>5, <1>6, <1>7, <1>8

\* All calls lock rows.
LEMMA LocksAreRows ==
  ASSUME NEW name \in Names, NEW rows \in LocksOf(name)
  PROVE  rows \in Seq(RowNames)
<1>1. "attempt1" \in Attempts /\ "attempt2" \in Attempts
  BY DEF Attempts
<1>2. \A s : Keeps(s) => s \in Seq(RowNames)
  BY KeepsIsRows
<1>3. CASE name \in {"Submit", "SubmitRepair"}
  BY <1>2, <1>3, LocksAre, SubmissionsKeep, OthersAreRows
<1>13. CASE name = "Reject"
  <2>1. PICK a \in Attempts : rows = FencedRows(a) \o Fail
    BY <1>13, LocksAre
  <2> QED
    BY <2>1, <1>2, SubmissionsKeep
<1>4. CASE name = "Account"
  BY <1>2, <1>4, LocksAre, AccountingKeeps, CaptureIs
<1>5. CASE name = "Reconcile"
  <2>1. PICK a \in Attempts : rows \in Reconcile(a)
    BY <1>5, LocksAre
  <2> QED
    BY <2>1, ReconciliationIsRows
<1>6. CASE name = "Judge"
  <2>1. PICK a \in Attempts : rows \in Judge(a)
    BY <1>6, LocksAre
  <2> QED
    BY <2>1, JudgementsAreRows
<1>7. CASE name = "Dispose"
  BY <1>2, <1>7, LocksAre, DispositionsKeep
<1>8. CASE name \in {"Deliver", "CleanUp"}
  BY <1>2, <1>8, LocksAre, DeliveriesKeep, OthersAreRows
<1>9. CASE name = "Resolve"
  <2>1. PICK a \in Attempts : rows \in Resolve(a)
    BY <1>9, LocksAreToo
  <2> QED
    BY <2>1, <1>2, ResolutionsKeep
<1>10. CASE name \in {"Withdraw", "Download", "Unlock"}
  BY <1>10, LocksAreToo, OthersAreRows, DownloadIs
<1>11. CASE name \in {"CreateOrder", "Reverse", "CloseAccount"}
  BY <1>11, LocksAreToo, StrangersAreRows
<1>12. CASE name = "ConfirmDeletion"
  BY <1>12, LocksAreToo, ConfirmationsKnown
<1> QED
  BY <1>3, <1>4, <1>5, <1>6, <1>7, <1>8, <1>9, <1>10, <1>11, <1>12, <1>13
  DEF Names, Worker

\* A call that is in order locks in the order of one of the four.
LEMMA LocksAreKnown ==
  ASSUME partner \in BOOLEAN,
         NEW name \in Names \ OutOfOrder, NEW rows \in LocksOf(name)
  PROVE  Known(rows)
<1>1. /\ name \notin {"CreateOrder", "Reverse", "Unlock", "CloseAccount"}
      /\ name \in {"SubmitRepair", "Reconcile", "Judge", "CleanUp", "Withdraw"} => ~partner
  BY DEF OutOfOrder
<1>2. CASE name \in {"Submit", "SubmitRepair"}
  BY <1>1, <1>2, LocksAre, SubmissionsKeep DEF Known
<1>12. CASE name = "Reject"
  <2>1. PICK a \in Attempts : rows = FencedRows(a) \o Fail
    BY <1>12, LocksAre
  <2> QED
    BY <2>1, SubmissionsKeep DEF Known
<1>3. CASE name = "Account"
  BY <1>3, LocksAre, AccountingKeeps DEF Known
<1>4. CASE name = "Reconcile"
  <2>1. PICK a \in Attempts : rows \in Reconcile(a)
    BY <1>4, LocksAre
  <2> QED
    BY <2>1, <1>1, <1>4, ReconciliationKeeps DEF Known
<1>5. CASE name = "Judge"
  <2>1. PICK a \in Attempts : rows \in Judge(a)
    BY <1>5, LocksAre
  <2> QED
    BY <2>1, <1>1, <1>5, JudgementsKeep DEF Known
<1>6. CASE name = "Dispose"
  BY <1>6, LocksAre, DispositionsKeep DEF Known
<1>7. CASE name \in {"Deliver", "CleanUp"}
  BY <1>1, <1>7, LocksAre, DeliveriesKeep DEF Known
<1>8. CASE name = "Resolve"
  <2>1. PICK a \in Attempts : rows \in Resolve(a)
    BY <1>8, LocksAreToo
  <2> QED
    BY <2>1, ResolutionsKeep DEF Known
<1>9. CASE name = "Withdraw"
  BY <1>1, <1>9, LocksAreToo
<1>10. CASE name = "Download"
  BY <1>10, LocksAreToo DEF Known
<1>11. CASE name = "ConfirmDeletion"
  BY <1>11, LocksAreToo, ConfirmationsKnown DEF Known
<1> QED
  BY <1>1, <1>2, <1>3, <1>4, <1>5, <1>6, <1>7, <1>8, <1>9, <1>10, <1>11, <1>12
  DEF Names, Worker

-----------------------------------------------------------------------------
(* Who may wait for whom                                                    *)

\* A transaction that holds rows and waits for one more: for a job, for an account, for a
\* picture; the ways of the four orders.
AtWork(held, row) ==
  /\ "job" \in held /\ held \subseteq JobRows \cup {"invite"} /\ row \in JobRows
  /\ "order" \notin held => held \subseteq {"invite", "job", "attempt1", "attempt2"}

Capturing(held, row) ==
  /\ "job" \in held /\ held \cup {row} \subseteq Has(Capture)
  /\ held \cap {"account", "lot1", "lot2"} # {} => "reservation" \in held
  /\ "reservation" \in held => row \in {"account", "lot1", "lot2"}

Downloading(held, row) ==
  /\ "order" \in held /\ held \cup {row} \subseteq Has(Download)
  /\ held \cap {"lot1", "lot2", "entitlement", "unlockLot"} # {} => "reservation" \in held

Deleting(held, row) == row = "case" /\ \E p \in Pictures : held = {p}

Waiting(held, row) ==
  \/ held = {}
  \/ held = {"invite"} /\ row = "job"
  \/ AtWork(held, row)
  \/ Capturing(held, row)
  \/ Downloading(held, row)
  \/ Deleting(held, row)

\* The rank of a transaction that waits: it waits for those of higher rank only.
Rank(held) ==
  CASE held = {} -> 0
    [] held = {"invite"} -> 1
    [] "job" \in held /\ "order" \notin held /\ "reservation" \notin held -> 2
    [] "order" \in held -> 3
    [] "job" \in held /\ "order" \notin held /\ "reservation" \in held -> 4
    [] OTHER -> 5

\* The rows of a capture and of a download, as sets.
LEMMA HasAll ==
  /\ Has(Capture) = {"job", "attempt1", "reservation", "account", "lot1", "lot2"}
  /\ Has(Download)
       = {"order", "result", "reservation", "lot1", "lot2", "entitlement", "unlockLot"}
<1>1. 1..7 = {1, 2, 3, 4, 5, 6, 7}
  OBVIOUS
<1> DEFINE d == Download
<1>2. /\ Len(d) = 7 /\ d[1] = "order" /\ d[2] = "result" /\ d[3] = "reservation"
      /\ d[4] = "lot1" /\ d[5] = "lot2" /\ d[6] = "entitlement" /\ d[7] = "unlockLot"
  BY DownloadIs
<1> HIDE DEF d
<1>3. Has(d) = {d[j] : j \in {1, 2, 3, 4, 5, 6, 7}}
  BY <1>1, <1>2 DEF Has
<1>4. {d[j] : j \in {1, 2, 3, 4, 5, 6, 7}} = {d[1], d[2], d[3], d[4], d[5], d[6], d[7]}
  OBVIOUS
<1>5. Has(d) = {"order", "result", "reservation", "lot1", "lot2", "entitlement", "unlockLot"}
  BY <1>2, <1>3, <1>4
<1> QED
  BY <1>5, Parts DEF d

\* The ranks, as a case for each.
LEMMA RankIs ==
  ASSUME NEW held
  PROVE  /\ Rank(held) \in 0..5
         /\ held = {} => Rank(held) = 0
         /\ held # {} => Rank(held) > 0
         /\ held = {"invite"} => Rank(held) = 1
         /\ "job" \in held /\ "order" \notin held /\ "reservation" \notin held => Rank(held) = 2
         /\ "order" \in held => Rank(held) = 3
         /\ "job" \in held /\ "order" \notin held /\ "reservation" \in held => Rank(held) = 4
         /\ held # {} /\ held # {"invite"} => Rank(held) > 1
         /\ held # {} /\ held # {"invite"} /\ "job" \notin held /\ "order" \notin held
              => Rank(held) = 5
<1>1. "job" # "invite" /\ "order" # "invite"
  OBVIOUS
<1>2. /\ "job" \in held => held # {} /\ held # {"invite"}
      /\ "order" \in held => held # {} /\ held # {"invite"}
      /\ {"invite"} # {}
  OBVIOUS
<1> QED
  BY <1>2 DEF Rank

\* A transaction that holds the row another waits for, and waits itself, has a higher rank.
LEMMA RanksRise ==
  ASSUME NEW H, NEW w, NEW K, NEW v, Waiting(H, w), Waiting(K, v), w \in K, H \cap K = {}
  PROVE  Rank(K) > Rank(H)
<1>1. K # {} /\ Rank(H) \in 0..5 /\ Rank(K) \in 0..5
  BY RankIs
<1>2. CASE H = {}
  BY <1>1, <1>2, RankIs
<1>3. CASE H = {"invite"} /\ w = "job"
  <2>1. K # {"invite"}
    BY <1>3
  <2> QED
    BY <1>1, <1>3, <2>1, RankIs
<1>4. CASE AtWork(H, w)
  <2>1. w \notin {"invite", "case", "unlockLot"} /\ "job" \notin K
    BY <1>4 DEF AtWork, JobRows
  <2>2. Downloading(K, v) \/ Deleting(K, v)
    BY <2>1 DEF Waiting, AtWork, Capturing
  <2>3. CASE Downloading(K, v)
    <3>1. "order" \notin H /\ "order" \in K
      BY <2>3 DEF Downloading
    <3>2. "job" \in H /\ "reservation" \notin H
      BY <1>4, <3>1 DEF AtWork
    <3> QED
      BY <3>1, <3>2, RankIs
  <2>4. CASE Deleting(K, v)
    <3>1. "order" \notin K /\ K # {"invite"}
      BY <2>4 DEF Deleting, Pictures
    <3>2. Rank(K) = 5
      BY <1>1, <2>1, <3>1, RankIs
    <3>3. "job" \in H /\ ("order" \notin H => "reservation" \notin H)
      BY <1>4 DEF AtWork
    <3>4. Rank(H) \in {2, 3}
      BY <3>3, RankIs
    <3> QED
      BY <3>2, <3>4
  <2> QED
    BY <2>2, <2>3, <2>4
<1>5. CASE Capturing(H, w)
  <2>1. "job" \in H /\ "job" \notin K /\ "order" \notin H
        /\ w \in {"attempt1", "reservation", "account", "lot1", "lot2"}
    BY <1>5, HasAll DEF Capturing
  <2>2. Downloading(K, v)
    BY <2>1 DEF Waiting, AtWork, Capturing, Deleting, Pictures
  <2>3. "order" \in K /\ "reservation" \notin H
    BY <2>1, <2>2, <1>5, HasAll DEF Downloading, Capturing
  <2> QED
    BY <2>1, <2>3, RankIs
<1>6. CASE Downloading(H, w)
  <2>1. "order" \in H /\ "order" \notin K
        /\ w \in {"order", "result", "reservation", "lot1", "lot2", "entitlement", "unlockLot"}
    BY <1>6, HasAll DEF Downloading
  <2>2. Rank(H) = 3
    BY <2>1, RankIs
  <2>3. Capturing(K, v) \/ Deleting(K, v)
    BY <2>1 DEF Waiting, AtWork, Downloading
  <2>4. CASE Capturing(K, v)
    <3>1. "job" \in K /\ "reservation" \in K
      BY <2>1, <2>4, HasAll DEF Capturing
    <3> QED
      BY <2>1, <2>2, <3>1, RankIs
  <2>5. CASE Deleting(K, v)
    <3>1. "job" \notin K /\ K # {"invite"}
      BY <2>5 DEF Deleting, Pictures
    <3> QED
      BY <1>1, <2>1, <2>2, <3>1, RankIs
  <2> QED
    BY <2>3, <2>4, <2>5
<1>7. CASE Deleting(H, w)
  BY <1>7, HasAll DEF Waiting, AtWork, Capturing, Downloading, Deleting, Pictures, JobRows
<1> QED
  BY <1>2, <1>3, <1>4, <1>5, <1>6, <1>7 DEF Waiting

\* Where a transaction of one of the four orders stands when it waits.
LEMMA KeepersWait ==
  ASSUME NEW rows, Keeps(rows), NEW i \in 1..Len(rows), rows[i] \notin Before(rows, i)
  PROVE  Waiting(Before(rows, i), rows[i])
<1> DEFINE H == Before(rows, i)
           w == rows[i]
<1>0. rows \in Seq(RowNames)
  BY KeepsIsRows
<1>1. \A j \in 1..Len(rows) : Proper(Before(rows, j), rows[j])
  <2> SUFFICES ASSUME NEW j \in 1..Len(rows) PROVE Proper(Before(rows, j), rows[j])
    OBVIOUS
  <2>1. {} \cup Before(rows, j) = Before(rows, j)
    OBVIOUS
  <2> QED
    BY <2>1 DEF Keeps, KeepsFrom
<1>2. ASSUME NEW x \in H
      PROVE  /\ x \in JobRows \cup {"invite"}
             /\ x \notin {"invite", "job", "attempt1", "attempt2", "order"} => "order" \in H
  <2>1. PICK j \in 1..(i - 1) : x = rows[j]
    BY DEF Before
  <2>2. Proper(Before(rows, j), x) /\ j \in 1..Len(rows)
    BY <1>0, <1>1, <2>1
  <2>3. Before(rows, j) \subseteq H
    BY <2>1, <1>0 DEF Before
  <2> QED
    BY <2>2, <2>3 DEF Proper, JobRows
<1>3. Proper(H, w) /\ w \notin H
  BY <1>1
<1> HIDE DEF H, w
<1>4. CASE w = "invite"
  <2>1. H = {}
    BY <1>3, <1>4 DEF Proper
  <2> QED
    BY <2>1 DEF Waiting, H, w
<1>5. CASE w = "job"
  <2>1. H = {} \/ H = {"invite"}
    BY <1>3, <1>5 DEF Proper
  <2> QED
    BY <1>5, <2>1 DEF Waiting, H, w
<1>6. CASE w \notin {"invite", "job"}
  <2>1. w \in JobRows /\ "job" \in H
    BY <1>3, <1>6 DEF Proper
  <2>2. H \subseteq JobRows \cup {"invite"}
    BY <1>2
  <2>3. "order" \notin H => H \subseteq {"invite", "job", "attempt1", "attempt2"}
    BY <1>2
  <2> QED
    BY <2>1, <2>2, <2>3 DEF AtWork, Waiting, H, w
<1> QED
  BY <1>4, <1>5, <1>6 DEF H, w

\* Where a capture stands when it waits.
LEMMA CapturersWait ==
  ASSUME NEW i \in 1..Len(Capture)
  PROVE  Waiting(Before(Capture, i), Capture[i])
<1> DEFINE t == Capture
<1>1. /\ Len(t) = 6 /\ t[1] = "job" /\ t[2] = "attempt1" /\ t[3] = "reservation"
      /\ t[4] = "account" /\ t[5] = "lot1" /\ t[6] = "lot2"
  BY CaptureIs
<1>2. Has(t) = {"job", "attempt1", "reservation", "account", "lot1", "lot2"}
  BY HasAll
<1>3. i \in 1..6
  BY CaptureIs
<1> HIDE DEF t
<1> DEFINE H == Before(t, i)
           w == t[i]
<1>4. H \subseteq Has(t) /\ w \in Has(t)
  BY <1>1, <1>3 DEF Before, Has
<1>5. \A j \in 1..6 : j < i => t[j] \in H
  BY <1>3 DEF Before
<1>6. \A x \in H : \E j \in 1..6 : j < i /\ x = t[j]
  BY <1>3 DEF Before
<1> HIDE DEF H
<1>7. CASE i = 1
  <2>1. H = {}
    BY <1>6, <1>7
  <2> QED
    BY <2>1 DEF Waiting, H, t
<1>8. CASE i # 1
  <2>1. "job" \in H
    BY <1>1, <1>3, <1>5, <1>8
  <2>2. H \cap {"account", "lot1", "lot2"} # {} => "reservation" \in H
    <3>1. i < 5 => H \subseteq {t[1], t[2], t[3]}
      BY <1>3, <1>6
    <3>2. i > 3 => "reservation" \in H
      BY <1>1, <1>3, <1>5
    <3> QED
      BY <1>1, <1>3, <3>1, <3>2
  <2>3. "reservation" \in H => w \in {"account", "lot1", "lot2"}
    <3>1. i < 4 => H \subseteq {t[1], t[2]}
      BY <1>3, <1>6
    <3>2. i > 3 => i \in {4, 5, 6}
      BY <1>3
    <3> QED
      BY <1>1, <1>3, <3>1, <3>2
  <2>4. Capturing(H, w)
    BY <1>2, <1>4, <2>1, <2>2, <2>3 DEF Capturing, t
  <2> QED
    BY <2>4 DEF Waiting, H, t
<1> QED
  BY <1>7, <1>8 DEF t, H

\* Where a download stands when it waits.
LEMMA DownloadersWait ==
  ASSUME NEW i \in 1..Len(Download)
  PROVE  Waiting(Before(Download, i), Download[i])
<1> DEFINE t == Download
<1>1. /\ Len(t) = 7 /\ t[1] = "order" /\ t[2] = "result" /\ t[3] = "reservation"
      /\ t[4] = "lot1" /\ t[5] = "lot2" /\ t[6] = "entitlement" /\ t[7] = "unlockLot"
  BY DownloadIs
<1>2. Has(t) = {"order", "result", "reservation", "lot1", "lot2", "entitlement", "unlockLot"}
  BY HasAll
<1>3. i \in 1..7
  BY DownloadIs
<1> HIDE DEF t
<1> DEFINE H == Before(t, i)
           w == t[i]
<1>4. H \subseteq Has(t) /\ w \in Has(t)
  BY <1>1, <1>3 DEF Before, Has
<1>5. \A j \in 1..7 : j < i => t[j] \in H
  BY <1>3 DEF Before
<1>6. \A x \in H : \E j \in 1..7 : j < i /\ x = t[j]
  BY <1>3 DEF Before
<1> HIDE DEF H
<1>7. CASE i = 1
  <2>1. H = {}
    BY <1>6, <1>7
  <2> QED
    BY <2>1 DEF Waiting, H, t
<1>8. CASE i # 1
  <2>1. "order" \in H
    BY <1>1, <1>3, <1>5, <1>8
  <2>2. H \cap {"lot1", "lot2", "entitlement", "unlockLot"} # {} => "reservation" \in H
    <3>1. i < 5 => H \subseteq {t[1], t[2], t[3]}
      BY <1>3, <1>6
    <3>2. i > 3 => "reservation" \in H
      BY <1>1, <1>3, <1>5
    <3> QED
      BY <1>1, <1>3, <3>1, <3>2
  <2>3. Downloading(H, w)
    BY <1>4, <2>1, <2>2 DEF Downloading, t
  <2> QED
    BY <2>3 DEF Waiting, H, t
<1> QED
  BY <1>7, <1>8 DEF t, H

\* Where a confirmed deletion stands when it waits.
LEMMA DeletersWait ==
  ASSUME NEW rows \in Deletions, NEW i \in 1..Len(rows)
  PROVE  Waiting(Before(rows, i), rows[i])
<1> DEFINE e == <<>>
           k == <<"case">>
           f(p) == <<p>>
           D == {e, k}
<1>0. "case" \in RowNames /\ \A p \in Pictures : p \in RowNames
  BY DEF RowNames, Pictures
<1>1. /\ e \in Seq(RowNames) /\ Len(e) = 0
      /\ k \in Seq(RowNames) /\ Len(k) = 1 /\ k[1] = "case"
      /\ \A p \in Pictures : f(p) \in Seq(RowNames) /\ Len(f(p)) = 1 /\ f(p)[1] = p
  BY <1>0, Short
<1>2. Deletions = {f(p) \o rest : p \in Pictures, rest \in D}
  BY DEF Deletions
<1> HIDE DEF e, k, f, D
<1>3. PICK p \in Pictures, rest \in D : rows = f(p) \o rest
  BY <1>2
<1>4. rest \in Seq(RowNames) /\ (Len(rest) = 0 \/ (Len(rest) = 1 /\ rest[1] = "case"))
  BY <1>1, <1>3 DEF D
<1>5. Len(rows) = 1 + Len(rest) /\ rows[1] = p /\ \A j \in 1..Len(rest) : rows[1 + j] = rest[j]
  BY <1>1, <1>3, <1>4
<1>6. CASE i = 1
  <2>1. Before(rows, i) = {}
    BY <1>6 DEF Before
  <2> QED
    BY <2>1 DEF Waiting
<1>7. CASE i # 1
  <2>1. i = 2 /\ rows[2] = "case"
    BY <1>4, <1>5, <1>7
  <2>2. Before(rows, i) = {p}
    BY <1>5, <2>1 DEF Before
  <2> QED
    BY <2>1, <2>2 DEF Waiting, Deleting
<1> QED
  BY <1>6, <1>7

\* All four together.
LEMMA KnownWait ==
  ASSUME NEW rows, Known(rows), NEW i \in 1..Len(rows), rows[i] \notin Before(rows, i)
  PROVE  Waiting(Before(rows, i), rows[i])
BY KeepersWait, CapturersWait, DownloadersWait, DeletersWait DEF Known

-----------------------------------------------------------------------------
(* What is left to lock                                                     *)

\* A set of natural numbers has a least member, and Min is it.
LEMMA Least ==
  ASSUME NEW S, S \subseteq Nat, S # {}
  PROVE  Min(S) \in S /\ \A y \in S : Min(S) <= y
<1> DEFINE R == OpToRel(<, Nat)
<1>1. IsWellFoundedOn(R, Nat)
  BY NatLessThanWellFounded
<1>2. \E x \in S : \A y \in S : ~(<<y, x>> \in R)
  <2> HIDE DEF R
  <2> QED
    BY <1>1, WFMin
<1>3. PICK x \in S : \A y \in S : ~(<<y, x>> \in R)
  BY <1>2
<1>4. \A y \in S : x <= y
  <2> SUFFICES ASSUME NEW y \in S PROVE x <= y
    OBVIOUS
  <2>1. ~(y < x)
    BY <1>3 DEF OpToRel
  <2> QED
    BY <2>1
<1>5. \E z \in S : \A y \in S : z <= y
  BY <1>4
<1> QED
  BY <1>5 DEF Min

\* Ahead drops the first rows that are held, and only those.
LEMMA AheadIs ==
  ASSUME NEW rows \in Seq(RowNames), NEW held
  PROVE  /\ Ahead(rows, held) \in Seq(RowNames)
         /\ \E m \in 0..Len(rows) :
              /\ Len(Ahead(rows, held)) = Len(rows) - m
              /\ \A k \in 1..(Len(rows) - m) : Ahead(rows, held)[k] = rows[m + k]
              /\ \A k \in 1..m : rows[k] \in held
              /\ m < Len(rows) => rows[m + 1] \notin held
<1> DEFINE new == {i \in DOMAIN rows : rows[i] \notin held}
           t == Ahead(rows, held)
<1>1. DOMAIN rows = 1..Len(rows) /\ Len(rows) \in Nat
  OBVIOUS
<1>2. CASE new = {}
  <2> DEFINE e == <<>>
  <2>1. e \in Seq(RowNames) /\ Len(e) = 0
    BY Short
  <2>2. t = e
    BY <1>2 DEF Ahead
  <2> HIDE DEF t, e
  <2> DEFINE m == Len(rows)
  <2>3. /\ m \in 0..Len(rows) /\ Len(t) = Len(rows) - m
        /\ \A k \in 1..(Len(rows) - m) : t[k] = rows[m + k]
        /\ \A k \in 1..m : rows[k] \in held
        /\ ~(m < Len(rows))
    BY <1>1, <1>2, <2>1, <2>2
  <2> QED
    BY <2>1, <2>2, <2>3 DEF t
<1>3. CASE new # {}
  <2> DEFINE n == Min(new)
             m == n - 1
  <2>1. new \subseteq Nat
    BY <1>1
  <2> HIDE DEF new
  <2>2. n \in new /\ \A y \in new : n <= y
    BY <1>3, <2>1, Least
  <2>3. t = SubSeq(rows, n, Len(rows))
    BY <1>3 DEF Ahead, new
  <2> HIDE DEF n
  <2>4. n \in 1..Len(rows) /\ rows[n] \notin held
    BY <1>1, <2>2 DEF new
  <2>5. \A k \in 1..(n - 1) : rows[k] \in held
    BY <1>1, <2>2, <2>4 DEF new
  <2>6. /\ t \in Seq(RowNames) /\ Len(t) = Len(rows) - n + 1
        /\ \A k \in 1..(Len(rows) - n + 1) : t[k] = rows[n + k - 1]
    BY <1>1, <2>3, <2>4
  <2> HIDE DEF t
  <2>7. /\ m \in 0..Len(rows) /\ Len(t) = Len(rows) - m
        /\ \A k \in 1..(Len(rows) - m) : t[k] = rows[m + k]
        /\ \A k \in 1..m : rows[k] \in held
        /\ rows[m + 1] \notin held
    BY <1>1, <2>4, <2>5, <2>6
  <2> QED
    BY <2>6, <2>7 DEF t
<1> QED
  BY <1>2, <1>3

-----------------------------------------------------------------------------
(* The sessions                                                             *)

\* A session that keeps the order has locked the first rows of one of the four, has the
\* others before it, and does not hold the next.
Stands(s) ==
  \E rows : Known(rows) /\ \E i \in 1..(Len(rows) + 1) :
    /\ s.held = Before(rows, i)
    /\ Len(s.todo) = Len(rows) - i + 1
    /\ \A k \in 1..(Len(rows) - i + 1) : s.todo[k] = rows[i + k - 1]
    /\ i <= Len(rows) => rows[i] \notin s.held

OneHolder == \A c, d \in Calls : c # d => call[c].held \cap call[d].held = {}
IdleHasNothing == \A c \in Calls : call[c].name = "idle" => call[c] = Idle
KeepersStand ==
  \A c \in Calls : call[c].name \in Names \ OutOfOrder => Stands(call[c])

LockInv == LOTypeOK /\ OneHolder /\ IdleHasNothing /\ KeepersStand

\* No set of sessions waits in a circle if each waits for one of higher rank.
LEMMA NoCircle ==
  ASSUME NEW S, S # {}, NEW R, \A c \in S : R[c] \in 0..5,
         \A c \in S : \E d \in S : R[d] > R[c]
  PROVE  FALSE
<1>1. \A n \in 0..5 : (\E c \in S : R[c] >= n) => \E c \in S : R[c] >= n + 1
  OBVIOUS
<1>2. \E c \in S : R[c] >= 0
  OBVIOUS
<1>3. \E c \in S : R[c] >= 3
  BY <1>1, <1>2
<1>4. \E c \in S : R[c] >= 6
  BY <1>1, <1>3
<1> QED
  BY <1>4

\* A session that stands in its order and wants a row waits there.
LEMMA StandersWait ==
  ASSUME NEW s \in [name : Names \cup {"idle"}, todo : Seq(RowNames),
                    held : SUBSET RowNames],
         Stands(s), s.todo # <<>>
  PROVE  Waiting(s.held, Head(s.todo))
<1>1. PICK rows : Known(rows) /\ \E i \in 1..(Len(rows) + 1) :
        /\ s.held = Before(rows, i)
        /\ Len(s.todo) = Len(rows) - i + 1
        /\ \A k \in 1..(Len(rows) - i + 1) : s.todo[k] = rows[i + k - 1]
        /\ i <= Len(rows) => rows[i] \notin s.held
  BY DEF Stands
<1>2. PICK i \in 1..(Len(rows) + 1) :
        /\ s.held = Before(rows, i)
        /\ Len(s.todo) = Len(rows) - i + 1
        /\ \A k \in 1..(Len(rows) - i + 1) : s.todo[k] = rows[i + k - 1]
        /\ i <= Len(rows) => rows[i] \notin s.held
  BY <1>1
<1>3. rows \in Seq(RowNames) /\ Len(rows) \in Nat
  BY <1>1, KnownIsRows
<1>4. s.todo \in Seq(RowNames) /\ Len(s.todo) > 0 /\ Head(s.todo) = s.todo[1]
  OBVIOUS
<1>5. i \in 1..Len(rows) /\ Head(s.todo) = rows[i]
  BY <1>2, <1>3, <1>4
<1> QED
  BY <1>1, <1>2, <1>5, KnownWait

\* A session that begins has its rows before it.
LEMMA BeginsStanding ==
  ASSUME NEW s, NEW rows, Known(rows), s.held = {}, s.todo = rows
  PROVE  Stands(s)
<1>1. rows \in Seq(RowNames) /\ Len(rows) \in Nat
  BY KnownIsRows
<1>2. Before(rows, 1) = {}
  BY DEF Before
<1>3. /\ 1 \in 1..(Len(rows) + 1)
      /\ s.held = Before(rows, 1)
      /\ Len(s.todo) = Len(rows) - 1 + 1
      /\ \A k \in 1..(Len(rows) - 1 + 1) : s.todo[k] = rows[1 + k - 1]
      /\ 1 <= Len(rows) => rows[1] \notin s.held
  BY <1>1, <1>2
<1> QED
  BY <1>3 DEF Stands

\* A session that gets its row stands further on: it has passed the rows it held.
LEMMA LocksStanding ==
  ASSUME NEW s \in [name : Names \cup {"idle"}, todo : Seq(RowNames),
                    held : SUBSET RowNames],
         Stands(s), s.todo # <<>>, NEW r,
         r.held = s.held \cup {Head(s.todo)},
         r.todo = Ahead(Tail(s.todo), s.held \cup {Head(s.todo)})
  PROVE  Stands(r)
<1>1. PICK rows : Known(rows) /\ \E i \in 1..(Len(rows) + 1) :
        /\ s.held = Before(rows, i)
        /\ Len(s.todo) = Len(rows) - i + 1
        /\ \A k \in 1..(Len(rows) - i + 1) : s.todo[k] = rows[i + k - 1]
        /\ i <= Len(rows) => rows[i] \notin s.held
  BY DEF Stands
<1>2. PICK i \in 1..(Len(rows) + 1) :
        /\ s.held = Before(rows, i)
        /\ Len(s.todo) = Len(rows) - i + 1
        /\ \A k \in 1..(Len(rows) - i + 1) : s.todo[k] = rows[i + k - 1]
        /\ i <= Len(rows) => rows[i] \notin s.held
  BY <1>1
<1>3. rows \in Seq(RowNames) /\ Len(rows) \in Nat
  BY <1>1, KnownIsRows
<1> DEFINE t == s.todo
           w == Head(t)
           u == Tail(t)
           held == s.held \cup {w}
           a == Ahead(u, held)
<1>4. t \in Seq(RowNames) /\ t # <<>>
  OBVIOUS
<1>5. /\ Len(t) > 0 /\ w = t[1] /\ u \in Seq(RowNames) /\ Len(u) = Len(t) - 1
      /\ \A k \in 1..(Len(t) - 1) : u[k] = t[k + 1]
  <2> HIDE DEF t
  <2> QED
    BY <1>4
<1>13. r.held = held /\ r.todo = a /\ held = s.held \cup {w} /\ t = s.todo
  OBVIOUS
<1> HIDE DEF t, w, u, held
<1>6. PICK m \in 0..Len(u) :
        /\ Len(a) = Len(u) - m
        /\ \A k \in 1..(Len(u) - m) : a[k] = u[m + k]
        /\ \A k \in 1..m : u[k] \in held
        /\ m < Len(u) => u[m + 1] \notin held
  BY <1>5, AheadIs
<1>7. i \in 1..Len(rows) /\ Len(u) = Len(rows) - i /\ w = rows[i]
      /\ \A k \in 1..(Len(rows) - i) : u[k] = rows[i + k]
  <2>1. i \in 1..Len(rows) /\ Len(u) = Len(rows) - i /\ w = rows[i]
    BY <1>2, <1>3, <1>5, <1>13
  <2> SUFFICES ASSUME NEW k \in 1..(Len(rows) - i) PROVE u[k] = rows[i + k]
    BY <2>1
  <2>2. k + 1 \in 1..(Len(rows) - i + 1) /\ k \in 1..(Len(t) - 1)
    BY <2>1, <1>2, <1>3, <1>13
  <2>3. u[k] = t[k + 1]
    BY <2>2, <1>5
  <2>4. t[k + 1] = rows[i + (k + 1) - 1]
    BY <2>2, <1>2, <1>13
  <2> QED
    BY <2>1, <2>3, <2>4, <1>3
<1> DEFINE n == i + 1 + m
<1>8. n \in 1..(Len(rows) + 1) /\ n - 1 = i + m
  BY <1>3, <1>6, <1>7
<1>9. held = Before(rows, n)
  <2>1. held = Before(rows, i) \cup {rows[i]}
    BY <1>2, <1>7, <1>13
  <2>2. ASSUME NEW x \in held PROVE x \in Before(rows, n)
    <3>1. CASE x = rows[i]
      <4>1. i \in 1..(n - 1)
        BY <1>6, <1>7, <1>8
      <4> QED
        BY <3>1, <4>1 DEF Before
    <3>2. CASE x \in Before(rows, i)
      <4>1. PICK j \in 1..(i - 1) : x = rows[j]
        BY <3>2 DEF Before
      <4>2. j \in 1..(n - 1)
        BY <1>6, <1>7, <1>8
      <4> QED
        BY <4>1, <4>2 DEF Before
    <3> QED
      BY <2>1, <2>2, <3>1, <3>2
  <2>3. ASSUME NEW j \in 1..(n - 1) PROVE rows[j] \in held
    <3>1. CASE j < i
      <4>1. j \in 1..(i - 1)
        BY <3>1, <1>7, <1>8
      <4>2. rows[j] \in Before(rows, i)
        BY <4>1 DEF Before
      <4> QED
        BY <4>2, <2>1
    <3>2. CASE j = i
      BY <3>2, <2>1
    <3>3. CASE j > i
      <4>1. j - i \in 1..m /\ j - i \in 1..(Len(rows) - i) /\ i + (j - i) = j
        BY <3>3, <1>3, <1>6, <1>7, <1>8
      <4>2. u[j - i] \in held /\ u[j - i] = rows[i + (j - i)]
        BY <4>1, <1>6, <1>7
      <4> QED
        BY <4>1, <4>2
    <3> QED
      BY <3>1, <3>2, <3>3, <1>7, <1>8
  <2> QED
    BY <2>2, <2>3 DEF Before
<1>10. Len(a) = Len(rows) - n + 1
  BY <1>3, <1>6, <1>7
<1>11. ASSUME NEW k \in 1..(Len(rows) - n + 1) PROVE a[k] = rows[n + k - 1]
  <2>1. k \in 1..(Len(u) - m) /\ m + k \in 1..(Len(rows) - i) /\ i + (m + k) = n + k - 1
    BY <1>3, <1>6, <1>7
  <2>2. a[k] = u[m + k]
    BY <2>1, <1>6
  <2>3. u[m + k] = rows[i + (m + k)]
    BY <2>1, <1>7
  <2> QED
    BY <2>1, <2>2, <2>3
<1>12. n <= Len(rows) => rows[n] \notin held
  <2> SUFFICES ASSUME n <= Len(rows) PROVE rows[n] \notin held
    OBVIOUS
  <2>1. m < Len(u) /\ m + 1 \in 1..(Len(rows) - i) /\ i + (m + 1) = n
    BY <1>3, <1>6, <1>7
  <2>2. u[m + 1] = rows[i + (m + 1)]
    BY <2>1, <1>7
  <2>3. u[m + 1] \notin held
    BY <2>1, <1>6
  <2> QED
    BY <2>1, <2>2, <2>3
<1> HIDE DEF a, n
<1>14. \E j \in 1..(Len(rows) + 1) :
         /\ r.held = Before(rows, j)
         /\ Len(r.todo) = Len(rows) - j + 1
         /\ \A k \in 1..(Len(rows) - j + 1) : r.todo[k] = rows[j + k - 1]
         /\ j <= Len(rows) => rows[j] \notin r.held
  BY <1>8, <1>9, <1>10, <1>11, <1>12, <1>13
<1> QED
  BY <1>1, <1>14 DEF Stands

\* The row of a session.
CallRow ==
  [name : Names \cup {"idle"}, todo : Seq(RowNames), held : SUBSET RowNames]

\* The row of an idle session.
LEMMA IdleIs ==
  /\ Idle \in CallRow
  /\ Idle.name = "idle" /\ Idle.held = {} /\ Idle.todo = <<>>
  /\ "idle" \notin Names
<1>1. <<>> \in Seq(RowNames)
  BY Short
<1> QED
  BY <1>1 DEF Idle, CallRow, Names, Worker

\* A step that gives one session a row of its own.
LEMMA SessionMoves ==
  ASSUME LockInv, NEW c \in Calls, NEW r \in CallRow,
         call' = [call EXCEPT ![c] = r],
         partner' = partner, ready' \in BOOLEAN, case' \in {"none", "open", "settled"},
         \A d \in Calls : d # c => r.held \cap call[d].held = {},
         r.name = "idle" => r = Idle,
         r.name \in Names \ OutOfOrder => Stands(r)
  PROVE  LockInv'
<1>1. call \in [Calls -> CallRow] /\ partner \in BOOLEAN
  BY DEF LockInv, LOTypeOK, CallRow
<1>2. call' \in [Calls -> CallRow] /\ call'[c] = r /\ \A d \in Calls : d # c => call'[d] = call[d]
  BY <1>1
<1>3. LOTypeOK'
  BY <1>1, <1>2 DEF LOTypeOK, CallRow
<1>4. OneHolder'
  <2>1. \A a, b \in Calls : a # b => call[a].held \cap call[b].held = {}
    BY DEF LockInv, OneHolder
  <2> SUFFICES ASSUME NEW a \in Calls, NEW b \in Calls, a # b
               PROVE  call'[a].held \cap call'[b].held = {}
    BY DEF OneHolder
  <2>2. CASE a = c
    BY <2>2, <1>2
  <2>3. CASE b = c
    BY <2>3, <1>2
  <2>4. CASE a # c /\ b # c
    BY <2>1, <2>4, <1>2
  <2> QED
    BY <2>2, <2>3, <2>4
<1>5. IdleHasNothing'
  BY <1>2 DEF LockInv, IdleHasNothing
<1>6. KeepersStand'
  <2>1. OutOfOrder' = OutOfOrder
    BY DEF OutOfOrder
  <2>2. ASSUME NEW d \in Calls, call'[d].name \in Names \ OutOfOrder
        PROVE  Stands(call'[d])
    BY <1>2, <2>2 DEF LockInv, KeepersStand
  <2> QED
    BY <2>1, <2>2 DEF KeepersStand
<1> QED
  BY <1>3, <1>4, <1>5, <1>6 DEF LockInv

\* All sessions are idle at first.
LEMMA LockInit == LOInit => LockInv
<1> SUFFICES ASSUME LOInit PROVE LockInv
  OBVIOUS
<1>1. call \in [Calls -> CallRow] /\ \A c \in Calls : call[c] = Idle
  BY IdleIs DEF LOInit
<1>2. LOTypeOK
  BY <1>1 DEF LOInit, LOTypeOK, CallRow
<1>3. OneHolder /\ IdleHasNothing /\ KeepersStand
  BY <1>1, IdleIs DEF OneHolder, IdleHasNothing, KeepersStand
<1> QED
  BY <1>2, <1>3 DEF LockInv

\* Every step of every session keeps the invariant.
LEMMA LockStep == LockInv /\ [LONext]_LOvars => LockInv'
<1> SUFFICES ASSUME LockInv, [LONext]_LOvars PROVE LockInv'
  OBVIOUS
<1>0. /\ call \in [Calls -> CallRow]
      /\ partner \in BOOLEAN /\ ready \in BOOLEAN /\ case \in {"none", "open", "settled"}
  BY DEF LockInv, LOTypeOK, CallRow
<1>1. ASSUME NEW c \in Calls, call' = [call EXCEPT ![c] = Idle],
             partner' = partner, ready' \in BOOLEAN, case' \in {"none", "open", "settled"}
      PROVE  LockInv'
  BY <1>1, IdleIs, SessionMoves
<1>2. ASSUME NEW c \in Calls, Begin(c) PROVE LockInv'
  <2>1. PICK name \in Names :
          /\ c \in Orderly => name \notin OutOfOrder
          /\ \E rows \in LocksOf(name) :
               call' = [call EXCEPT ![c] = [name |-> name, todo |-> rows, held |-> {}]]
    BY <1>2 DEF Begin
  <2>2. PICK rows \in LocksOf(name) :
          call' = [call EXCEPT ![c] = [name |-> name, todo |-> rows, held |-> {}]]
    BY <2>1
  <2> DEFINE r == [name |-> name, todo |-> rows, held |-> {}]
  <2>3. rows \in Seq(RowNames)
    BY LocksAreRows
  <2>4. r \in CallRow /\ r.held = {} /\ r.todo = rows /\ r.name = name
    BY <2>3 DEF CallRow
  <2>5. call' = [call EXCEPT ![c] = r] /\ UNCHANGED <<partner, ready, case>>
    BY <1>2, <2>2 DEF Begin
  <2> HIDE DEF r
  <2>6. name \in Names \ OutOfOrder => Stands(r)
    BY <1>0, <2>4, LocksAreKnown, BeginsStanding
  <2> QED
    BY <1>0, <2>4, <2>5, <2>6, IdleIs, SessionMoves
<1>3. ASSUME NEW c \in Calls, Lock(c) PROVE LockInv'
  <2> DEFINE s == call[c]
             w == Head(s.todo)
             r == [s EXCEPT !.todo = Ahead(Tail(s.todo), s.held \cup {w}),
                            !.held = s.held \cup {w}]
  <2>1. s.todo # <<>> /\ \A d \in Calls : d # c => w \notin call[d].held
    BY <1>3 DEF Lock, Wants, Blocks
  <2>2. UNCHANGED <<partner, ready, case>>
    BY <1>3 DEF Lock
  <2>3. call' = [call EXCEPT ![c] = Idle] \/ call' = [call EXCEPT ![c] = r]
    <3>1. call' = [call EXCEPT ![c] =
                     IF Refused(c, w) THEN Idle
                     ELSE [s EXCEPT !.todo = Ahead(Tail(s.todo), s.held \cup {w}),
                                     !.held = s.held \cup {w}]]
      BY <1>0, <1>3 DEF Lock
    <3> QED
      BY <3>1
  <2>4. CASE call' = [call EXCEPT ![c] = Idle]
    BY <1>0, <1>1, <2>2, <2>4
  <2>5. CASE call' = [call EXCEPT ![c] = r]
    <3>1. s \in CallRow
      BY <1>0
    <3>2. Tail(s.todo) \in Seq(RowNames) /\ w \in RowNames
      <4> DEFINE t == s.todo
      <4>1. t \in Seq(RowNames) /\ t # <<>>
        BY <2>1, <3>1 DEF CallRow
      <4> HIDE DEF t
      <4>2. Tail(t) \in Seq(RowNames) /\ Head(t) \in RowNames
        BY <4>1
      <4> QED
        BY <4>2 DEF t
    <3>3. Ahead(Tail(s.todo), s.held \cup {w}) \in Seq(RowNames)
      BY <3>2, AheadIs
    <3>4. /\ r \in CallRow /\ r.name = s.name /\ r.held = s.held \cup {w}
          /\ r.todo = Ahead(Tail(s.todo), s.held \cup {w})
      BY <3>1, <3>2, <3>3 DEF CallRow
    <3>5. \A d \in Calls : d # c => r.held \cap call[d].held = {}
      BY <2>1, <3>4 DEF LockInv, OneHolder
    <3>6. s.name # "idle"
      BY <2>1, IdleIs DEF LockInv, IdleHasNothing
    <3>7. s.name \in Names \ OutOfOrder => Stands(s)
      BY DEF LockInv, KeepersStand
    <3> HIDE DEF s, r
    <3>8. r.name \in Names \ OutOfOrder => Stands(r)
      BY <2>1, <3>1, <3>4, <3>7, LocksStanding DEF CallRow
    <3> QED
      BY <1>0, <2>2, <2>5, <3>4, <3>5, <3>6, <3>8, SessionMoves
  <2> QED
    BY <2>3, <2>4, <2>5
<1>4. ASSUME NEW c \in Calls, Commit(c) PROVE LockInv'
  <2>1. /\ call' = [call EXCEPT ![c] = Idle] /\ partner' = partner
        /\ ready' \in BOOLEAN
    BY <1>0, <1>4 DEF Commit
  <2>2. case' \in {"none", "open", "settled"}
    BY <1>0, <1>4 DEF Commit
  <2> QED
    BY <1>1, <2>1, <2>2
<1>5. ASSUME NEW c \in Calls, Rollback(c) PROVE LockInv'
  BY <1>0, <1>1, <1>5 DEF Rollback
<1>6. ASSUME UNCHANGED LOvars PROVE LockInv'
  <2>1. partner' = partner /\ ready' = ready /\ case' = case /\ call' = call
    BY <1>6 DEF LOvars
  <2>2. LOTypeOK'
    BY <2>1 DEF LockInv, LOTypeOK
  <2>3. OneHolder' /\ IdleHasNothing'
    BY <2>1 DEF LockInv, OneHolder, IdleHasNothing
  <2>4. KeepersStand'
    BY <2>1 DEF LockInv, KeepersStand, OutOfOrder
  <2> QED
    BY <2>2, <2>3, <2>4 DEF LockInv
<1> QED
  BY <1>2, <1>3, <1>4, <1>5, <1>6 DEF LONext

\* The invariant excludes every circle of sessions that keep the order.
LEMMA NoOtherCircle == LockInv => OnlyKnownDeadlocks
<1> SUFFICES ASSUME LockInv PROVE OnlyKnownDeadlocks
  OBVIOUS
<1>0. call \in [Calls -> CallRow]
  BY DEF LockInv, LOTypeOK, CallRow
<1>1. ASSUME NEW S \in Deadlocks, \A c \in S : call[c].name \notin OutOfOrder
      PROVE  FALSE
  <2> DEFINE R == [c \in S |-> Rank(call[c].held)]
  <2>1. S \subseteq Calls /\ S # {} /\ \A c \in S : \E d \in S : Blocks(d, c)
    BY DEF Deadlocks
  <2>2. ASSUME NEW c \in S PROVE Waiting(call[c].held, Head(call[c].todo))
    <3>1. call[c] \in CallRow /\ call[c].todo # <<>>
      BY <1>0, <2>1 DEF Blocks, Wants
    <3>2. call[c].name # "idle"
      BY <2>1, <3>1, IdleIs DEF LockInv, IdleHasNothing
    <3>3. call[c].name \in Names \ OutOfOrder
      BY <1>1, <3>1, <3>2 DEF CallRow
    <3>4. Stands(call[c])
      BY <2>1, <3>3 DEF LockInv, KeepersStand
    <3> QED
      BY <3>1, <3>4, StandersWait DEF CallRow
  <2>3. ASSUME NEW c \in S PROVE \E d \in S : R[d] > R[c]
    <3>1. PICK d \in S : Blocks(d, c)
      BY <2>1
    <3>2. d # c /\ Head(call[c].todo) \in call[d].held
      BY <3>1 DEF Blocks
    <3>3. call[c].held \cap call[d].held = {}
      BY <2>1, <3>2 DEF LockInv, OneHolder
    <3>4. Rank(call[d].held) > Rank(call[c].held)
      BY <2>2, <3>2, <3>3, RanksRise
    <3> QED
      BY <3>4
  <2>4. \A c \in S : R[c] \in 0..5
    BY RankIs
  <2> HIDE DEF R
  <2> QED
    BY <2>1, <2>3, <2>4, NoCircle
<1> QED
  BY <1>1 DEF OnlyKnownDeadlocks, LockInv, OneHolder

\* No row has two holders, and no set of sessions waits in a circle unless one of them is
\* in a call that is known to leave the lock order.
THEOREM NoOtherDeadlock == LOSpec => []OnlyKnownDeadlocks
<1>1. LOSpec => []LockInv
  BY LockInit, LockStep, PTL DEF LOSpec
<1> QED
  BY <1>1, NoOtherCircle, PTL

=============================================================================
