----------------------- MODULE GenerationLifecycleProofs -----------------------
(***************************************************************************)
(* Theorems about GenerationLifecycle, for any set of workers and any      *)
(* bounds on repairs, retries and tasks.                                   *)
(***************************************************************************)
EXTENDS GenerationLifecycle, FiniteSetTheorems, TLAPS

(* What the types of the rows rest on *)

\* The positions at which an invocation works on a particular attempt.
Targeted == PC \ {"idle", "dead", "claimJob", "claimReconciliation", "prepare"}

\* Such an invocation has chosen an attempt, and one that is about to record a
\* retryable rejection, or a failure of the QA service, still has a retry left.
Positions ==
  \A w \in Workers :
    /\ proc[w].pc \in Targeted => proc[w].attempt \in Attempts
    /\ proc[w].pc \in {"reject", "retryQa"} => proc[w].retries < MaxRetries

ProcOK == proc \in [Workers -> ProcRow] /\ Positions

RowsOK ==
  /\ job \in JobRow
  /\ attempt \in [Attempts -> AttemptRow]
  /\ order \in OrderRow
  /\ reservation \in ReservationRow
  /\ consentCase \in CaseStatus

ProviderOK == provider \in [Attempts -> [Tasks -> TaskState]]

TypeInv == RowsOK /\ ProviderOK /\ ProcOK

LEMMA TypeInvIsTypeOK == TypeInv <=> TypeOK /\ Positions
  BY DEF TypeInv, RowsOK, ProviderOK, ProcOK, TypeOK

LEMMA Ranges ==
  /\ 0 \in 0 .. MaxTasks /\ 0 \in 0 .. MaxRetries
  /\ 0 \in 0 .. (MaxRepairs + 1) /\ 0 \in 0 .. MaxRepairs
  /\ 0 \in 0 .. (MaxHistory + 1)
  /\ 1 \in Attempts
  /\ \A a \in Attempts : a \in 0 .. (MaxRepairs + 1)
  /\ \A k \in Tasks : k \in 0 .. MaxTasks
  BY ConstantsAssumption DEF Attempts, Tasks

-----------------------------------------------------------------------------
(* Positions *)

LEMMA AtTyped ==
  ASSUME NEW pc \in PC, NEW a \in 0 .. (MaxRepairs + 1)
  PROVE  /\ At(pc, a) \in ProcRow
         /\ At(pc, a).pc = pc /\ At(pc, a).attempt = a
  BY Ranges DEF At, ProcRow

\* An invocation takes up a new position.
LEMMA MoveTyped ==
  ASSUME ProcOK, NEW w \in Workers, NEW r \in ProcRow,
         r.pc \in Targeted => r.attempt \in Attempts,
         r.pc \in {"reject", "retryQa"} => r.retries < MaxRetries,
         Move(w, r)
  PROVE  ProcOK'
<1>1. proc' \in [Workers -> ProcRow]
  BY DEF ProcOK, Move
<1>2. Positions'
  BY DEF ProcOK, Positions, Move
<1> QED
  BY <1>1, <1>2 DEF ProcOK

LEMMA StartTyped ==
  ASSUME ProcOK, NEW w \in Workers, NEW pc \in PC \ {"reject", "retryQa"},
         NEW a \in 0 .. (MaxRepairs + 1), pc \in Targeted => a \in Attempts,
         Move(w, At(pc, a))
  PROVE  ProcOK'
<1>1. At(pc, a) \in ProcRow /\ At(pc, a).pc = pc /\ At(pc, a).attempt = a
  BY AtTyped
<1> QED
  BY <1>1, MoveTyped

LEMMA FinishTyped ==
  ASSUME ProcOK, NEW w \in Workers, Finish(w)
  PROVE  ProcOK'
<1>1. "idle" \in PC \ {"reject", "retryQa"} /\ "idle" \notin Targeted
  BY DEF PC, Targeted
<1> QED
  BY <1>1, Ranges, StartTyped DEF Finish, Idle

LEMMA GotoReconcileTyped ==
  ASSUME ProcOK, NEW w \in Workers, GotoReconcile(w)
  PROVE  ProcOK'
<1>1. "claimReconciliation" \in PC \ {"reject", "retryQa"} /\ "claimReconciliation" \notin Targeted
  BY DEF PC, Targeted
<1> QED
  BY <1>1, Ranges, StartTyped DEF GotoReconcile

LEMMA GotoTyped ==
  ASSUME ProcOK, NEW w \in Workers, NEW pc \in PC,
         pc \in Targeted => proc[w].attempt \in Attempts,
         pc \in {"reject", "retryQa"} => proc[w].retries < MaxRetries,
         Goto(w, pc)
  PROVE  ProcOK'
<1> DEFINE r == [proc[w] EXCEPT !.pc = pc]
<1>1. proc[w] \in ProcRow
  BY DEF ProcOK
<1>2. r \in ProcRow /\ r.pc = pc /\ r.attempt = proc[w].attempt /\ r.retries = proc[w].retries
  BY <1>1 DEF ProcRow
<1>3. Move(w, r)
  BY DEF Goto
<1> HIDE DEF r
<1> QED
  BY <1>2, <1>3, MoveTyped

-----------------------------------------------------------------------------
(* Rows *)

LEMMA WithAttemptTyped ==
  ASSUME RowsOK, NEW a \in Attempts, NEW r \in AttemptRow
  PROVE  WithAttempt(a, r) \in [Attempts -> AttemptRow]
  BY DEF WithAttempt, RowsOK

LEMMA SubmittedTyped ==
  ASSUME RowsOK, NEW a \in Attempts, NEW k \in 0 .. MaxTasks
  PROVE  Submitted(a, k) \in AttemptRow
<1>1. attempt[a] \in AttemptRow
  BY DEF RowsOK
<1> QED
  BY <1>1, Ranges DEF Submitted, AttemptRow, AttemptStatus

LEMMA JobTyped ==
  ASSUME NEW j \in JobRow
  PROVE  /\ Unleased(j) \in JobRow
         /\ \A w \in Workers : Leased(j, w) \in JobRow
         /\ \A when \in {"none", "later", "due"} : Paused(j, when) \in JobRow
  BY DEF Unleased, Leased, Paused, JobRow, JobStatus

LEMMA RetryMoreTyped ==
  ASSUME NEW n \in 0 .. MaxRetries
  PROVE  RetryMore(n) \in 0 .. MaxRetries
  BY ConstantsAssumption DEF RetryMore

LEMMA ReservationTyped ==
  ASSUME NEW r \in ReservationRow
  PROVE  /\ Captured(r) \in ReservationRow
         /\ Released(r) \in ReservationRow
         /\ \A key \in RefundKeys : Refunded(r, key) \in ReservationRow
  BY DEF Captured, Released, Refunded, ReservationRow

LEMMA FailAndSettleTyped ==
  ASSUME RowsOK, NEW allow \in BOOLEAN, FailAndSettle(allow)
  PROVE  job' \in JobRow /\ order' \in OrderRow /\ reservation' \in ReservationRow
<1>1. Unleased(job) \in JobRow
  BY JobTyped DEF RowsOK
<1>2. job' \in JobRow
  BY <1>1 DEF FailAndSettle, JobRow, JobStatus
<1>3. order' \in OrderRow
  BY DEF FailAndSettle, RowsOK, OrderRow, OrderStatus, SettlementName
<1>4. reservation' \in ReservationRow
  BY ReservationTyped DEF FailAndSettle, Settled, RowsOK, RefundKeys
<1> QED
  BY <1>2, <1>3, <1>4

LEMMA SettleCaseTyped ==
  ASSUME RowsOK, NEW a \in Attempts, SettleCase(a)
  PROVE  RowsOK'
<1>1. Unleased(job) \in JobRow
  BY JobTyped DEF RowsOK
<1>2. job' \in JobRow
  BY <1>1 DEF SettleCase, JobRow, JobStatus
<1>3. order' \in OrderRow
  BY DEF SettleCase, RowsOK, OrderRow, OrderStatus, CaseSettlementName
<1>4. reservation' \in ReservationRow
  BY ReservationTyped DEF SettleCase, CaseMoney, RowsOK, RefundKeys
<1>5. attempt' \in [Attempts -> AttemptRow]
  BY DEF SettleCase, RowsOK, AttemptRow, AttemptStatus
<1>6. consentCase' \in CaseStatus
  BY DEF SettleCase, CaseStatus
<1> QED
  BY <1>2, <1>3, <1>4, <1>5, <1>6 DEF RowsOK

-----------------------------------------------------------------------------
(* Selecting, claiming and submitting *)

LEMMA SelectTyped ==
  ASSUME TypeInv, NEW w \in Workers, Select(w)
  PROVE  TypeInv'
<1>1. RowsOK' /\ ProviderOK'
  BY DEF Select, rows, TypeInv, RowsOK, ProviderOK
<1>pc. /\ {"claimReconciliation", "claimJob", "claimAttempt"} \subseteq PC \ {"reject", "retryQa"}
       /\ "claimReconciliation" \notin Targeted /\ "claimJob" \notin Targeted
  BY DEF PC, Targeted
<1>2. CASE Start(w, "claimReconciliation", 0)
  BY <1>2, <1>1, <1>pc, Ranges, StartTyped DEF Start, TypeInv
<1>3. CASE RepairIsPrepared /\ Start(w, "claimAttempt", job.active)
  <2>1. job.active \in Attempts /\ job.active \in 0 .. (MaxRepairs + 1)
    BY <1>3, ConstantsAssumption DEF RepairIsPrepared, TypeInv, RowsOK, JobRow, Attempts
  <2> QED
    BY <1>3, <1>1, <2>1, <1>pc, StartTyped DEF Start, TypeInv
<1>4. CASE Start(w, "claimJob", 0)
  BY <1>4, <1>1, <1>pc, Ranges, StartTyped DEF Start, TypeInv
<1> QED
  BY <1>2, <1>3, <1>4 DEF Select

LEMMA PersistSubmittedFactTyped ==
  ASSUME TypeInv, NEW w \in Workers, NEW a \in Attempts, NEW k \in 0 .. MaxTasks,
         PersistSubmittedFact(w, a, k)
  PROVE  RowsOK' /\ ProcOK'
<1>1. attempt' \in [Attempts -> AttemptRow]
  <2>1. Submitted(a, k) \in AttemptRow
    BY SubmittedTyped DEF TypeInv
  <2>2. [Submitted(a, k) EXCEPT !.pollOverdue = FALSE] \in AttemptRow
    BY <2>1 DEF AttemptRow
  <2> QED
    BY <2>2, WithAttemptTyped DEF PersistSubmittedFact, TypeInv
<1>2. job' \in JobRow
  BY Ranges DEF PersistSubmittedFact, TypeInv, RowsOK, JobRow
<1>3. ProcOK'
  BY Ranges, StartTyped DEF PersistSubmittedFact, Start, TypeInv, PC
<1> QED
  BY <1>1, <1>2, <1>3 DEF PersistSubmittedFact, TypeInv, RowsOK

LEMMA MarkSubmissionUnknownTyped ==
  ASSUME TypeInv, NEW w \in Workers, NEW a \in Attempts, MarkSubmissionUnknown(w, a)
  PROVE  RowsOK' /\ ProcOK'
<1>1. attempt' \in [Attempts -> AttemptRow]
  BY DEF MarkSubmissionUnknown, TypeInv, RowsOK, AttemptRow, AttemptStatus
<1>2. Unleased(job) \in JobRow /\ job.nextRetry \in {"none", "later", "due"}
  BY JobTyped DEF TypeInv, RowsOK, JobRow
<1>3. job' \in JobRow
  BY <1>2 DEF MarkSubmissionUnknown, JobRow, JobStatus
<1>4. order' \in OrderRow
  BY DEF MarkSubmissionUnknown, TypeInv, RowsOK, OrderRow, OrderStatus
<1>5. ProcOK'
  BY GotoReconcileTyped DEF MarkSubmissionUnknown, TypeInv
<1> QED
  BY <1>1, <1>3, <1>4, <1>5 DEF MarkSubmissionUnknown, TypeInv, RowsOK

LEMMA RecordPreacceptRejectionTyped ==
  ASSUME TypeInv, NEW w \in Workers, NEW a \in Attempts, NEW terminal \in BOOLEAN,
         RecordPreacceptRejection(w, a, terminal),
         proc[w].attempt \in Attempts,
         ~terminal => proc[w].retries < MaxRetries
  PROVE  RowsOK' /\ ProcOK'
<1>row. attempt[a] \in AttemptRow /\ proc[w] \in ProcRow
  BY DEF TypeInv, RowsOK, ProcOK
<1>1. CASE UNCHANGED rows /\ Finish(w)
  BY <1>1, FinishTyped DEF rows, TypeInv, RowsOK
<1>2. CASE /\ ~HistoryIsFull(a) /\ ~terminal
           /\ attempt' = [attempt EXCEPT ![a].rejections = @ + 1]
           /\ \E n \in IF OwnsJob(w) THEN {RetryMore(job.retryCount)} ELSE 1 .. MaxRetries :
                job' = [job EXCEPT !.retryCount = n]
           /\ Move(w, [proc[w] EXCEPT !.pc = "repost", !.retries = @ + 1])
           /\ UNCHANGED <<order, reservation, consentCase>>
  <2>1. attempt[a].rejections + 1 \in 0 .. (MaxHistory + 1)
    BY <1>2, <1>row, ConstantsAssumption DEF HistoryIsFull, AttemptRow
  <2>2. attempt' \in [Attempts -> AttemptRow]
    BY <1>2, <2>1 DEF TypeInv, RowsOK, AttemptRow
  <2>3. job.retryCount \in 0 .. MaxRetries
    BY DEF TypeInv, RowsOK, JobRow
  <2>4. RetryMore(job.retryCount) \in 0 .. MaxRetries
    BY <2>3, RetryMoreTyped
  <2>5. PICK n \in 0 .. MaxRetries : job' = [job EXCEPT !.retryCount = n]
    BY <1>2, <2>4, ConstantsAssumption
  <2>7. job' \in JobRow
    BY <2>5 DEF TypeInv, RowsOK, JobRow
  <2>6. ProcOK'
    <3> DEFINE r == [proc[w] EXCEPT !.pc = "repost", !.retries = @ + 1]
    <3>1. proc[w].retries + 1 \in 0 .. MaxRetries
      BY <1>2, <1>row, ConstantsAssumption DEF ProcRow
    <3>2. r \in ProcRow /\ r.pc = "repost" /\ r.attempt = proc[w].attempt
      BY <3>1, <1>row DEF ProcRow, PC
    <3>3. Move(w, r)
      BY <1>2
    <3> HIDE DEF r
    <3> QED
      BY <3>2, <3>3, MoveTyped DEF TypeInv
  <2> QED
    BY <1>2, <2>2, <2>6, <2>7 DEF TypeInv, RowsOK
<1>3. CASE /\ ~HistoryIsFull(a) /\ terminal
           /\ attempt' = WithAttempt(a, [attempt[a] EXCEPT !.status = "FAILED",
                                                           !.rejections = @ + 1])
           /\ FailAndSettle(a = 1)
           /\ GotoReconcile(w)
           /\ UNCHANGED consentCase
  <2> DEFINE r == [attempt[a] EXCEPT !.status = "FAILED", !.rejections = @ + 1]
  <2>1. attempt[a].rejections + 1 \in 0 .. (MaxHistory + 1)
    BY <1>3, <1>row, ConstantsAssumption DEF HistoryIsFull, AttemptRow
  <2>2. r \in AttemptRow
    BY <2>1, <1>row DEF AttemptRow, AttemptStatus
  <2>3. attempt' \in [Attempts -> AttemptRow]
    BY <1>3, <2>2, WithAttemptTyped DEF TypeInv
  <2>4. (a = 1) \in BOOLEAN
    OBVIOUS
  <2>5. job' \in JobRow /\ order' \in OrderRow /\ reservation' \in ReservationRow
    BY <1>3, <2>4, FailAndSettleTyped DEF TypeInv
  <2>6. ProcOK'
    BY <1>3, GotoReconcileTyped DEF TypeInv
  <2> QED
    BY <1>3, <2>3, <2>5, <2>6 DEF TypeInv, RowsOK
<1> QED
  BY <1>1, <1>2, <1>3 DEF RecordPreacceptRejection

\* EvoLink accepts one more task.
LEMMA AcceptTyped ==
  ASSUME ProviderOK, NEW a \in Attempts, Accept(a)
  PROVE  ProviderOK' /\ FreshTask(a) \in Tasks
<1>1. provider[a] \in [Tasks -> TaskState]
  BY DEF ProviderOK
<1>2. [provider[a] EXCEPT ![FreshTask(a)] = "running"] \in [Tasks -> TaskState]
  BY <1>1 DEF TaskState
<1>3. provider' = [provider EXCEPT ![a] = [provider[a] EXCEPT ![FreshTask(a)] = "running"]]
  BY DEF Accept, ProviderOK
<1> QED
  BY <1>2, <1>3 DEF ProviderOK, Accept

LEMMA SubmissionTyped ==
  ASSUME TypeInv, NEW w \in Workers, Submission(w)
  PROVE  TypeInv'
<1> DEFINE a == proc[w].attempt
<1>types. /\ RowsOK /\ ProviderOK /\ ProcOK
          /\ job \in JobRow /\ order \in OrderRow /\ reservation \in ReservationRow
          /\ proc[w] \in ProcRow /\ proc[w].pc \in PC
          /\ attempt \in [Attempts -> AttemptRow]
          /\ proc[w].pc \in Targeted => a \in Attempts
          /\ a \in 0 .. (MaxRepairs + 1)
  BY DEF TypeInv, RowsOK, ProcOK, Positions, ProcRow
<1>pcs. /\ {"boundary", "claimAttempt", "post", "persist", "unknown", "reject",
             "rejectTerminal", "repost", "capture", "pause"} \subseteq Targeted
        /\ Targeted \subseteq PC
        /\ "prepare" \in PC \ (Targeted \cup {"reject", "retryQa"})
  BY DEF Targeted, PC
<1>keeps. ASSUME UNCHANGED <<rows, provider>>, ProcOK'
          PROVE  TypeInv'
  BY <1>keeps, <1>types DEF TypeInv, RowsOK, ProviderOK, rows
<1>1. CASE ClaimRefused(w)
  BY <1>1, <1>types, <1>keeps, FinishTyped DEF ClaimRefused
<1>2. CASE ClaimRouted(w)
  <2>1. Unleased(job) \in JobRow
    BY <1>types, JobTyped
  <2>2. job' \in JobRow
    BY <1>2, <2>1 DEF ClaimRouted, JobRow, JobStatus
  <2>3. ProcOK'
    BY <1>2, <1>types, GotoReconcileTyped DEF ClaimRouted
  <2> QED
    BY <1>2, <1>types, <2>2, <2>3 DEF ClaimRouted, TypeInv, RowsOK, ProviderOK
<1>3. CASE ClaimGranted(w)
  <2>1. job' \in JobRow
    BY <1>3, <1>types, JobTyped DEF ClaimGranted
  <2>2. ProcOK'
    <3>1. CASE proc[w].pc = "claimJob"
      BY <1>3, <3>1, <1>types, <1>pcs, GotoTyped DEF ClaimGranted
    <3>2. CASE proc[w].pc = "claimAttempt"
      BY <1>3, <3>2, <1>types, <1>pcs, GotoTyped DEF ClaimGranted
    <3> QED
      BY <1>3, <3>1, <3>2 DEF ClaimGranted
  <2> QED
    BY <1>3, <1>types, <2>1, <2>2 DEF ClaimGranted, TypeInv, RowsOK, ProviderOK
<1>4. CASE PrepareInitial(w)
  <2>1. Prepared \in AttemptRow
    BY Ranges DEF Prepared, AttemptRow, AttemptStatus
  <2>2. attempt' \in [Attempts -> AttemptRow]
    BY <1>4, <1>types, <2>1, Ranges DEF PrepareInitial
  <2>3. 1 \in 0 .. (MaxRepairs + 1)
    BY Ranges
  <2>4. job' \in JobRow
    BY <1>4, <1>types, <2>3 DEF PrepareInitial, JobRow
  <2>5. ProcOK'
    <3>1. CASE Start(w, "boundary", 1)
      BY <3>1, <1>types, <1>pcs, <2>3, Ranges, StartTyped DEF Start
    <3>2. CASE Finish(w)
      BY <3>2, <1>types, FinishTyped
    <3> QED
      BY <1>4, <3>1, <3>2 DEF PrepareInitial
  <2> QED
    BY <1>4, <1>types, <2>2, <2>4, <2>5 DEF PrepareInitial, TypeInv, RowsOK, ProviderOK
<1>5. CASE CommitBoundary(w)
  <2> DEFINE r == [attempt[a] EXCEPT !.status = "SUBMITTING",
                                     !.rejections = IF a = 1 THEN 0 ELSE @]
  <2>1. a \in Attempts /\ attempt[a] \in AttemptRow
    BY <1>5, <1>types, <1>pcs DEF CommitBoundary
  <2>2. r \in AttemptRow
    BY <2>1, Ranges DEF AttemptRow, AttemptStatus
  <2>3. attempt' \in [Attempts -> AttemptRow]
    BY <1>5, <1>types, <2>1, <2>2, WithAttemptTyped DEF CommitBoundary
  <2>4. order' \in OrderRow
    BY <1>5, <1>types DEF CommitBoundary, OrderRow, OrderStatus
  <2>5. ProcOK'
    BY <1>5, <1>types, <1>pcs, <2>1, GotoTyped DEF CommitBoundary
  <2> QED
    BY <1>5, <1>types, <2>3, <2>4, <2>5 DEF CommitBoundary, TypeInv, RowsOK, ProviderOK
<1>6. CASE BoundaryRefused(w)
  BY <1>6, <1>types, <1>keeps, FinishTyped DEF BoundaryRefused
<1>7. CASE PostAccepted(w)
  <2> DEFINE r == [proc[w] EXCEPT !.pc = "persist", !.task = FreshTask(a)]
  <2>1. a \in Attempts
    BY <1>7, <1>types, <1>pcs DEF PostAccepted
  <2>2. ProviderOK' /\ FreshTask(a) \in 0 .. MaxTasks
    BY <1>7, <1>types, <2>1, AcceptTyped, Ranges DEF PostAccepted
  <2>3. r \in ProcRow /\ r.pc = "persist" /\ r.attempt = a
    BY <1>types, <1>pcs, <2>2 DEF ProcRow
  <2>4. Move(w, r)
    BY <1>7 DEF PostAccepted
  <2> HIDE DEF r
  <2>5. ProcOK'
    BY <1>types, <2>1, <2>3, <2>4, MoveTyped
  <2> QED
    BY <1>7, <1>types, <2>2, <2>5 DEF PostAccepted, TypeInv, RowsOK, rows
<1>8. CASE PostAmbiguous(w)
  <2>1. a \in Attempts
    BY <1>8, <1>types, <1>pcs DEF PostAmbiguous
  <2>2. ProviderOK'
    BY <1>8, <1>types, <2>1, AcceptTyped DEF PostAmbiguous, ProviderOK
  <2>3. ProcOK'
    BY <1>8, <1>types, <1>pcs, <2>1, GotoTyped DEF PostAmbiguous
  <2> QED
    BY <1>8, <1>types, <2>2, <2>3 DEF PostAmbiguous, TypeInv, RowsOK, rows
<1>9. CASE PostRejected(w)
  <2>1. a \in Attempts
    BY <1>9, <1>types, <1>pcs DEF PostRejected
  <2>2. PICK retryable \in BOOLEAN :
          Goto(w, IF IsTerminal(w, retryable) THEN "rejectTerminal" ELSE "reject")
    BY <1>9 DEF PostRejected
  <2>3. CASE IsTerminal(w, retryable)
    BY <1>9, <1>types, <1>keeps, <1>pcs, <2>1, <2>2, <2>3, GotoTyped DEF PostRejected
  <2>4. CASE ~IsTerminal(w, retryable)
    <3>1. proc[w].retries < MaxRetries
      BY <2>4, <1>types, ConstantsAssumption DEF IsTerminal, ProcRow
    <3> QED
      BY <1>9, <1>types, <1>keeps, <1>pcs, <2>1, <2>2, <2>4, <3>1, GotoTyped DEF PostRejected
  <2> QED
    BY <2>3, <2>4
<1>10. CASE RecordAcceptance(w)
  <2>1. a \in Attempts /\ proc[w].task \in 0 .. MaxTasks
    BY <1>10, <1>types, <1>pcs DEF RecordAcceptance, ProcRow
  <2> QED
    BY <1>10, <1>types, <2>1, PersistSubmittedFactTyped DEF RecordAcceptance, TypeInv, ProviderOK
<1>11. CASE RecordUnknown(w)
  <2>1. a \in Attempts
    BY <1>11, <1>types, <1>pcs DEF RecordUnknown
  <2> QED
    BY <1>11, <1>types, <2>1, MarkSubmissionUnknownTyped DEF RecordUnknown, TypeInv, ProviderOK
<1>12. CASE RecordRejection(w)
  <2>1. a \in Attempts
    BY <1>12, <1>types, <1>pcs DEF RecordRejection
  <2>2. proc[w].pc = "reject" => proc[w].retries < MaxRetries
    BY DEF TypeInv, ProcOK, Positions
  <2> QED
    BY <1>12, <1>types, <2>1, <2>2, RecordPreacceptRejectionTyped
       DEF RecordRejection, TypeInv, ProviderOK
<1>13. CASE Repost(w)
  <2>1. a \in Attempts
    BY <1>13, <1>types, <1>pcs DEF Repost
  <2>2. CASE /\ Accept(a)
             /\ PersistSubmittedFact(w, a, FreshTask(a))
    <3>1. ProviderOK' /\ FreshTask(a) \in 0 .. MaxTasks
      BY <2>1, <2>2, <1>types, AcceptTyped, Ranges
    <3> QED
      BY <2>1, <2>2, <3>1, PersistSubmittedFactTyped DEF TypeInv
  <2>3. CASE /\ Accept(a) \/ UNCHANGED provider
             /\ MarkSubmissionUnknown(w, a)
    <3>1. ProviderOK'
      BY <2>1, <2>3, <1>types, AcceptTyped DEF ProviderOK
    <3> QED
      BY <2>1, <2>3, <3>1, MarkSubmissionUnknownTyped DEF TypeInv
  <2>4. CASE /\ \E retryable \in BOOLEAN :
                  RecordPreacceptRejection(w, a, IsTerminal(w, retryable))
             /\ UNCHANGED provider
    <3>1. PICK retryable \in BOOLEAN :
            RecordPreacceptRejection(w, a, IsTerminal(w, retryable))
      BY <2>4
    <3>2. IsTerminal(w, retryable) \in BOOLEAN
      BY DEF IsTerminal
    <3>3. ~IsTerminal(w, retryable) => proc[w].retries < MaxRetries
      BY <1>types, ConstantsAssumption DEF IsTerminal, ProcRow
    <3> QED
      BY <2>1, <2>4, <3>1, <3>2, <3>3, <1>types, RecordPreacceptRejectionTyped
         DEF TypeInv, ProviderOK
  <2>5. CASE Accept(a) /\ Finish(w) /\ UNCHANGED rows
    BY <2>1, <2>5, <1>types, AcceptTyped, FinishTyped DEF TypeInv, RowsOK, rows
  <2> QED
    BY <1>13, <2>2, <2>3, <2>4, <2>5 DEF Repost
<1>14. CASE CaptureSubmission(w)
  <2>1. a \in Attempts
    BY <1>14, <1>types, <1>pcs DEF CaptureSubmission
  <2>2. attempt' \in [Attempts -> AttemptRow]
    BY <1>14, <1>types, Ranges DEF CaptureSubmission, AttemptRow
  <2>3. reservation' \in ReservationRow
    BY <1>14, <1>types, ReservationTyped DEF CaptureSubmission
  <2>4. ProcOK'
    BY <1>14, <2>1, <1>types, <1>pcs, GotoTyped DEF CaptureSubmission
  <2> QED
    BY <1>14, <1>types, <2>2, <2>3, <2>4 DEF CaptureSubmission, TypeInv, RowsOK, ProviderOK
<1>15. CASE PauseSubmitted(w)
  <2>1. job' \in JobRow
    BY <1>15, <1>types, JobTyped DEF PauseSubmitted
  <2>2. ProcOK'
    BY <1>15, <1>types, GotoReconcileTyped DEF PauseSubmitted
  <2> QED
    BY <1>15, <1>types, <2>1, <2>2 DEF PauseSubmitted, TypeInv, RowsOK, ProviderOK
<1> QED
  BY <1>1, <1>2, <1>3, <1>4, <1>5, <1>6, <1>7, <1>8, <1>9, <1>10, <1>11, <1>12, <1>13,
     <1>14, <1>15 DEF Submission

-----------------------------------------------------------------------------
(* Reconciliation *)

LEMMA ActiveTyped ==
  ASSUME RowsOK
  PROVE  /\ job.active # 0 => job.active \in Attempts
         /\ ActiveStatus # "NONE" => job.active \in Attempts
  BY ConstantsAssumption DEF RowsOK, JobRow, Attempts, ActiveStatus

LEMMA RetryLaterTyped ==
  ASSUME RowsOK, RetryLater
  PROVE  job' \in JobRow
<1>1. Paused(job, "later") \in JobRow /\ job.retryCount \in 0 .. MaxRetries
      /\ Paused(job, "later").retryCount = job.retryCount
  BY JobTyped DEF RowsOK, JobRow, Paused, Unleased
<1>2. RetryMore(job.retryCount) \in 0 .. MaxRetries
  BY <1>1, RetryMoreTyped
<1> QED
  BY <1>1, <1>2 DEF RetryLater, JobRow

LEMMA AccountedTyped ==
  ASSUME RowsOK, NEW a \in Attempts, Accounted(a)
  PROVE  attempt' \in [Attempts -> AttemptRow] /\ reservation' \in ReservationRow
<1>1. attempt' \in [Attempts -> AttemptRow]
  BY Ranges DEF Accounted, RowsOK, AttemptRow, AttemptStatus
<1>2. reservation' \in ReservationRow
  BY ReservationTyped DEF Accounted, RowsOK
<1> QED
  BY <1>1, <1>2

LEMMA ReconciliationTyped ==
  ASSUME TypeInv, NEW w \in Workers, Reconciliation(w)
  PROVE  TypeInv'
<1> DEFINE a == proc[w].attempt
<1>types. /\ RowsOK /\ ProviderOK /\ ProcOK
          /\ job \in JobRow /\ order \in OrderRow /\ reservation \in ReservationRow
          /\ consentCase \in CaseStatus
          /\ proc[w] \in ProcRow /\ proc[w].pc \in PC
          /\ attempt \in [Attempts -> AttemptRow]
          /\ proc[w].pc \in Targeted => a \in Attempts
  BY DEF TypeInv, RowsOK, ProcOK, Positions, ProcRow
<1>pcs. /\ {"load", "query", "polled", "answered", "store", "qa", "evaluate", "decide", "deliver"}
             \subseteq Targeted \ {"reject", "retryQa"}
        /\ Targeted \subseteq PC /\ "retryQa" \in Targeted
  BY DEF Targeted, PC
<1>finish. Finish(w) => ProcOK'
  BY <1>types, FinishTyped
<1>goto. ASSUME NEW pc \in Targeted \ {"reject", "retryQa"}, Goto(w, pc), a \in Attempts
         PROVE  ProcOK'
  BY <1>goto, <1>types, <1>pcs, GotoTyped
<1>keeps. ASSUME UNCHANGED <<rows, provider>>, ProcOK'
          PROVE  TypeInv'
  BY <1>keeps, <1>types DEF TypeInv, RowsOK, ProviderOK, rows
<1>settles. ASSUME NEW b \in Attempts, SettleCase(b), Finish(w), UNCHANGED provider
            PROVE  TypeInv'
  BY <1>settles, <1>types, <1>finish, SettleCaseTyped DEF TypeInv, ProviderOK
<1>1. CASE ReconciliationRefused(w)
  BY <1>1, <1>finish, <1>keeps DEF ReconciliationRefused
<1>2. CASE ReconciliationGranted(w)
  <2>1. job.active \in Attempts
    BY <1>2, <1>types, ActiveTyped DEF ReconciliationGranted, Unsafe
  <2>2. Leased(job, w) \in JobRow
    BY <1>types, JobTyped
  <2>3. job' \in JobRow
    BY <1>2, <2>2 DEF ReconciliationGranted, JobRow
  <2>4. attempt' \in [Attempts -> AttemptRow] /\ order' \in OrderRow
    BY <1>2, <1>types
       DEF ReconciliationGranted, SubmittingIsUnknown, AttemptRow, AttemptStatus,
           OrderRow, OrderStatus
  <2>5. ProcOK'
    BY <1>2, <1>types, <1>pcs, <2>1, Ranges, StartTyped DEF ReconciliationGranted, Start
  <2> QED
    BY <1>2, <1>types, <2>3, <2>4, <2>5 DEF ReconciliationGranted, TypeInv, RowsOK, ProviderOK
<1>3. CASE AccountForSubmission(w)
  <2>1. a \in Attempts
    BY <1>3, <1>types, <1>pcs DEF AccountForSubmission
  <2>2. attempt' \in [Attempts -> AttemptRow] /\ reservation' \in ReservationRow
    BY <1>3, <1>types, <2>1, AccountedTyped DEF AccountForSubmission
  <2>4. ProcOK'
    BY <1>3, <2>1, <1>pcs, <1>goto DEF AccountForSubmission
  <2> QED
    BY <1>3, <1>types, <2>2, <2>4 DEF AccountForSubmission, TypeInv, RowsOK, ProviderOK
<1>4. CASE PauseForOperator(w)
  <2>1. job' \in JobRow
    BY <1>4, <1>types, JobTyped DEF PauseForOperator
  <2> QED
    BY <1>4, <1>types, <1>finish, <2>1 DEF PauseForOperator, TypeInv, RowsOK, ProviderOK
<1>5. CASE ResumeAtQa(w)
  BY <1>5, <1>types, <1>pcs, <1>goto, <1>keeps DEF ResumeAtQa
<1>6. CASE LoadRefused(w)
  BY <1>6, <1>finish, <1>keeps DEF LoadRefused
<1>7. CASE QueryPending(w)
  <2>1. job' \in JobRow /\ order' \in OrderRow /\ reservation' \in ReservationRow
    <3>1. CASE FailAndSettle(FALSE)
      BY <3>1, <1>types, FailAndSettleTyped
    <3>2. CASE RetryLater /\ UNCHANGED <<reservation, order>>
      BY <3>2, <1>types, RetryLaterTyped
    <3>3. CASE job' = Paused(job, "later") /\ UNCHANGED <<reservation, order>>
      BY <3>3, <1>types, JobTyped
    <3> QED
      BY <1>7, <3>1, <3>2, <3>3 DEF QueryPending
  <2> QED
    BY <1>7, <1>types, <1>finish, <2>1 DEF QueryPending, TypeInv, RowsOK, ProviderOK
<1>8. CASE QueryFailed(w)
  <2>1. a \in Attempts
    BY <1>8, <1>types, <1>pcs DEF QueryFailed, MayQuery, MayQueryUnknown
  <2>2. CASE SettleCase(a)
    BY <1>8, <2>1, <2>2, <1>settles DEF QueryFailed
  <2>3. CASE /\ attempt' = [attempt EXCEPT ![a].status = "FAILED"]
             /\ FailAndSettle(MayQueryUnknown(w))
             /\ UNCHANGED consentCase
    <3>0. MayQueryUnknown(w) \in BOOLEAN
      BY DEF MayQueryUnknown
    <3>1. attempt' \in [Attempts -> AttemptRow]
      BY <2>3, <1>types DEF AttemptRow, AttemptStatus
    <3>2. job' \in JobRow /\ order' \in OrderRow /\ reservation' \in ReservationRow
      BY <2>3, <3>0, <1>types, FailAndSettleTyped
    <3> QED
      BY <1>8, <2>3, <1>types, <1>finish, <3>1, <3>2
         DEF QueryFailed, TypeInv, RowsOK, ProviderOK
  <2> QED
    BY <1>8, <2>2, <2>3 DEF QueryFailed
<1>9. CASE QuerySucceeded(w)
  <2>1. a \in Attempts
    BY <1>9, <1>types, <1>pcs DEF QuerySucceeded, MayQuery
  <2>2. CASE SettleCase(a) /\ Finish(w)
    BY <1>9, <2>1, <2>2, <1>settles DEF QuerySucceeded
  <2>3. CASE Goto(w, "store") /\ UNCHANGED rows
    BY <1>9, <2>1, <2>3, <1>pcs, <1>goto, <1>keeps DEF QuerySucceeded
  <2> QED
    BY <1>9, <2>2, <2>3 DEF QuerySucceeded
<1>10. CASE QueryAnswered(w)
  <2>1. a \in Attempts
    BY <1>10, <1>types, <1>pcs DEF QueryAnswered, MayQueryUnknown
  <2>2. attempt' \in [Attempts -> AttemptRow] /\ reservation' \in ReservationRow
    BY <1>10, <1>types, <2>1, AccountedTyped DEF QueryAnswered
  <2>3. ProcOK'
    BY <1>10, <2>1, <1>pcs, <1>goto DEF QueryAnswered
  <2> QED
    BY <1>10, <1>types, <2>2, <2>3 DEF QueryAnswered, TypeInv, RowsOK, ProviderOK
<1>23. CASE QueryRaises(w)
  BY <1>23, <1>finish, <1>keeps DEF QueryRaises
<1>24. CASE PolledAgain(w)
  <2>1. job' \in JobRow /\ order' \in OrderRow /\ reservation' \in ReservationRow
    <3>1. CASE FailAndSettle(FALSE)
      BY <3>1, <1>types, FailAndSettleTyped
    <3>2. CASE job' = Paused(job, "later") /\ UNCHANGED <<reservation, order>>
      BY <3>2, <1>types, JobTyped
    <3> QED
      BY <1>24, <3>1, <3>2 DEF PolledAgain
  <2> QED
    BY <1>24, <1>types, <1>finish, <2>1 DEF PolledAgain, TypeInv, RowsOK, ProviderOK
<1>25. CASE AnswerUsed(w)
  <2>1. a \in Attempts
    BY <1>25, <1>types, <1>pcs DEF AnswerUsed
  <2>2. CASE SettleCase(a) /\ Finish(w)
    BY <1>25, <2>1, <2>2, <1>settles DEF AnswerUsed
  <2>3. CASE Goto(w, "store") /\ UNCHANGED rows
    BY <1>25, <2>1, <2>3, <1>pcs, <1>goto, <1>keeps DEF AnswerUsed
  <2> QED
    BY <1>25, <2>2, <2>3 DEF AnswerUsed
<1>11. CASE StoreCandidate(w)
  <2>1. a \in Attempts
    BY <1>11, <1>types, <1>pcs DEF StoreCandidate
  <2>2. attempt' \in [Attempts -> AttemptRow]
    <3>1. attempt' = [attempt EXCEPT ![a].status = "FINISHED"]
      BY <1>11 DEF StoreCandidate
    <3>2. [attempt[a] EXCEPT !.status = "FINISHED"] \in AttemptRow
      BY <2>1, <1>types DEF AttemptRow, AttemptStatus
    <3> QED
      BY <3>1, <3>2, <2>1, <1>types
  <2>3. order' \in OrderRow
    BY <1>11, <1>types DEF StoreCandidate, OrderRow, OrderStatus
  <2>4. ProcOK'
    BY <1>11, <2>1, <1>pcs, <1>goto DEF StoreCandidate
  <2> QED
    BY <1>11, <1>types, <2>2, <2>3, <2>4 DEF StoreCandidate, TypeInv, RowsOK, ProviderOK
<1>12. CASE StoreFails(w)
  BY <1>12, <1>finish, <1>keeps DEF StoreFails
<1>13. CASE BeginQa(w)
  <2>1. a \in Attempts
    BY <1>13, <1>types, <1>pcs DEF BeginQa
  <2>2. CASE SettleCase(a) /\ Finish(w)
    BY <1>13, <2>1, <2>2, <1>settles DEF BeginQa
  <2>3. CASE /\ Move(w, [proc[w] EXCEPT !.pc = "evaluate", !.retries = job.retryCount])
             /\ UNCHANGED rows
    <3> DEFINE r == [proc[w] EXCEPT !.pc = "evaluate", !.retries = job.retryCount]
    <3>1. job.retryCount \in 0 .. MaxRetries
      BY <1>types DEF JobRow
    <3>2. r \in ProcRow /\ r.pc = "evaluate" /\ r.attempt = a
      BY <3>1, <1>types, <1>pcs DEF ProcRow
    <3>3. Move(w, r)
      BY <2>3
    <3> HIDE DEF r
    <3>4. ProcOK'
      BY <1>types, <2>1, <3>2, <3>3, MoveTyped
    <3> QED
      BY <1>13, <2>3, <3>4, <1>keeps DEF BeginQa
  <2> QED
    BY <1>13, <2>2, <2>3 DEF BeginQa
<1>14. CASE PersistVerdict(w)
  <2>1. a \in Attempts
    BY <1>14, <1>types, <1>pcs DEF PersistVerdict, MayEvaluate
  <2>2. attempt' \in [Attempts -> AttemptRow]
    BY <1>14, <1>types DEF PersistVerdict, AttemptRow
  <2>3. ProcOK'
    BY <1>14, <2>1, <1>pcs, <1>goto DEF PersistVerdict
  <2> QED
    BY <1>14, <1>types, <2>2, <2>3 DEF PersistVerdict, TypeInv, RowsOK, ProviderOK
<1>15. CASE QaInfrastructureFails(w)
  <2>1. a \in Attempts
    BY <1>15, <1>types, <1>pcs DEF QaInfrastructureFails, MayEvaluate
  <2> QED
    BY <1>15, <1>types, <1>pcs, <1>keeps, <2>1, GotoTyped DEF QaInfrastructureFails
<1>26. CASE RetryQa(w)
  <2>1. proc[w].retries + 1 \in 0 .. MaxRetries
    BY <1>26, <1>types, ConstantsAssumption DEF RetryQa, ProcOK, Positions, ProcRow
  <2>2. Paused(job, "later") \in JobRow
    BY <1>types, JobTyped
  <2>3. job' \in JobRow
    BY <1>26, <2>1, <2>2 DEF RetryQa, JobRow
  <2> QED
    BY <1>26, <1>types, <1>finish, <2>3 DEF RetryQa, TypeInv, RowsOK, ProviderOK
<1>16. CASE EvaluateRefused(w)
  BY <1>16, <1>finish, <1>keeps DEF EvaluateRefused
<1>17. CASE SettleInsteadOfDecision(w)
  <2>1. a \in Attempts
    BY <1>17, <1>types, <1>pcs DEF SettleInsteadOfDecision
  <2> QED
    BY <1>17, <2>1, <1>settles DEF SettleInsteadOfDecision
<1>18. CASE DecidePass(w)
  BY <1>18, <1>types, <1>pcs, <1>goto, <1>keeps DEF DecidePass
<1>19. CASE DecideRepair(w)
  <2>1. job.repairCount \in Nat /\ job.repairCount < MaxRepairs
    BY <1>19, <1>types, ConstantsAssumption DEF DecideRepair, MayRepair, JobRow
  <2>2. /\ job.repairCount + 2 \in 0 .. (MaxRepairs + 1)
        /\ job.repairCount + 1 \in 0 .. MaxRepairs
    BY <2>1, ConstantsAssumption
  <2>3. Prepared \in AttemptRow
    BY Ranges DEF Prepared, AttemptRow, AttemptStatus
  <2>4. attempt' \in [Attempts -> AttemptRow]
    BY <1>19, <1>types, <2>3 DEF DecideRepair
  <2>5. Unleased(job) \in JobRow /\ Unleased(job).repairCount = job.repairCount
    BY <1>types, JobTyped DEF Unleased, JobRow
  <2>6. job' \in JobRow
    BY <1>19, <2>2, <2>5 DEF DecideRepair, JobRow
  <2>7. order' \in OrderRow
    BY <1>19, <1>types DEF DecideRepair, OrderRow, OrderStatus
  <2> QED
    BY <1>19, <1>types, <1>finish, <2>4, <2>6, <2>7
       DEF DecideRepair, TypeInv, RowsOK, ProviderOK
<1>20. CASE DecideFail(w)
  BY <1>20, <1>types, <1>finish, FailAndSettleTyped DEF DecideFail, TypeInv, RowsOK, ProviderOK
<1>21. CASE Deliver(w)
  <2>1. order' \in OrderRow
    BY <1>21, <1>types DEF Deliver, OrderRow, OrderStatus
  <2>2. Unleased(job) \in JobRow
    BY <1>types, JobTyped
  <2>3. job' \in JobRow
    BY <1>21, <2>2 DEF Deliver, JobRow, JobStatus
  <2> QED
    BY <1>21, <1>types, <1>finish, <2>1, <2>3 DEF Deliver, TypeInv, RowsOK, ProviderOK
<1>22. CASE DeliveryFails(w)
  <2>1. job' \in JobRow /\ order' \in OrderRow /\ reservation' \in ReservationRow
    <3>1. CASE FailAndSettle(FALSE)
      BY <3>1, <1>types, FailAndSettleTyped
    <3>2. CASE RetryLater /\ UNCHANGED <<order, reservation>>
      BY <3>2, <1>types, RetryLaterTyped
    <3>3. CASE UNCHANGED <<job, order, reservation>>
      BY <3>3, <1>types
    <3> QED
      BY <1>22, <3>1, <3>2, <3>3 DEF DeliveryFails
  <2> QED
    BY <1>22, <1>types, <1>finish, <2>1 DEF DeliveryFails, TypeInv, RowsOK, ProviderOK
<1> QED
  BY <1>1, <1>2, <1>3, <1>4, <1>5, <1>6, <1>7, <1>8, <1>9, <1>10, <1>11, <1>12, <1>13,
     <1>14, <1>15, <1>16, <1>17, <1>18, <1>19, <1>20, <1>21, <1>22, <1>23, <1>24, <1>25,
     <1>26 DEF Reconciliation

-----------------------------------------------------------------------------
(* Everything outside the invocations *)

LEMMA TimeTyped ==
  ASSUME TypeInv,
         \/ LeaseExpires \/ RetryFallsDue \/ ReservationTimesOut
         \/ \E a \in Attempts : PollDeadlinePasses(a)
  PROVE  TypeInv'
<1>1. CASE LeaseExpires \/ RetryFallsDue
  <2>1. job' \in JobRow
    BY <1>1 DEF LeaseExpires, RetryFallsDue, TypeInv, RowsOK, JobRow
  <2> QED
    BY <1>1, <2>1 DEF LeaseExpires, RetryFallsDue, TypeInv, RowsOK, ProviderOK, ProcOK, Positions
<1>2. CASE ReservationTimesOut
  BY <1>2 DEF ReservationTimesOut, TypeInv, RowsOK, ReservationRow, ProviderOK, ProcOK, Positions
<1>3. ASSUME NEW a \in Attempts, PollDeadlinePasses(a)
      PROVE  TypeInv'
  <2>1. attempt' \in [Attempts -> AttemptRow]
    BY <1>3 DEF PollDeadlinePasses, TypeInv, RowsOK, AttemptRow
  <2> QED
    BY <1>3, <2>1 DEF PollDeadlinePasses, TypeInv, RowsOK, ProviderOK, ProcOK, Positions
<1> QED
  BY <1>1, <1>2, <1>3

LEMMA CrashTyped ==
  ASSUME TypeInv, NEW w \in Workers, Crash(w) \/ Restart(w) \/ LostFence(w)
  PROVE  TypeInv'
<1>1. RowsOK' /\ ProviderOK' /\ ProcOK
  BY DEF Crash, Restart, LostFence, rows, TypeInv, RowsOK, ProviderOK
<1>2. CASE Start(w, "dead", 0)
  <2>1. "dead" \in PC \ {"reject", "retryQa"} /\ "dead" \notin Targeted
    BY DEF PC, Targeted
  <2> QED
    BY <1>1, <1>2, <2>1, Ranges, StartTyped DEF Start, TypeInv
<1>3. CASE Finish(w)
  BY <1>1, <1>3, FinishTyped DEF TypeInv
<1> QED
  BY <1>2, <1>3 DEF Crash, Restart, LostFence

LEMMA ProviderTyped ==
  ASSUME TypeInv, NEW a \in Attempts, NEW k \in Tasks, TaskEnds(a, k) \/ Callback(a, k)
  PROVE  TypeInv'
<1>1. CASE TaskEnds(a, k)
  <2>1. PICK outcome \in TaskOutcomes :
          provider' = [provider EXCEPT ![a][k] = outcome]
    BY <1>1 DEF TaskEnds
  <2>2. [provider[a] EXCEPT ![k] = outcome] \in [Tasks -> TaskState]
    BY DEF TypeInv, ProviderOK, TaskState
  <2>3. provider' = [provider EXCEPT ![a] = [provider[a] EXCEPT ![k] = outcome]]
    BY <2>1 DEF TypeInv, ProviderOK
  <2>4. ProviderOK'
    BY <2>2, <2>3 DEF TypeInv, ProviderOK
  <2> QED
    BY <1>1, <2>4 DEF TaskEnds, rows, TypeInv, RowsOK, ProcOK, Positions
<1>2. CASE Callback(a, k)
  <2>1. attempt[a] \in AttemptRow /\ k \in 0 .. MaxTasks
    BY Ranges DEF TypeInv, RowsOK
  <2>2. [attempt[a] EXCEPT !.providerJob = k] \in AttemptRow
    BY <2>1 DEF AttemptRow
  <2>3. Submitted(a, k) \in AttemptRow
    BY <2>1, SubmittedTyped DEF TypeInv
  <2>4. attempt' \in [Attempts -> AttemptRow]
    BY <1>2, <2>2, <2>3, WithAttemptTyped DEF Callback, TypeInv
  <2>5. Paused(job, "due") \in JobRow /\ [job EXCEPT !.nextRetry = "due"] \in JobRow
    BY JobTyped DEF TypeInv, RowsOK, JobRow
  <2>6. job' \in JobRow
    BY <1>2, <2>5 DEF Callback
  <2> QED
    BY <1>2, <2>4, <2>6 DEF Callback, TypeInv, RowsOK, ProviderOK, ProcOK, Positions
<1> QED
  BY <1>1, <1>2

LEMMA OperatorTyped ==
  ASSUME TypeInv, Operator
  PROVE  TypeInv'
<1> DEFINE a == job.active
<1>types. /\ RowsOK /\ job \in JobRow /\ order \in OrderRow /\ reservation \in ReservationRow
          /\ attempt \in [Attempts -> AttemptRow]
  BY DEF TypeInv, RowsOK
<1>active. a \in Attempts /\ attempt[a] \in AttemptRow
  <2>1. ActiveStatus = "UNKNOWN"
    BY DEF Operator, ResolveBind, ResolveFail, ManualCaseResolvable, ManualCase
  <2> QED
    BY <2>1, <1>types, ActiveTyped
<1>1. CASE ResolveBind
  <2>1. PICK k \in AcceptedTasks(a) : attempt' = WithAttempt(a, Submitted(a, k))
    BY <1>1 DEF ResolveBind
  <2>2. k \in 0 .. MaxTasks
    BY Ranges DEF AcceptedTasks
  <2>3. attempt' \in [Attempts -> AttemptRow]
    BY <2>1, <2>2, <1>types, <1>active, SubmittedTyped, WithAttemptTyped
  <2>4. job' \in JobRow
    BY <1>1, <1>types DEF ResolveBind, JobRow
  <2>5. order' \in OrderRow
    BY <1>1, <1>types DEF ResolveBind, OrderRow, OrderStatus
  <2> QED
    BY <1>1, <2>3, <2>4, <2>5 DEF ResolveBind, TypeInv, RowsOK, ProviderOK, ProcOK, Positions
<1>2. CASE ResolveFail
  <2>1. attempt' \in [Attempts -> AttemptRow]
    BY <1>2, <1>types, <1>active DEF ResolveFail, AttemptRow, AttemptStatus
  <2>2. reservation' \in ReservationRow
    BY <1>2, <1>types, ReservationTyped DEF ResolveFail, Settled, RefundKeys
  <2>3. order' \in OrderRow
    BY <1>2, <1>types DEF ResolveFail, SettlementName, OrderRow, OrderStatus
  <2>4. job' \in JobRow
    BY <1>2, <1>types DEF ResolveFail, JobRow, JobStatus
  <2> QED
    BY <1>2, <2>1, <2>2, <2>3, <2>4
       DEF ResolveFail, TypeInv, RowsOK, ProviderOK, ProcOK, Positions
<1> QED
  BY <1>1, <1>2 DEF Operator

LEMMA CustomerTyped ==
  ASSUME TypeInv, Withdraw \/ Download
  PROVE  TypeInv'
<1>types. /\ job \in JobRow /\ order \in OrderRow /\ reservation \in ReservationRow
  BY DEF TypeInv, RowsOK
<1>1. CASE Withdraw
  <2>1. reservation' \in ReservationRow
    BY <1>1, <1>types, ReservationTyped DEF Withdraw, RefundKeys
  <2>2. job' \in JobRow
    BY <1>1, <1>types DEF Withdraw, JobRow, JobStatus
  <2>3. order' \in OrderRow
    BY <1>1, <1>types DEF Withdraw, OrderRow, OrderStatus
  <2> QED
    BY <1>1, <2>1, <2>2, <2>3
       DEF Withdraw, CaseStatus, TypeInv, RowsOK, ProviderOK, ProcOK, Positions
<1>2. CASE Download
  <2>1. order' \in OrderRow
    BY <1>2, <1>types DEF Download, OrderRow, DownloadRoles
  <2> QED
    BY <1>2, <2>1 DEF Download, TypeInv, RowsOK, ProviderOK, ProcOK, Positions
<1> QED
  BY <1>1, <1>2

-----------------------------------------------------------------------------

LEMMA InitTyped == Init => TypeInv
<1> SUFFICES ASSUME Init
             PROVE  TypeInv
  OBVIOUS
<1>1. job \in JobRow /\ order \in OrderRow /\ reservation \in ReservationRow
  BY Ranges, ConstantsAssumption DEF Init, JobRow, JobStatus, OrderRow, OrderStatus, ReservationRow
<1>2. attempt \in [Attempts -> AttemptRow]
  BY Ranges DEF Init, Prepared, AttemptRow, AttemptStatus
<1>3. ProviderOK /\ consentCase \in CaseStatus
  BY DEF Init, ProviderOK, TaskState, CaseStatus
<1>4. "idle" \in PC /\ "idle" \notin Targeted /\ "idle" \notin {"reject", "retryQa"}
  BY DEF PC, Targeted
<1>5. Idle \in ProcRow /\ Idle.pc = "idle"
  BY <1>4, AtTyped, Ranges DEF Idle
<1>6. ProcOK
  BY <1>4, <1>5 DEF Init, ProcOK, Positions
<1> QED
  BY <1>1, <1>2, <1>3, <1>6 DEF TypeInv, RowsOK

LEMMA TypeInvInductive == TypeInv /\ [Next]_vars => TypeInv'
<1> SUFFICES ASSUME TypeInv, [Next]_vars
             PROVE  TypeInv'
  OBVIOUS
<1>1. ASSUME NEW w \in Workers, Select(w) \/ Work(w) \/ Crash(w)
      PROVE  TypeInv'
  BY <1>1, SelectTyped, SubmissionTyped, ReconciliationTyped, CrashTyped DEF Work
<1>2. CASE DeadLeaseExpires \/ LiveLeaseExpires \/ RetryFallsDue \/ ReservationTimesOut
           \/ \E a \in Attempts : PollDeadlinePasses(a)
  BY <1>2, TimeTyped DEF DeadLeaseExpires, LiveLeaseExpires
<1>3. CASE \E a \in Attempts, k \in Tasks : TaskEnds(a, k) \/ Callback(a, k)
  BY <1>3, ProviderTyped
<1>4. CASE Operator
  BY <1>4, OperatorTyped
<1>5. CASE Withdraw \/ Download
  BY <1>5, CustomerTyped
<1>6. CASE Quiescent \/ UNCHANGED vars
  BY <1>6 DEF Quiescent, vars, rows, TypeInv, RowsOK, ProviderOK, ProcOK, Positions
<1> QED
  BY <1>1, <1>2, <1>3, <1>4, <1>5, <1>6 DEF Next

\* The inductive type invariant: the rows have their types, and every invocation is at a
\* position that exists.
THEOREM TypeInvariant == Spec => []TypeInv
BY InitTyped, TypeInvInductive, PTL DEF Spec

\* Every row of the order and every position of an invocation stays in its type:
\* in particular repairs and retries never exceed their limits, and no attempt
\* beyond the last repair is created (decide_next_generation_action,
\* _retry_reconciliation).
THEOREM TypeCorrect == Spec => []TypeOK
BY TypeInvariant, TypeInvIsTypeOK, PTL

-----------------------------------------------------------------------------

(***************************************************************************)
(* What a stale invocation may still write, with the claim it remembers,   *)
(* moves no lease to it, starts no attempt and settles nothing but a       *)
(* repair's rejection: for any number of invocations and at whichever step *)
(* one wakes up, as long as no partner has withdrawn.                      *)
(***************************************************************************)

(* An invocation moves nobody but itself *)

Moves(w) == \E r : Move(w, r)

LEMMA OthersStay ==
  ASSUME proc \in [Workers -> ProcRow], NEW w \in Workers, NEW v \in Workers, v # w, Moves(v)
  PROVE  proc'[w] = proc[w]
BY DEF Moves, Move

LEMMA SubmissionMoves ==
  ASSUME NEW w \in Workers, Submission(w)
  PROVE  Moves(w)
<1> USE DEF Moves, Goto, GotoReconcile, Finish, Start
<1>1. CASE \/ ClaimRefused(w) \/ ClaimRouted(w) \/ ClaimGranted(w) \/ PrepareInitial(w)
           \/ CommitBoundary(w) \/ BoundaryRefused(w)
  BY <1>1 DEF ClaimRefused, ClaimRouted, ClaimGranted, PrepareInitial, CommitBoundary,
     BoundaryRefused
<1>2. CASE PostAccepted(w) \/ PostAmbiguous(w) \/ PostRejected(w)
  BY <1>2 DEF PostAccepted, PostAmbiguous, PostRejected
<1>3. CASE RecordAcceptance(w) \/ RecordUnknown(w) \/ RecordRejection(w) \/ Repost(w)
  BY <1>3 DEF RecordAcceptance, RecordUnknown, RecordRejection, Repost, PersistSubmittedFact,
     MarkSubmissionUnknown, RecordPreacceptRejection
<1>4. CASE CaptureSubmission(w) \/ PauseSubmitted(w)
  BY <1>4 DEF CaptureSubmission, PauseSubmitted
<1> QED
  BY <1>1, <1>2, <1>3, <1>4 DEF Submission

LEMMA ReconciliationMoves ==
  ASSUME NEW w \in Workers, Reconciliation(w)
  PROVE  Moves(w)
<1> USE DEF Moves, Goto, GotoReconcile, Finish, Start
<1>1. CASE \/ ReconciliationRefused(w) \/ ReconciliationGranted(w) \/ AccountForSubmission(w)
           \/ PauseForOperator(w) \/ ResumeAtQa(w) \/ LoadRefused(w)
  BY <1>1 DEF ReconciliationRefused, ReconciliationGranted, AccountForSubmission,
     PauseForOperator, ResumeAtQa, LoadRefused
<1>2. CASE \/ QueryPending(w) \/ QueryFailed(w) \/ QuerySucceeded(w) \/ QueryAnswered(w)
           \/ QueryRaises(w) \/ PolledAgain(w) \/ AnswerUsed(w)
  BY <1>2 DEF QueryPending, QueryFailed, QuerySucceeded, QueryAnswered, QueryRaises, PolledAgain,
     AnswerUsed
<1>3. CASE \/ StoreCandidate(w) \/ StoreFails(w) \/ BeginQa(w) \/ PersistVerdict(w)
           \/ QaInfrastructureFails(w) \/ RetryQa(w) \/ EvaluateRefused(w)
  BY <1>3 DEF StoreCandidate, StoreFails, BeginQa, PersistVerdict, QaInfrastructureFails,
     RetryQa, EvaluateRefused
<1>4. CASE \/ SettleInsteadOfDecision(w) \/ DecidePass(w) \/ DecideRepair(w) \/ DecideFail(w)
           \/ Deliver(w) \/ DeliveryFails(w)
  BY <1>4 DEF SettleInsteadOfDecision, DecidePass, DecideRepair, DecideFail, Deliver,
     DeliveryFails
<1> QED
  BY <1>1, <1>2, <1>3, <1>4 DEF Reconciliation

LEMMA WorkerMoves ==
  ASSUME NEW w \in Workers, Select(w) \/ Work(w) \/ Crash(w)
  PROVE  Moves(w)
BY SubmissionMoves, ReconciliationMoves
   DEF Select, Work, Crash, LostFence, Restart, Moves, Start, Finish

-----------------------------------------------------------------------------
(* What a stale invocation may still do *)

\* A step that takes no lease, starts no attempt and settles at most a job whose
\* credits were captured, by failing it.
Bounded ==
  /\ job'.active = job.active /\ job'.repairCount = job.repairCount
  /\ job'.holder \in {job.holder, None}
  /\ \/ reservation' = reservation
     \/ reservation.status = "CAPTURED" /\ job'.status = "FAILED"

LEMMA RowsStayBounded ==
  ASSUME UNCHANGED <<job, reservation>>
  PROVE  Bounded
BY DEF Bounded

LEMMA PausedBounded ==
  ASSUME RowsOK, UNCHANGED reservation, NEW when, NEW n,
         job' \in {Paused(job, when), [Paused(job, when) EXCEPT !.retryCount = n]}
  PROVE  Bounded
BY DEF Bounded, RowsOK, JobRow, Paused, Unleased

LEMMA StaleOwnsNothing ==
  ASSUME NEW w \in Workers, job.holder # w
  PROVE  ~OwnsJob(w) /\ ~Fence(w)
BY DEF OwnsJob, Fence

LEMMA StaleSubmission ==
  ASSUME TypeInv, NEW w \in Workers, Submission(w), proc[w].pc \in Claimed, job.holder # w
  PROVE  Bounded
<1> DEFINE a == proc[w].attempt
<1> USE StaleOwnsNothing
<1>types. RowsOK /\ job \in JobRow
  BY DEF TypeInv, RowsOK
<1>1. ~(ClaimRefused(w) \/ ClaimRouted(w) \/ ClaimGranted(w))
  BY DEF ClaimRefused, ClaimRouted, ClaimGranted, Claimed
<1>2. ~(PrepareInitial(w) \/ CommitBoundary(w))
  BY DEF PrepareInitial, CommitBoundary
<1>3. CASE BoundaryRefused(w) \/ PostAccepted(w) \/ PostAmbiguous(w) \/ PostRejected(w)
  BY <1>3, RowsStayBounded DEF BoundaryRefused, PostAccepted, PostAmbiguous, PostRejected, rows
<1>late. CASE /\ FencePasses(w)
              /\ proc[w].pc \in {"persist", "unknown", "reject", "rejectTerminal", "repost",
                                 "capture", "pause"}
  <2>1. a # 1
    BY <1>late DEF FencePasses, RemembersJob, TypeInv, ProcOK, ProcRow
  <2>2. ASSUME NEW k, PersistSubmittedFact(w, a, k)
        PROVE  Bounded
    BY <2>2, <1>types DEF PersistSubmittedFact, Bounded, JobRow
  <2>3. ASSUME MarkSubmissionUnknown(w, a)
        PROVE  Bounded
    BY <2>3, <1>types DEF MarkSubmissionUnknown, Unleased, Bounded, JobRow
  <2>4. ASSUME NEW terminal, RecordPreacceptRejection(w, a, terminal)
        PROVE  Bounded
    <3>1. CASE UNCHANGED rows
      BY <3>1, RowsStayBounded DEF rows
    <3>2. CASE /\ \E n \in IF OwnsJob(w) THEN {RetryMore(job.retryCount)} ELSE 1 .. MaxRetries :
                    job' = [job EXCEPT !.retryCount = n]
               /\ UNCHANGED reservation
      BY <3>2, <1>types DEF Bounded, JobRow
    <3>3. CASE FailAndSettle(a = 1)
      <4>1. reservation.status = "CAPTURED"
        BY <3>3, <2>1 DEF FailAndSettle, CanSettle
      <4> QED
        BY <3>3, <4>1, <1>types DEF FailAndSettle, Unleased, Bounded, JobRow
    <3> QED
      BY <2>4, <3>1, <3>2, <3>3 DEF RecordPreacceptRejection
  <2>5. CASE RecordAcceptance(w) \/ RecordUnknown(w) \/ RecordRejection(w)
    BY <2>5, <2>2, <2>3, <2>4 DEF RecordAcceptance, RecordUnknown, RecordRejection
  <2>6. CASE Repost(w)
    BY <2>6, <2>2, <2>3, <2>4, RowsStayBounded DEF Repost, rows
  <2>7. CASE CaptureSubmission(w)
    BY <2>7, <2>1, RowsStayBounded DEF CaptureSubmission
  <2>8. CASE PauseSubmitted(w)
    BY <2>8, <1>types, PausedBounded DEF PauseSubmitted
  <2> QED
    BY <1>late, <1>1, <1>2, <1>3, <2>5, <2>6, <2>7, <2>8 DEF Submission
<1> QED
  BY <1>1, <1>2, <1>3, <1>late
     DEF Submission, RecordAcceptance, RecordUnknown, RecordRejection, Repost,
         CaptureSubmission, PauseSubmitted

LEMMA StaleReconciliation ==
  ASSUME TypeInv, NEW w \in Workers, Reconciliation(w), proc[w].pc \in Claimed,
         job.holder # w, consentCase = "none"
  PROVE  Bounded
<1> USE StaleOwnsNothing
<1>types. RowsOK /\ job \in JobRow
  BY DEF TypeInv, RowsOK
<1>1. \A a : ~SettleCase(a)
  BY DEF SettleCase, CaseIsSettleable
<1>2. ~(ReconciliationRefused(w) \/ ReconciliationGranted(w))
  BY DEF ReconciliationRefused, ReconciliationGranted, Claimed
<1>3. ~(\/ AccountForSubmission(w) \/ PauseForOperator(w) \/ ResumeAtQa(w) \/ QueryPending(w)
        \/ QueryFailed(w) \/ QuerySucceeded(w) \/ QueryAnswered(w) \/ QueryRaises(w)
        \/ PolledAgain(w) \/ AnswerUsed(w))
  BY <1>1 DEF AccountForSubmission, PauseForOperator, ResumeAtQa, QueryPending, QueryFailed,
     QuerySucceeded, QueryAnswered, QueryRaises, PolledAgain, AnswerUsed, MayQuery,
     MayQueryUnknown
<1>4. ~(\/ BeginQa(w) \/ SettleInsteadOfDecision(w) \/ DecidePass(w) \/ DecideRepair(w)
        \/ DecideFail(w) \/ DeliveryFails(w))
  BY <1>1 DEF BeginQa, SettleInsteadOfDecision, DecidePass, DecideRepair, DecideFail,
     DeliveryFails
<1>5. CASE LoadRefused(w) \/ StoreFails(w) \/ QaInfrastructureFails(w) \/ EvaluateRefused(w)
  BY <1>5, RowsStayBounded
     DEF LoadRefused, StoreFails, QaInfrastructureFails, EvaluateRefused, rows
<1>6. CASE StoreCandidate(w) \/ PersistVerdict(w)
  BY <1>6, RowsStayBounded DEF StoreCandidate, PersistVerdict
<1>7. CASE RetryQa(w)
  BY <1>7, <1>types, PausedBounded DEF RetryQa
<1>8. CASE Deliver(w)
  BY <1>8, <1>types DEF Deliver, Unleased, Bounded, JobRow
<1> QED
  BY <1>2, <1>3, <1>4, <1>5, <1>6, <1>7, <1>8 DEF Reconciliation

-----------------------------------------------------------------------------
(* The fence *)

\* An invocation whose claim was taken over or given up takes no lease, starts no
\* attempt, and settles nothing but the captured credits of a repair that EvoLink
\* rejected (require_current_generation_fence, on a row or on the job object that
\* its session remembers), until a partner withdraws.
THEOREM StaleWorkerIsBounded == Spec => LateWorkerIsBounded
<1> DEFINE Late ==
      \A w \in Workers :
        (proc'[w] # proc[w] /\ proc[w].pc \in Claimed /\ job.holder # w /\ consentCase = "none")
          => Bounded
<1>1. TypeInv /\ [Next]_vars => [Late]_vars
  <2> SUFFICES ASSUME TypeInv, [Next]_vars, NEW w \in Workers, proc'[w] # proc[w],
                      proc[w].pc \in Claimed, job.holder # w, consentCase = "none"
               PROVE  Bounded
    OBVIOUS
  <2>types. proc \in [Workers -> ProcRow]
    BY DEF TypeInv, ProcOK
  <2>1. ASSUME NEW v \in Workers, Select(v) \/ Work(v) \/ Crash(v)
        PROVE  Bounded
    <3>1. v = w
      BY <2>1, <2>types, WorkerMoves, OthersStay
    <3>2. CASE Select(w) \/ Crash(w) \/ LostFence(w) \/ Restart(w)
      BY <3>2, RowsStayBounded DEF Select, Crash, LostFence, Restart, rows
    <3> QED
      BY <2>1, <3>1, <3>2, StaleSubmission, StaleReconciliation DEF Work
  <2>2. CASE UNCHANGED proc
    BY <2>2
  <2>3. CASE DeadLeaseExpires \/ LiveLeaseExpires \/ RetryFallsDue \/ ReservationTimesOut
             \/ \E a \in Attempts : PollDeadlinePasses(a)
    BY <2>2, <2>3 DEF DeadLeaseExpires, LiveLeaseExpires, LeaseExpires, RetryFallsDue,
       ReservationTimesOut, PollDeadlinePasses
  <2>4. CASE \E a \in Attempts, k \in Tasks : TaskEnds(a, k) \/ Callback(a, k)
    BY <2>2, <2>4 DEF TaskEnds, Callback
  <2>5. CASE Operator
    BY <2>2, <2>5 DEF Operator, ResolveBind, ResolveFail
  <2>6. CASE Withdraw \/ Download
    BY <2>2, <2>6 DEF Withdraw, Download
  <2>7. CASE Quiescent \/ UNCHANGED vars
    BY <2>2, <2>7 DEF Quiescent, vars
  <2> QED
    BY <2>1, <2>3, <2>4, <2>5, <2>6, <2>7 DEF Next
<1> QED
  BY <1>1, TypeInvariant, PTL DEF Spec, LateWorkerIsBounded, Bounded

-----------------------------------------------------------------------------
(***************************************************************************)
(* The attempts of an order and their Provider tasks, for any number of    *)
(* invocations, repairs, retries and tasks.  Every step of                 *)
(* GenerationLifecycle leaves the attempts alone, creates one or takes one *)
(* of them further; the invariant is proved for these kinds of steps.      *)
(***************************************************************************)

Open == job.status \notin TerminalJob

AtProvider == {"SUBMITTING", "SUBMITTED", "UNKNOWN"}

Unsent(a) == attempt[a].status \in {"NONE", "PREPARED"}

(* The positions of an invocation by what they rest on *)

\* The boundary was committed: from the POST to the pause after its capture.
Submitting == {"post", "persist", "unknown", "reject", "rejectTerminal", "repost",
               "capture", "pause"}

\* A candidate is there.
Judging == {"qa", "evaluate", "retryQa", "decide", "deliver"}

\* The submission was accounted for.
Charging == {"query", "polled", "answered", "store"} \cup Judging

Engaged == Submitting \cup {"load"} \cup Charging

Submits(w, a) == proc[w].pc \in Submitting /\ proc[w].attempt = a

LEMMA PositionSets ==
  /\ Engaged \subseteq Targeted /\ Judging \subseteq Charging
  /\ Charging \subseteq Engaged /\ Submitting \subseteq Engaged
  /\ Sending \subseteq Submitting
  /\ "load" \in Engaged /\ "load" \notin Charging /\ "load" \notin Submitting
  /\ Submitting \cap Charging = {}
  /\ {"persist", "unknown", "capture", "pause"} \subseteq Submitting \ Sending
  /\ {"claimAttempt", "boundary"} \subseteq Targeted \ Engaged
  /\ {"idle", "dead", "claimJob", "claimReconciliation", "prepare"} \cap Targeted = {}
BY DEF Engaged, Submitting, Sending, Judging, Charging, Targeted, PC

-----------------------------------------------------------------------------
(* The inductive invariant *)

\* The chain of attempts; repair_count starts at zero.
ChainInv ==
  /\ RepairChain
  /\ attempt[1].status = "NONE" => job.repairCount = 0

\* What an attempt's row says about its tasks and about the other rows.  A task
\* is bound only if EvoLink accepted it, and EvoLink accepts one at most.
RowInv(a) ==
  /\ Unsent(a) => AcceptedTasks(a) = {}
  /\ AcceptedTasks(a) \subseteq {1}
  /\ attempt[a].providerJob # 0 => attempt[a].providerJob \in AcceptedTasks(a)
  /\ attempt[a].status \in {"SUBMITTED", "FINISHED"} => attempt[a].providerJob # 0
  /\ attempt[a].status = "SUBMITTING" => attempt[a].providerJob = 0
  /\ attempt[a].status = "FINISHED" => reservation.status = "CAPTURED"
  /\ attempt[a].status = "FAILED" => ~Open

CreditInv ==
  /\ reservation.status = "CAPTURED" => AcceptedTasks(1) # {}
  /\ attempt[1].accounting = "CAPTURED" => reservation.status = "CAPTURED"

\* What an invocation may rely on at its position; the third clause only while
\* the job is its own, the others for good.
PositionInv(w) ==
  LET a == proc[w].attempt
      pc == proc[w].pc IN
  /\ pc \in Targeted => attempt[a].status # "NONE"
  /\ pc \in Submitting => ~Unsent(a)
  /\ OwnsJob(w) /\ pc \in Engaged => a = job.active
  /\ pc \in Judging => attempt[a].status = "FINISHED"
  /\ pc \in Charging => reservation.status = "CAPTURED" /\ attempt[a].providerJob # 0
  /\ pc \in Sending => AcceptedTasks(a) = {}
  /\ pc = "persist" => proc[w].task \in AcceptedTasks(a)
  /\ pc \in {"capture", "pause"} => AcceptedTasks(a) # {}

\* One invocation submits an attempt, for good.
OneSubmitter ==
  \A a \in Attempts, v \in Workers, w \in Workers : Submits(v, a) /\ Submits(w, a) => v = w

AttemptInv ==
  /\ TypeInv /\ ChainInv /\ CreditInv /\ OneSubmitter
  /\ \A a \in Attempts : RowInv(a)
  /\ \A w \in Workers : PositionInv(w)

-----------------------------------------------------------------------------
(* The kinds of steps *)

SameChain == job'.active = job.active /\ job'.repairCount = job.repairCount

SameRow(a) == attempt'[a] = attempt[a]

\* A row that was sent is written: never sent again, never taken back from its end,
\* its task and its verdict never forgotten.
Goes(a) ==
  /\ attempt[a].status # "NONE" /\ ~Unsent(a)'
  /\ attempt[a].status \in {"FINISHED", "FAILED"} => attempt'[a].status = attempt[a].status
  /\ attempt'[a].providerJob \in {attempt[a].providerJob} \cup AcceptedTasks(a)'
  /\ attempt'[a].status \in {"SUBMITTED", "FINISHED"} => attempt'[a].providerJob # 0
  /\ attempt'[a].status = "SUBMITTING" => attempt'[a].providerJob = 0
  /\ attempt'[a].status = "FINISHED" => reservation'.status = "CAPTURED"
  /\ attempt'[a].status = "FAILED" => ~Open'
  /\ attempt[a].verdict # "none" => attempt'[a].verdict = attempt[a].verdict
  /\ attempt'[a].accounting = attempt[a].accounting \/ a = job.active
       \/ (attempt'[a].accounting = "CAPTURED" /\ reservation'.status = "CAPTURED")
  /\ attempt'[a].accounting = "CAPTURED" =>
       attempt[a].accounting = "CAPTURED" \/ reservation'.status = "CAPTURED"

RowsGo == \A a \in Attempts : SameRow(a) \/ Goes(a)

\* prepare_initial_generation_attempt creates the first attempt.
FirstCreated ==
  /\ attempt[1].status = "NONE"
  /\ job'.active = 1 /\ job'.repairCount = job.repairCount
  /\ attempt' = [attempt EXCEPT ![1] = Prepared]

\* decide_next_generation_action creates a repair of the active attempt.
RepairCreated ==
  /\ job.active \in Attempts /\ job.repairCount < MaxRepairs
  /\ attempt[job.active].status = "FINISHED" /\ attempt[job.active].verdict = "REPAIR"
  /\ CaptureLineage
  /\ job'.active = job.repairCount + 2 /\ job'.repairCount = job.repairCount + 1
  /\ attempt' = [attempt EXCEPT ![job.repairCount + 2] = Prepared]

\* Captured credits stay captured, a settled job settled.
Ratchet ==
  /\ reservation.status = "CAPTURED" => reservation'.status = "CAPTURED"
  /\ ~Open => job'.status = job.status

\* Credits are captured once the INITIAL attempt has a task.
CapturesTruly == reservation'.status = "CAPTURED" => AcceptedTasks(1)' # {}

RowStep == Ratchet /\ CapturesTruly /\ ((SameChain /\ RowsGo) \/ FirstCreated \/ RepairCreated)

SameTasks(a) == AcceptedTasks(a)' = AcceptedTasks(a)

\* EvoLink accepts what w sends, and w sends it no more.
Takes(w, a) ==
  /\ proc[w].pc \in Sending /\ proc[w].attempt = a /\ proc'[w].pc \notin Sending
  /\ AcceptedTasks(a)' = {1}

TaskStep(w) == \A a \in Attempts : SameTasks(a) \/ Takes(w, a)

\* Nobody but w comes to own the job, nor keeps it while the active attempt changes.
HolderStep(w) ==
  \A v \in Workers \ {w} : OwnsJob(v)' => OwnsJob(v) /\ job'.active = job.active

\* w begins to submit only what was not sent before.
SubmitStep(w) == \A a \in Attempts : Submits(w, a)' => Submits(w, a) \/ Unsent(a)

-----------------------------------------------------------------------------
(* What the invariant says *)

LEMMA AttemptTypes ==
  ASSUME AttemptInv
  PROVE  /\ RowsOK /\ ProviderOK /\ ProcOK /\ RepairChain
         /\ job \in JobRow /\ order \in OrderRow /\ reservation \in ReservationRow
         /\ consentCase \in CaseStatus
         /\ attempt \in [Attempts -> AttemptRow] /\ proc \in [Workers -> ProcRow]
         /\ provider \in [Attempts -> [Tasks -> TaskState]]
         /\ job.active \in 0 .. (MaxRepairs + 1) /\ job.repairCount \in 0 .. MaxRepairs
         /\ 1 \in Attempts /\ None \notin Workers
         /\ \A a \in Attempts : a \in Nat /\ a >= 1 /\ attempt[a] \in AttemptRow
         /\ \A w \in Workers : proc[w] \in ProcRow
         /\ \A w \in Workers : proc[w].pc \in Targeted => proc[w].attempt \in Attempts
<1>1. TypeInv /\ RepairChain
  BY DEF AttemptInv, ChainInv
<1>2. \A a \in Attempts : a \in Nat /\ a >= 1
  BY ConstantsAssumption DEF Attempts
<1> QED
  BY <1>1, <1>2, Ranges, ConstantsAssumption
     DEF TypeInv, RowsOK, ProviderOK, ProcOK, Positions, JobRow

\* An attempt that is under way is the active one.
LEMMA UnderWayIsActive ==
  ASSUME AttemptInv, NEW a \in Attempts, attempt[a].status \notin {"NONE", "FINISHED"}
  PROVE  a = job.active
<1>1. RepairChain /\ job.active \in 0 .. (MaxRepairs + 1)
  BY AttemptTypes
<1>2. a \in Nat /\ job.active \in Nat
  BY <1>1, ConstantsAssumption DEF Attempts
<1>3. a = job.active \/ a < job.active \/ a > job.active
  BY <1>2
<1> QED
  BY <1>1, <1>3 DEF RepairChain

LEMMA ActiveHasRow ==
  ASSUME AttemptInv, job.active # 0
  PROVE  /\ job.active \in Attempts /\ attempt[1].status # "NONE"
         /\ job.active = job.repairCount + 1
         /\ attempt[job.active] \in AttemptRow
<1>1. /\ RepairChain /\ job.active \in 0 .. (MaxRepairs + 1) /\ attempt \in [Attempts -> AttemptRow]
  BY AttemptTypes
<1>2. job.active \in Attempts
  BY <1>1, ConstantsAssumption DEF Attempts
<1> QED
  BY <1>1, <1>2 DEF RepairChain

\* An invocation that is still sending works on the active attempt, which has no task.
LEMMA SenderIsActive ==
  ASSUME AttemptInv, NEW w \in Workers, proc[w].pc \in Sending
  PROVE  /\ proc[w].attempt \in Attempts /\ proc[w].attempt = job.active
         /\ attempt[job.active].status \in {"SUBMITTING", "UNKNOWN", "FAILED"}
         /\ attempt[job.active].providerJob = 0 /\ AcceptedTasks(job.active) = {}
<1> DEFINE a == proc[w].attempt
<1>1. a \in Attempts /\ attempt[a] \in AttemptRow
  BY AttemptTypes, PositionSets
<1>2. AcceptedTasks(a) = {} /\ ~Unsent(a)
  BY PositionSets DEF AttemptInv, PositionInv
<1>3. attempt[a].providerJob = 0
  BY <1>1, <1>2 DEF AttemptInv, RowInv
<1>4. attempt[a].status \in {"SUBMITTING", "UNKNOWN", "FAILED"}
  BY <1>1, <1>2, <1>3 DEF AttemptInv, RowInv, Unsent, AttemptRow, AttemptStatus
<1>5. a = job.active
  BY <1>1, <1>4, UnderWayIsActive
<1> QED
  BY <1>1, <1>2, <1>3, <1>4, <1>5

-----------------------------------------------------------------------------
(* Each kind of step keeps what is said of rows *)

LEMMA CreatedRow ==
  ASSUME AttemptInv, NEW a \in Attempts, attempt' = [attempt EXCEPT ![a] = Prepared]
  PROVE  /\ \A b \in Attempts : b # a => SameRow(b)
         /\ attempt'[a].status = "PREPARED" /\ attempt'[a].providerJob = 0
         /\ attempt'[a].accounting = "NOT_CAPTURED" /\ attempt'[a].verdict = "none"
BY AttemptTypes DEF SameRow, Prepared

\* What every row may rely on across a step.
RowGoesOn(a) ==
  /\ attempt[a].status # "NONE" => attempt'[a].status # "NONE"
  /\ ~Unsent(a) => ~Unsent(a)'
  /\ attempt[a].status \in {"FINISHED", "FAILED"} => attempt'[a].status = attempt[a].status
  /\ attempt[a].providerJob # 0 => attempt'[a].providerJob # 0

LEMMA RepairRow ==
  ASSUME AttemptInv, RepairCreated
  PROVE  /\ job.repairCount + 2 \in Attempts
         /\ job.active = job.repairCount + 1 /\ job.repairCount \in Nat
         /\ attempt[job.repairCount + 2].status = "NONE"
<1>1. /\ job.active = job.repairCount + 1 /\ job.repairCount \in Nat
      /\ job.repairCount < MaxRepairs /\ RepairChain
  BY AttemptTypes, ActiveHasRow, ConstantsAssumption DEF RepairCreated
<1>2. job.repairCount + 2 \in Attempts /\ job.repairCount + 2 > job.active
  BY <1>1, ConstantsAssumption DEF Attempts
<1> QED
  BY <1>1, <1>2 DEF RepairChain

LEMMA RowsGoOn ==
  ASSUME AttemptInv, RowStep, NEW a \in Attempts
  PROVE  RowGoesOn(a)
<1>0. attempt[a].status = "NONE" => attempt[a].providerJob = 0
  BY DEF AttemptInv, RowInv, Unsent
<1>1. CASE SameChain /\ RowsGo
  <2>1. CASE SameRow(a)
    BY <2>1 DEF SameRow, RowGoesOn, Unsent
  <2>2. CASE Goes(a)
    <3>1. \A k \in AcceptedTasks(a)' : k # 0
      BY ConstantsAssumption DEF AcceptedTasks, Tasks
    <3> QED
      BY <2>2, <3>1 DEF Goes, RowGoesOn, Unsent
  <2> QED
    BY <1>1, <2>1, <2>2 DEF RowsGo
<1>2. CASE FirstCreated
  <2>1. \A b \in Attempts : b # 1 => SameRow(b)
    BY <1>2, CreatedRow, AttemptTypes DEF FirstCreated
  <2> QED
    BY <1>0, <1>2, <2>1 DEF FirstCreated, SameRow, RowGoesOn, Unsent
<1>3. CASE RepairCreated
  <2>1. \A b \in Attempts : b # job.repairCount + 2 => SameRow(b)
    BY <1>3, CreatedRow, RepairRow DEF RepairCreated
  <2> QED
    BY <1>0, <1>3, <2>1, RepairRow DEF SameRow, RowGoesOn, Unsent
<1> QED
  BY <1>1, <1>2, <1>3 DEF RowStep

LEMMA ChainKept ==
  ASSUME AttemptInv, RowStep
  PROVE  ChainInv'
<1>types. /\ ChainInv /\ 1 \in Attempts /\ RepairChain
          /\ job.active \in Nat /\ job.repairCount \in Nat
          /\ \A a \in Attempts : a \in Nat /\ a >= 1
  BY AttemptTypes, ConstantsAssumption DEF AttemptInv
<1>1. CASE SameChain /\ RowsGo
  <2>1. (attempt'[1].status = "NONE") = (attempt[1].status = "NONE")
    BY <1>types, <1>1 DEF RowsGo, SameRow, Goes, Unsent
  <2>2. ASSUME NEW a \in Attempts, a < job.active
        PROVE  attempt'[a].status = "FINISHED" /\ attempt'[a].verdict = "REPAIR"
    <3>1. attempt[a].status = "FINISHED" /\ attempt[a].verdict = "REPAIR"
      BY <1>types, <2>2 DEF RepairChain
    <3> QED
      BY <1>1, <3>1 DEF RowsGo, SameRow, Goes
  <2>3. ASSUME NEW a \in Attempts, a > job.active
        PROVE  attempt'[a].status = "NONE"
    <3>1. attempt[a].status = "NONE"
      BY <1>types, <2>3 DEF RepairChain
    <3> QED
      BY <1>1, <3>1 DEF RowsGo, SameRow, Goes
  <2>4. job.active > 1 => CaptureLineage'
    BY <1>types, <1>1 DEF RowsGo, SameRow, Goes, RepairChain, CaptureLineage, RowStep, Ratchet
  <2> QED
    BY <1>types, <1>1, <2>1, <2>2, <2>3, <2>4 DEF ChainInv, RepairChain, SameChain
<1>2. CASE FirstCreated
  <2>1. /\ \A b \in Attempts : b # 1 => SameRow(b)
        /\ attempt'[1].status = "PREPARED"
    BY <1>types, <1>2, CreatedRow DEF FirstCreated
  <2>2. job.repairCount = 0 /\ job.active = 0
    BY <1>types, <1>2 DEF FirstCreated, ChainInv, RepairChain
  <2> QED
    BY <1>types, <1>2, <2>1, <2>2 DEF FirstCreated, ChainInv, RepairChain, SameRow
<1>3. CASE RepairCreated
  <2> DEFINE next == job.repairCount + 2
  <2>1. /\ next \in Attempts /\ job.active = job.repairCount + 1
        /\ \A b \in Attempts : b # next => SameRow(b)
        /\ attempt'[next].status = "PREPARED"
    BY <1>3, RepairRow, CreatedRow DEF RepairCreated
  <2>2. /\ attempt'[1].status # "NONE" /\ attempt'[1].accounting = "CAPTURED"
        /\ reservation'.status = "CAPTURED"
    <3>1. job.active # 0 /\ next # 1
      BY <1>types, <2>1
    <3> QED
      BY <1>types, <1>3, <2>1, <3>1, ActiveHasRow
         DEF SameRow, RepairCreated, CaptureLineage, RowStep, Ratchet
  <2>3. ASSUME NEW a \in Attempts, a < next
        PROVE  attempt'[a].status = "FINISHED" /\ attempt'[a].verdict = "REPAIR"
    <3>1. a < job.active \/ a = job.active
      BY <1>types, <2>1, <2>3
    <3>2. attempt[a].status = "FINISHED" /\ attempt[a].verdict = "REPAIR"
      BY <1>types, <1>3, <3>1 DEF RepairChain, RepairCreated
    <3> QED
      BY <1>types, <2>1, <2>3, <3>2 DEF SameRow
  <2>4. ASSUME NEW a \in Attempts, a > next
        PROVE  attempt'[a].status = "NONE"
    <3>1. a > job.active /\ a # next
      BY <1>types, <2>1, <2>4
    <3> QED
      BY <1>types, <2>1, <3>1 DEF RepairChain, SameRow
  <2> QED
    BY <1>types, <1>3, <2>1, <2>2, <2>3, <2>4
       DEF RepairCreated, ChainInv, RepairChain, CaptureLineage
<1> QED
  BY <1>1, <1>2, <1>3 DEF RowStep

-----------------------------------------------------------------------------

\* Tasks are never forgotten, and only a sent attempt without one gets one.
TasksGrow ==
  \A a \in Attempts :
    SameTasks(a) \/ (AcceptedTasks(a) = {} /\ AcceptedTasks(a)' = {1} /\ ~Unsent(a))

LEMMA TaskStepGrows ==
  ASSUME AttemptInv, NEW w \in Workers, TaskStep(w)
  PROVE  TasksGrow
<1> SUFFICES ASSUME NEW a \in Attempts, Takes(w, a)
             PROVE  AcceptedTasks(a) = {} /\ AcceptedTasks(a)' = {1} /\ ~Unsent(a)
  BY DEF TaskStep, TasksGrow
<1> QED
  BY PositionSets DEF Takes, AttemptInv, PositionInv

LEMMA RowsKept ==
  ASSUME AttemptInv, RowStep, TasksGrow
  PROVE  CreditInv' /\ \A a \in Attempts : RowInv(a)'
<1>types. 1 \in Attempts /\ CreditInv /\ \A a \in Attempts : RowInv(a)
  BY AttemptTypes DEF AttemptInv
<1>settled. ~Open => ~Open'
  BY DEF RowStep, Ratchet, Open
<1>1. ASSUME NEW a \in Attempts
      PROVE  RowInv(a)'
  <2>1. AcceptedTasks(a) \subseteq AcceptedTasks(a)' /\ AcceptedTasks(a)' \subseteq {1}
    BY <1>types DEF TasksGrow, SameTasks, RowInv
  <2>2. Unsent(a)' => AcceptedTasks(a)' = {}
    <3>1. Unsent(a)' => Unsent(a)
      BY RowsGoOn DEF RowGoesOn
    <3> QED
      BY <1>types, <3>1 DEF TasksGrow, SameTasks, RowInv
  <2>3. CASE SameRow(a)
    BY <1>types, <1>settled, <2>1, <2>2, <2>3 DEF SameRow, RowInv, RowStep, Ratchet
  <2>4. CASE Goes(a)
    BY <1>types, <2>1, <2>2, <2>4 DEF Goes, RowInv
  <2>5. CASE attempt'[a].status = "PREPARED" /\ attempt'[a].providerJob = 0
    BY <2>1, <2>2, <2>5 DEF RowInv
  <2>6. CASE FirstCreated
    <3>1. /\ a # 1 => SameRow(a)
          /\ a = 1 => attempt'[a].status = "PREPARED" /\ attempt'[a].providerJob = 0
      BY <2>6, CreatedRow, <1>types DEF FirstCreated
    <3> QED
      BY <3>1, <2>3, <2>5
  <2>7. CASE RepairCreated
    <3>1. /\ a # job.repairCount + 2 => SameRow(a)
          /\ a = job.repairCount + 2 =>
               attempt'[a].status = "PREPARED" /\ attempt'[a].providerJob = 0
      BY <2>7, CreatedRow, RepairRow DEF RepairCreated
    <3> QED
      BY <3>1, <2>3, <2>5
  <2> QED
    BY <2>3, <2>4, <2>6, <2>7 DEF RowStep, RowsGo
<1>2. CreditInv'
  <2>1. reservation'.status = "CAPTURED" => AcceptedTasks(1)' # {}
    BY DEF RowStep, CapturesTruly
  <2>2. CASE SameRow(1) \/ Goes(1)
    BY <1>types, <2>1, <2>2 DEF SameRow, Goes, CreditInv, RowStep, Ratchet
  <2>3. CASE attempt'[1].accounting = "NOT_CAPTURED"
    BY <2>1, <2>3 DEF CreditInv
  <2>4. CASE FirstCreated
    BY <2>4, <2>3, CreatedRow, <1>types DEF FirstCreated
  <2>5. CASE RepairCreated
    BY <2>5, <2>2, <2>3, CreatedRow, RepairRow, <1>types DEF RepairCreated
  <2> QED
    BY <1>types, <2>2, <2>4, <2>5 DEF RowStep, RowsGo
<1> QED
  BY <1>1, <1>2

\* An invocation that does not move keeps what it relies on.
LEMMA PositionKept ==
  ASSUME AttemptInv, RowStep, TasksGrow, NEW v \in Workers, proc'[v] = proc[v],
         OwnsJob(v)' => OwnsJob(v) /\ job'.active = job.active,
         \A a \in Attempts : proc[v].pc \in Sending /\ proc[v].attempt = a => SameTasks(a)
  PROVE  PositionInv(v)'
<1> DEFINE a == proc[v].attempt
<1>0. PositionInv(v)
  BY DEF AttemptInv
<1>1. CASE proc[v].pc \notin Targeted
  BY <1>1, PositionSets DEF PositionInv
<1>2. CASE proc[v].pc \in Targeted
  <2>1. a \in Attempts
    BY <1>2, AttemptTypes
  <2>2. RowGoesOn(a)
    BY <2>1, RowsGoOn
  <2>3. AcceptedTasks(a) \subseteq AcceptedTasks(a)'
    BY <2>1 DEF TasksGrow, SameTasks
  <2>4. proc[v].pc \in Sending => AcceptedTasks(a)' = {}
    BY <1>0, <2>1 DEF PositionInv, SameTasks
  <2> QED
    BY <1>0, <2>2, <2>3, <2>4 DEF PositionInv, RowGoesOn, RowStep, Ratchet
<1> QED
  BY <1>1, <1>2

\* A step of w.
LEMMA WorkerKeeps ==
  ASSUME AttemptInv, TypeInv', NEW w \in Workers, Moves(w), RowStep, TaskStep(w),
         HolderStep(w), SubmitStep(w), PositionInv(w)'
  PROVE  AttemptInv'
<1>types. proc \in [Workers -> ProcRow]
  BY AttemptTypes
<1>others. \A v \in Workers : v # w => proc'[v] = proc[v]
  BY <1>types, OthersStay
<1>1. TasksGrow
  BY TaskStepGrows
<1>2. ASSUME NEW v \in Workers, v # w
      PROVE  PositionInv(v)'
  <2>1. ASSUME NEW a \in Attempts, proc[v].pc \in Sending, proc[v].attempt = a
        PROVE  SameTasks(a)
    <3>1. ~Takes(w, a)
      BY <1>2, <2>1, PositionSets DEF Takes, AttemptInv, OneSubmitter, Submits
    <3> QED
      BY <3>1 DEF TaskStep
  <2> QED
    BY <1>1, <1>2, <1>others, <2>1, PositionKept DEF HolderStep
<1>3. OneSubmitter'
  <2> SUFFICES ASSUME NEW a \in Attempts, NEW u \in Workers, NEW v \in Workers,
                      Submits(u, a)', Submits(v, a)'
               PROVE  u = v
    BY DEF OneSubmitter
  <2>1. \A x \in Workers : Submits(x, a)' => Submits(x, a) \/ (x = w /\ Unsent(a))
    BY <1>others DEF SubmitStep, Submits
  <2>2. \A x \in Workers : Submits(x, a) => ~Unsent(a)
    BY DEF AttemptInv, PositionInv, Submits
  <2> QED
    BY <2>1, <2>2 DEF AttemptInv, OneSubmitter
<1> QED
  BY <1>1, <1>2, <1>3, ChainKept, RowsKept DEF AttemptInv

\* A step of nobody: the clock, the Provider, the operator, the partner.
LEMMA OutsideKeeps ==
  ASSUME AttemptInv, TypeInv', RowStep, UNCHANGED proc, \A a \in Attempts : SameTasks(a),
         \A v \in Workers : OwnsJob(v)' => OwnsJob(v) /\ job'.active = job.active
  PROVE  AttemptInv'
<1>1. TasksGrow
  BY DEF TasksGrow
<1>2. \A v \in Workers : PositionInv(v)'
  BY <1>1, PositionKept
<1>3. OneSubmitter'
  BY DEF AttemptInv, OneSubmitter, Submits
<1> QED
  BY <1>1, <1>2, <1>3, ChainKept, RowsKept DEF AttemptInv

-----------------------------------------------------------------------------
(* Helpers for the steps of an invocation *)

LEMMA UnchangedTasks ==
  ASSUME UNCHANGED provider
  PROVE  /\ \A a \in Attempts : SameTasks(a)
         /\ \A w \in Workers : TaskStep(w)
BY DEF SameTasks, AcceptedTasks, TaskStep

\* w goes to a position that relies on nothing.
LEMMA Leaves ==
  ASSUME AttemptInv, NEW w \in Workers, NEW r, Move(w, r), r.pc \notin Targeted
  PROVE  PositionInv(w)' /\ SubmitStep(w) /\ proc'[w].pc \notin Sending
<1>1. proc'[w] = r
  BY AttemptTypes DEF Move
<1> QED
  BY <1>1, PositionSets DEF PositionInv, SubmitStep, Submits

LEMMA Finishes ==
  ASSUME AttemptInv, NEW w \in Workers, Finish(w) \/ GotoReconcile(w)
  PROVE  PositionInv(w)' /\ SubmitStep(w) /\ proc'[w].pc \notin Sending
BY Leaves, PositionSets DEF Finish, Idle, GotoReconcile, At

\* Credits and attempts, when no attempt is written and nothing captured.
LEMMA RowsStay ==
  ASSUME AttemptInv, TasksGrow, UNCHANGED attempt, SameChain,
         ~Open => job'.status = job.status,
         (reservation'.status = "CAPTURED") = (reservation.status = "CAPTURED")
  PROVE  RowStep
<1>1. RowsGo
  BY DEF RowsGo, SameRow
<1>2. CapturesTruly
  BY AttemptTypes DEF CapturesTruly, AttemptInv, CreditInv, TasksGrow, SameTasks
<1> QED
  BY <1>1, <1>2 DEF RowStep, Ratchet

\* The same when one attempt is written.
LEMMA OneRowGoes ==
  ASSUME AttemptInv, TasksGrow, NEW a \in Attempts, \A b \in Attempts \ {a} : SameRow(b),
         Goes(a), SameChain, ~Open => job'.status = job.status,
         (reservation'.status = "CAPTURED") = (reservation.status = "CAPTURED")
  PROVE  RowStep
<1>1. RowsGo
  BY DEF RowsGo
<1>2. CapturesTruly
  BY AttemptTypes DEF CapturesTruly, AttemptInv, CreditInv, TasksGrow, SameTasks
<1> QED
  BY <1>1, <1>2 DEF RowStep, Ratchet

\* A worker's step that leaves the rows and the Provider alone.
LEMMA PassesBy ==
  ASSUME AttemptInv, NEW w \in Workers, UNCHANGED <<rows, provider>>
  PROVE  RowStep /\ TaskStep(w) /\ HolderStep(w)
<1>1. /\ job' = job /\ attempt' = attempt /\ reservation' = reservation
      /\ TaskStep(w) /\ TasksGrow
  BY UnchangedTasks DEF rows, TasksGrow
<1>2. SameChain
  BY <1>1 DEF SameChain
<1>3. RowStep
  BY <1>1, <1>2, RowsStay
<1> QED
  BY <1>1, <1>3 DEF HolderStep, OwnsJob

\* A step that takes the job from whoever had it.
LEMMA GivesUp ==
  ASSUME AttemptInv, NEW w \in Workers, job'.holder \in {None, w}
  PROVE  HolderStep(w)
BY AttemptTypes DEF HolderStep, OwnsJob

LEMMA KeepsHolder ==
  ASSUME NEW w \in Workers, SameChain, job'.status = job.status, job'.holder = job.holder
  PROVE  HolderStep(w)
BY DEF HolderStep, OwnsJob, SameChain

\* What WorkerKeeps asks of a step of w, except that w moves nobody else.
Works(w) == RowStep /\ TaskStep(w) /\ HolderStep(w) /\ SubmitStep(w) /\ PositionInv(w)'

LEMMA WorksKeeps ==
  ASSUME AttemptInv, TypeInv', NEW w \in Workers, Moves(w), Works(w)
  PROVE  AttemptInv'
BY WorkerKeeps DEF Works

\* w leaves, having changed nothing.
LEMMA LeavesIdly ==
  ASSUME AttemptInv, NEW w \in Workers, UNCHANGED <<rows, provider>>,
         Finish(w) \/ GotoReconcile(w)
  PROVE  Works(w)
BY PassesBy, Finishes DEF Works

\* w leaves, having given up the job or settled it.
LEMMA LeavesTheJob ==
  ASSUME AttemptInv, NEW w \in Workers, UNCHANGED provider, RowStep,
         job'.holder = None, Finish(w) \/ GotoReconcile(w)
  PROVE  Works(w)
BY UnchangedTasks, GivesUp, Finishes DEF Works

LEMMA Tasked ==
  ASSUME UNCHANGED provider
  PROVE  TasksGrow /\ \A a \in Attempts : SameTasks(a)
BY UnchangedTasks DEF TasksGrow

LEMMA SettledRows ==
  ASSUME AttemptInv, NEW allow, FailAndSettle(allow)
  PROVE  /\ SameChain /\ job'.status = "FAILED" /\ ~Open' /\ job'.holder = None
         /\ ~Open => job'.status = job.status
         /\ (reservation'.status = "CAPTURED") = (reservation.status = "CAPTURED")
<1>types. job \in JobRow /\ reservation \in ReservationRow
  BY AttemptTypes
<1>1. SameChain /\ job'.status = "FAILED" /\ job'.holder = None
  BY <1>types DEF FailAndSettle, Unleased, JobRow, SameChain
<1>2. ~Open' /\ (~Open => job'.status = job.status)
  BY <1>1 DEF FailAndSettle, JobMayBecome, Open, TerminalJob
<1>3. (reservation'.status = "CAPTURED") = (reservation.status = "CAPTURED")
  BY <1>types DEF FailAndSettle, CanSettle, Settled, Refunded, Released, ReservationRow
<1> QED
  BY <1>1, <1>2, <1>3

LEMMA PausedRows ==
  ASSUME AttemptInv, Open, NEW when, NEW n,
         job' \in {Paused(job, when), [Paused(job, when) EXCEPT !.retryCount = n]}
  PROVE  SameChain /\ job'.status = "RECONCILING" /\ job'.nextRetry = when /\ job'.holder = None
BY AttemptTypes DEF Paused, Unleased, JobRow, SameChain

-----------------------------------------------------------------------------
(* Selecting, claiming, preparing *)

LEMMA SelectWorks ==
  ASSUME AttemptInv, NEW w \in Workers, Select(w)
  PROVE  Works(w)
<1>0. RowStep /\ TaskStep(w) /\ HolderStep(w)
  BY PassesBy DEF Select
<1>1. CASE Start(w, "claimReconciliation", 0) \/ Start(w, "claimJob", 0)
  BY <1>0, <1>1, Leaves, PositionSets DEF Start, At, Works
<1>2. CASE RepairIsPrepared /\ Start(w, "claimAttempt", job.active)
  <2>1. proc'[w].pc = "claimAttempt" /\ proc'[w].attempt = job.active
    BY <1>2, AttemptTypes DEF Start, Move, At
  <2>2. attempt'[job.active].status # "NONE"
    BY <1>2 DEF RepairIsPrepared, ActiveStatus, Select, rows
  <2>3. PositionInv(w)' /\ SubmitStep(w)
    BY <2>1, <2>2
       DEF PositionInv, SubmitStep, Submits, Submitting, Engaged, Judging, Charging, Sending
  <2> QED
    BY <1>0, <2>3 DEF Works
<1> QED
  BY <1>1, <1>2 DEF Select

LEMMA ClaimWorks ==
  ASSUME AttemptInv, NEW w \in Workers, ClaimRefused(w) \/ ClaimRouted(w) \/ ClaimGranted(w)
  PROVE  Works(w)
<1>types. job \in JobRow /\ proc \in [Workers -> ProcRow] /\ proc[w] \in ProcRow
  BY AttemptTypes
<1>1. CASE ClaimRefused(w)
  BY <1>1, LeavesIdly DEF ClaimRefused
<1>2. CASE ClaimRouted(w)
  <2>1. SameChain /\ job'.holder = None /\ Open
    BY <1>2, <1>types
       DEF ClaimRouted, Claimable, Unleased, JobRow, SameChain, Open, TerminalJob
  <2>2. RowStep
    BY <1>2, <2>1, Tasked, RowsStay DEF ClaimRouted
  <2> QED
    BY <1>2, <2>1, <2>2, LeavesTheJob DEF ClaimRouted
<1>3. CASE ClaimGranted(w)
  <2>1. SameChain /\ job'.holder = w /\ Open
    BY <1>3, <1>types DEF ClaimGranted, Claimable, Leased, JobRow, SameChain, Open, TerminalJob
  <2>2. RowStep /\ TaskStep(w) /\ HolderStep(w)
    BY <1>3, <2>1, Tasked, UnchangedTasks, RowsStay, GivesUp DEF ClaimGranted
  <2>3. CASE proc[w].pc = "claimJob"
    <3>1. Move(w, [proc[w] EXCEPT !.pc = "prepare"])
          /\ [proc[w] EXCEPT !.pc = "prepare"].pc \notin Targeted
      BY <1>3, <2>3, <1>types, PositionSets DEF ClaimGranted, Goto, ProcRow
    <3> QED
      BY <2>2, <3>1, Leaves DEF Works
  <2>4. CASE proc[w].pc = "claimAttempt"
    <3>1. proc'[w].pc = "boundary" /\ proc'[w].attempt = proc[w].attempt
      BY <1>3, <2>4, <1>types DEF ClaimGranted, Goto, Move, ProcRow
    <3>2. attempt'[proc[w].attempt].status # "NONE"
      BY <1>3, <2>4, PositionSets DEF ClaimGranted, AttemptInv, PositionInv
    <3>3. PositionInv(w)' /\ SubmitStep(w)
      BY <3>1, <3>2
         DEF PositionInv, SubmitStep, Submits, Submitting, Engaged, Judging, Charging, Sending
    <3> QED
      BY <2>2, <3>3 DEF Works
  <2> QED
    BY <1>3, <2>3, <2>4 DEF ClaimGranted
<1> QED
  BY <1>1, <1>2, <1>3

LEMMA AtBoundary ==
  ASSUME AttemptInv, NEW w \in Workers, Start(w, "boundary", 1), attempt'[1].status # "NONE"
  PROVE  PositionInv(w)' /\ SubmitStep(w)
<1>1. proc'[w].pc = "boundary" /\ proc'[w].attempt = 1
  BY AttemptTypes DEF Start, Move, At
<1> QED
  BY <1>1
     DEF PositionInv, SubmitStep, Submits, Submitting, Engaged, Judging, Charging, Sending

LEMMA PrepareWorks ==
  ASSUME AttemptInv, NEW w \in Workers, PrepareInitial(w)
  PROVE  Works(w)
<1>types. job \in JobRow /\ attempt \in [Attempts -> AttemptRow] /\ 1 \in Attempts
  BY AttemptTypes
<1>tasks. TaskStep(w) /\ TasksGrow
  BY Tasked, UnchangedTasks DEF PrepareInitial
<1>1. CASE /\ attempt[1].status = "NONE"
           /\ attempt' = [attempt EXCEPT ![1] = Prepared]
           /\ job' = [job EXCEPT !.active = 1]
           /\ Start(w, "boundary", 1)
  <2>1. FirstCreated /\ job'.status = job.status /\ job'.holder = job.holder
    BY <1>1, <1>types DEF FirstCreated, JobRow
  <2>2. CapturesTruly
    BY <1>1, <1>tasks, AttemptTypes
       DEF PrepareInitial, CapturesTruly, AttemptInv, CreditInv, TasksGrow, SameTasks
  <2>3. RowStep
    BY <2>1, <2>2 DEF PrepareInitial, RowStep, Ratchet
  <2>4. HolderStep(w)
    BY <2>1 DEF PrepareInitial, Fence, OwnsJob, HolderStep
  <2>5. attempt'[1].status # "NONE"
    BY <1>1, <1>types DEF Prepared
  <2> QED
    BY <1>1, <1>tasks, <2>3, <2>4, <2>5, AtBoundary DEF Works
<1>2. CASE UNCHANGED <<job, attempt>> /\ (Finish(w) \/ Start(w, "boundary", 1))
           /\ attempt[1].status # "NONE"
  <2>1. RowStep /\ HolderStep(w)
    BY <1>2, PassesBy DEF PrepareInitial, rows
  <2> QED
    BY <1>2, <1>tasks, <2>1, AtBoundary, Finishes DEF Works
<1> QED
  BY <1>1, <1>2 DEF PrepareInitial

LEMMA BoundaryWorks ==
  ASSUME AttemptInv, NEW w \in Workers, CommitBoundary(w) \/ BoundaryRefused(w)
  PROVE  Works(w)
<1>types. /\ attempt \in [Attempts -> AttemptRow] /\ proc \in [Workers -> ProcRow]
          /\ proc[w] \in ProcRow
  BY AttemptTypes
<1>1. CASE BoundaryRefused(w)
  BY <1>1, LeavesIdly DEF BoundaryRefused
<1>2. CASE CommitBoundary(w)
  <2>0. PICK a \in Attempts : a = proc[w].attempt
    BY <1>2, AttemptTypes, PositionSets DEF CommitBoundary
  <2>1. attempt[a].status = "PREPARED" /\ attempt[a] \in AttemptRow
    BY <1>2, <2>0, AttemptTypes DEF CommitBoundary, MaySubmit
  <2>2. /\ \A b \in Attempts \ {a} : SameRow(b)
        /\ attempt'[a].status = "SUBMITTING" /\ attempt'[a].verdict = attempt[a].verdict
        /\ attempt'[a].providerJob = attempt[a].providerJob
        /\ attempt'[a].accounting = attempt[a].accounting
    BY <1>2, <1>types, <2>0, <2>1 DEF CommitBoundary, WithAttempt, SameRow, AttemptRow
  <2>3. AcceptedTasks(a) = {} /\ attempt[a].providerJob = 0
    BY <2>1 DEF AttemptInv, RowInv, Unsent
  <2>4. Goes(a)
    BY <2>1, <2>2, <2>3 DEF Goes, Unsent
  <2>5. RowStep /\ TaskStep(w) /\ HolderStep(w)
    BY <1>2, <2>1, <2>2, <2>4, Tasked, UnchangedTasks, OneRowGoes, KeepsHolder
       DEF CommitBoundary, SameChain
  <2>6. proc'[w].pc = "post" /\ proc'[w].attempt = a
    BY <1>2, <1>types, <2>0 DEF CommitBoundary, Goto, Move, ProcRow
  <2>7. a = job.active /\ job' = job /\ AcceptedTasks(a)' = {}
    BY <1>2, <2>1, <2>3, UnderWayIsActive, Tasked DEF CommitBoundary, SameTasks
  <2>8. PositionInv(w)'
    BY <2>2, <2>6, <2>7
       DEF PositionInv, Unsent, Submitting, Engaged, Judging, Charging, Sending
  <2>9. SubmitStep(w)
    BY <2>1, <2>6 DEF SubmitStep, Submits, Unsent
  <2> QED
    BY <2>5, <2>8, <2>9 DEF Works
<1> QED
  BY <1>1, <1>2

-----------------------------------------------------------------------------
(* Posting, and recording what became of it *)

\* EvoLink accepts what w sends.
LEMMA Accepts ==
  ASSUME AttemptInv, NEW w \in Workers, NEW a \in Attempts, a = proc[w].attempt,
         proc[w].pc \in Sending, Accept(a)
  PROVE  /\ FreshTask(a) = 1 /\ AcceptedTasks(a)' = {1} /\ TasksGrow
         /\ proc'[w].pc \notin Sending => TaskStep(w)
<1>1. AcceptedTasks(a) = {} /\ ~Unsent(a)
  BY PositionSets DEF AttemptInv, PositionInv
<1>2. FreshTask(a) = 1 /\ 1 \in Tasks
  BY <1>1, FS_EmptySet, ConstantsAssumption DEF FreshTask, Tasks
<1>3. provider' = [provider EXCEPT ![a] = [provider[a] EXCEPT ![1] = "running"]]
  BY <1>2, AttemptTypes DEF Accept
<1>4. AcceptedTasks(a)' = {1}
  BY <1>1, <1>2, <1>3, AttemptTypes DEF AcceptedTasks
<1>5. \A b \in Attempts : b # a => SameTasks(b)
  BY <1>3, AttemptTypes DEF SameTasks, AcceptedTasks
<1> QED
  BY <1>1, <1>2, <1>4, <1>5 DEF TasksGrow, TaskStep, Takes

\* w goes on submitting its attempt.
LEMMA SubmitsOn ==
  ASSUME AttemptInv, RowStep, NEW w \in Workers, NEW a \in Attempts, a = proc[w].attempt,
         proc[w].pc \in Submitting, proc'[w].pc \in Submitting, proc'[w].attempt = a,
         OwnsJob(w)' => OwnsJob(w) /\ job'.active = job.active,
         proc'[w].pc \in Sending => AcceptedTasks(a)' = {},
         proc'[w].pc = "persist" => proc'[w].task \in AcceptedTasks(a)',
         proc'[w].pc \in {"capture", "pause"} => AcceptedTasks(a)' # {}
  PROVE  PositionInv(w)' /\ SubmitStep(w)
<1>1. ~Unsent(a) /\ (OwnsJob(w) => a = job.active)
  BY PositionSets DEF AttemptInv, PositionInv
<1>2. RowGoesOn(a)
  BY RowsGoOn
<1>3. ~Unsent(a)' /\ attempt'[a].status # "NONE"
  BY <1>1, <1>2 DEF RowGoesOn, Unsent
<1>4. PositionInv(w)'
  BY <1>1, <1>3, PositionSets DEF PositionInv, Unsent
<1> QED
  BY <1>4 DEF SubmitStep, Submits

LEMMA PostWorks ==
  ASSUME AttemptInv, NEW w \in Workers, PostAccepted(w) \/ PostAmbiguous(w) \/ PostRejected(w)
  PROVE  Works(w)
<1>0. proc[w].pc = "post" /\ proc[w].pc \in Sending /\ proc[w].pc \in Submitting
  BY DEF PostAccepted, PostAmbiguous, PostRejected, Sending, Submitting
<1>1. PICK a \in Attempts : a = proc[w].attempt
  BY <1>0, AttemptTypes, PositionSets
<1>types. proc \in [Workers -> ProcRow] /\ proc[w] \in ProcRow
  BY AttemptTypes
<1>2. job' = job /\ attempt' = attempt /\ reservation' = reservation
  BY DEF PostAccepted, PostAmbiguous, PostRejected, rows
<1>3. HolderStep(w) /\ (OwnsJob(w)' => OwnsJob(w) /\ job'.active = job.active)
  BY <1>2 DEF HolderStep, OwnsJob
<1>4. ASSUME TasksGrow
      PROVE  RowStep
  BY <1>2, <1>4, RowsStay DEF SameChain
<1>5. CASE PostAccepted(w)
  <2>1. Accept(a) /\ proc' = [proc EXCEPT ![w] = [proc[w] EXCEPT !.pc = "persist", !.task = FreshTask(a)]]
    BY <1>1, <1>5 DEF PostAccepted, Move
  <2>2. FreshTask(a) = 1 /\ AcceptedTasks(a)' = {1} /\ TasksGrow
    BY <1>0, <1>1, <2>1, Accepts
  <2>3. proc'[w].pc = "persist" /\ proc'[w].attempt = a /\ proc'[w].task = 1
    BY <1>1, <1>types, <2>1, <2>2 DEF ProcRow
  <2>4. TaskStep(w)
    BY <1>0, <1>1, <2>1, <2>3, Accepts, PositionSets
  <2>5. PositionInv(w)' /\ SubmitStep(w)
    BY <1>0, <1>1, <1>3, <1>4, <2>2, <2>3, SubmitsOn, PositionSets
  <2> QED
    BY <1>3, <1>4, <2>2, <2>4, <2>5 DEF Works
<1>6. CASE PostAmbiguous(w)
  <2>1. proc'[w].pc = "unknown" /\ proc'[w].attempt = a
    BY <1>1, <1>6, <1>types DEF PostAmbiguous, Goto, Move, ProcRow
  <2>2. TasksGrow /\ TaskStep(w)
    BY <1>0, <1>1, <1>6, <2>1, Accepts, Tasked, UnchangedTasks, PositionSets DEF PostAmbiguous
  <2>3. PositionInv(w)' /\ SubmitStep(w)
    BY <1>0, <1>1, <1>3, <1>4, <2>1, <2>2, SubmitsOn, PositionSets
  <2> QED
    BY <1>3, <1>4, <2>2, <2>3 DEF Works
<1>7. CASE PostRejected(w)
  <2>1. proc'[w].pc \in {"reject", "rejectTerminal"} /\ proc'[w].attempt = a
    BY <1>1, <1>7, <1>types DEF PostRejected, Goto, Move, ProcRow
  <2>2. TasksGrow /\ TaskStep(w) /\ SameTasks(a)
    BY <1>7, Tasked, UnchangedTasks DEF PostRejected
  <2>3. AcceptedTasks(a)' = {}
    BY <1>0, <1>1, <2>2 DEF AttemptInv, PositionInv, SameTasks
  <2>4. PositionInv(w)' /\ SubmitStep(w)
    BY <1>0, <1>1, <1>3, <1>4, <2>1, <2>2, <2>3, SubmitsOn DEF Submitting
  <2> QED
    BY <1>3, <1>4, <2>2, <2>4 DEF Works
<1> QED
  BY <1>5, <1>6, <1>7

\* A task that EvoLink accepted is bound to the attempt.
LEMMA PersistWorks ==
  ASSUME AttemptInv, NEW w \in Workers, NEW a \in Attempts, a = proc[w].attempt,
         proc[w].pc \in Submitting, NEW k \in AcceptedTasks(a)', TasksGrow,
         proc'[w].pc \notin Sending => TaskStep(w),
         PersistSubmittedFact(w, a, k)
  PROVE  Works(w)
<1>types. /\ job \in JobRow /\ attempt \in [Attempts -> AttemptRow] /\ attempt[a] \in AttemptRow
          /\ proc \in [Workers -> ProcRow]
  BY AttemptTypes
<1>1. attempt[a].status \in {"SUBMITTED", "SUBMITTING", "UNKNOWN"}
  BY DEF PersistSubmittedFact, AttemptMayBecome
<1>2. a = job.active /\ k # 0
  BY <1>1, UnderWayIsActive, ConstantsAssumption DEF AcceptedTasks, Tasks
<1>3. /\ \A b \in Attempts \ {a} : SameRow(b)
      /\ attempt'[a].status = "SUBMITTED" /\ attempt'[a].providerJob = k
      /\ attempt'[a].verdict = attempt[a].verdict
      /\ attempt'[a].accounting \in {attempt[a].accounting, "PENDING"}
  BY <1>types DEF PersistSubmittedFact, WithAttempt, Submitted, SameRow, AttemptRow
<1>4. Goes(a)
  BY <1>1, <1>2, <1>3 DEF Goes, Unsent
<1>5. SameChain /\ job'.status = job.status /\ job'.holder = job.holder
  BY <1>types DEF PersistSubmittedFact, JobRow, SameChain
<1>6. RowStep /\ HolderStep(w)
  BY <1>3, <1>4, <1>5, OneRowGoes, KeepsHolder DEF PersistSubmittedFact
<1>7. proc'[w].pc = "capture" /\ proc'[w].attempt = a
  BY <1>types DEF PersistSubmittedFact, Start, Move, At
<1>8. OwnsJob(w)' => OwnsJob(w) /\ job'.active = job.active
  BY <1>5 DEF OwnsJob, SameChain
<1>9. PositionInv(w)' /\ SubmitStep(w)
  BY <1>6, <1>7, <1>8, SubmitsOn, PositionSets
<1> QED
  BY <1>6, <1>7, <1>9, PositionSets DEF Works

LEMMA UnknownWorks ==
  ASSUME AttemptInv, NEW w \in Workers, NEW a \in Attempts, a = proc[w].attempt,
         proc[w].pc \in Submitting, TasksGrow, proc'[w].pc \notin Sending => TaskStep(w),
         MarkSubmissionUnknown(w, a)
  PROVE  Works(w)
<1>types. /\ job \in JobRow /\ attempt \in [Attempts -> AttemptRow] /\ attempt[a] \in AttemptRow
  BY AttemptTypes
<1>1. attempt[a].status \in {"SUBMITTED", "SUBMITTING", "UNKNOWN"}
  BY DEF MarkSubmissionUnknown, AttemptMayBecome
<1>2. /\ \A b \in Attempts \ {a} : SameRow(b)
      /\ attempt'[a].status = "UNKNOWN" /\ attempt'[a].providerJob = attempt[a].providerJob
      /\ attempt'[a].verdict = attempt[a].verdict
      /\ attempt'[a].accounting = attempt[a].accounting
  BY <1>types DEF MarkSubmissionUnknown, SameRow, AttemptRow
<1>3. Goes(a)
  BY <1>1, <1>2 DEF Goes, Unsent
<1>4. SameChain /\ Open /\ job'.holder = None
  BY <1>types
     DEF MarkSubmissionUnknown, JobMayBecome, TerminalJob, Open, Unleased, JobRow, SameChain
<1>5. RowStep /\ HolderStep(w)
  BY <1>2, <1>3, <1>4, OneRowGoes, GivesUp DEF MarkSubmissionUnknown
<1> QED
  BY <1>5, Finishes DEF MarkSubmissionUnknown, Works

LEMMA RejectionWorks ==
  ASSUME AttemptInv, NEW w \in Workers, NEW a \in Attempts, a = proc[w].attempt,
         proc[w].pc \in Sending, UNCHANGED provider, NEW terminal,
         RecordPreacceptRejection(w, a, terminal)
  PROVE  Works(w)
<1>types. /\ job \in JobRow /\ attempt \in [Attempts -> AttemptRow] /\ attempt[a] \in AttemptRow
          /\ proc \in [Workers -> ProcRow] /\ proc[w] \in ProcRow
  BY AttemptTypes
<1>0. /\ proc[w].pc \in Submitting /\ TaskStep(w) /\ TasksGrow /\ SameTasks(a)
      /\ ~Unsent(a) /\ attempt[a].status # "NONE" /\ RowInv(a) /\ AcceptedTasks(a) = {}
  BY PositionSets, Tasked, UnchangedTasks DEF AttemptInv, PositionInv, Unsent
<1>1. CASE /\ attempt' = [attempt EXCEPT ![a].rejections = @ + 1]
           /\ \E n \in IF OwnsJob(w) THEN {RetryMore(job.retryCount)} ELSE 1 .. MaxRetries :
                job' = [job EXCEPT !.retryCount = n]
           /\ Move(w, [proc[w] EXCEPT !.pc = "repost", !.retries = @ + 1])
           /\ UNCHANGED <<order, reservation, consentCase>>
  <2>1. /\ \A b \in Attempts \ {a} : SameRow(b)
        /\ attempt'[a].status = attempt[a].status
        /\ attempt'[a].providerJob = attempt[a].providerJob
        /\ attempt'[a].verdict = attempt[a].verdict
        /\ attempt'[a].accounting = attempt[a].accounting
    BY <1>types, <1>1 DEF SameRow, AttemptRow
  <2>2. /\ SameChain /\ job'.status = job.status /\ job'.holder = job.holder
        /\ reservation' = reservation
    BY <1>types, <1>1 DEF JobRow, SameChain
  <2>3. Goes(a)
    BY <1>0, <2>1, <2>2 DEF Goes, Unsent, RowInv, Open
  <2>4. RowStep /\ HolderStep(w)
    BY <1>0, <2>1, <2>2, <2>3, OneRowGoes, KeepsHolder
  <2>5. proc'[w].pc = "repost" /\ proc'[w].attempt = a
    BY <1>types, <1>1 DEF Move, ProcRow
  <2>6. OwnsJob(w)' => OwnsJob(w) /\ job'.active = job.active
    BY <2>2 DEF OwnsJob, SameChain
  <2>7. PositionInv(w)' /\ SubmitStep(w)
    BY <1>0, <2>4, <2>5, <2>6, SubmitsOn DEF Submitting, SameTasks
  <2> QED
    BY <1>0, <2>4, <2>7 DEF Works
<1>2. CASE /\ AttemptMayBecome(a, "FAILED")
           /\ attempt' = WithAttempt(a, [attempt[a] EXCEPT !.status = "FAILED",
                                                           !.rejections = @ + 1])
           /\ FailAndSettle(a = 1)
           /\ GotoReconcile(w)
  <2>1. /\ \A b \in Attempts \ {a} : SameRow(b)
        /\ attempt'[a].status = "FAILED"
        /\ attempt'[a].providerJob = attempt[a].providerJob
        /\ attempt'[a].verdict = attempt[a].verdict
        /\ attempt'[a].accounting = attempt[a].accounting
    BY <1>types, <1>2 DEF WithAttempt, SameRow, AttemptRow
  <2>2. attempt[a].status # "FINISHED"
    BY <1>2 DEF AttemptMayBecome
  <2>3. /\ SameChain /\ ~Open' /\ job'.holder = None /\ (~Open => job'.status = job.status)
        /\ (reservation'.status = "CAPTURED") = (reservation.status = "CAPTURED")
    BY <1>2, SettledRows
  <2>4. Goes(a)
    BY <1>0, <2>1, <2>2, <2>3 DEF Goes, Unsent
  <2>5. RowStep /\ HolderStep(w)
    BY <1>0, <2>1, <2>3, <2>4, OneRowGoes, GivesUp
  <2> QED
    BY <1>0, <1>2, <2>5, Finishes DEF Works
<1>3. CASE Finish(w) /\ UNCHANGED rows
  BY <1>3, LeavesIdly
<1> QED
  BY <1>1, <1>2, <1>3 DEF RecordPreacceptRejection

LEMMA RecordWorks ==
  ASSUME AttemptInv, NEW w \in Workers,
         RecordAcceptance(w) \/ RecordUnknown(w) \/ RecordRejection(w)
  PROVE  Works(w)
<1>0. proc[w].pc \in Submitting /\ UNCHANGED provider
  BY DEF RecordAcceptance, RecordUnknown, RecordRejection, Submitting
<1>1. PICK a \in Attempts : a = proc[w].attempt
  BY <1>0, AttemptTypes, PositionSets
<1>tasks. TasksGrow /\ TaskStep(w) /\ SameTasks(a)
  BY <1>0, Tasked, UnchangedTasks
<1>2. CASE RecordAcceptance(w)
  <2>1. proc[w].task \in AcceptedTasks(a)' /\ PersistSubmittedFact(w, a, proc[w].task)
    BY <1>1, <1>2, <1>tasks DEF RecordAcceptance, AttemptInv, PositionInv, SameTasks
  <2> QED
    BY <1>0, <1>1, <1>tasks, <2>1, PersistWorks
<1>3. CASE RecordUnknown(w)
  BY <1>0, <1>1, <1>3, <1>tasks, UnknownWorks DEF RecordUnknown
<1>4. CASE RecordRejection(w)
  BY <1>0, <1>1, <1>4, RejectionWorks DEF RecordRejection, Sending
<1> QED
  BY <1>2, <1>3, <1>4

LEMMA RepostWorks ==
  ASSUME AttemptInv, NEW w \in Workers, Repost(w)
  PROVE  Works(w)
<1>0. proc[w].pc \in Sending /\ proc[w].pc \in Submitting
  BY DEF Repost, Sending, Submitting
<1>1. PICK a \in Attempts : a = proc[w].attempt
  BY <1>0, AttemptTypes, PositionSets
<1>2. CASE Accept(a) /\ PersistSubmittedFact(w, a, FreshTask(a))
  <2>1. /\ FreshTask(a) \in AcceptedTasks(a)' /\ TasksGrow
        /\ proc'[w].pc \notin Sending => TaskStep(w)
    BY <1>0, <1>1, <1>2, Accepts
  <2> QED
    BY <1>0, <1>1, <1>2, <2>1, PersistWorks
<1>3. CASE (Accept(a) \/ UNCHANGED provider) /\ MarkSubmissionUnknown(w, a)
  <2>1. TasksGrow /\ (proc'[w].pc \notin Sending => TaskStep(w))
    BY <1>0, <1>1, <1>3, Accepts, Tasked, UnchangedTasks
  <2> QED
    BY <1>0, <1>1, <1>3, <2>1, UnknownWorks
<1>4. CASE /\ UNCHANGED provider
           /\ \E retryable \in BOOLEAN : RecordPreacceptRejection(w, a, IsTerminal(w, retryable))
  BY <1>0, <1>1, <1>4, RejectionWorks
<1>5. CASE Accept(a) /\ Finish(w) /\ UNCHANGED rows
  <2>1. PositionInv(w)' /\ SubmitStep(w) /\ proc'[w].pc \notin Sending
    BY <1>5, Finishes
  <2>2. TasksGrow /\ TaskStep(w)
    BY <1>0, <1>1, <1>5, <2>1, Accepts
  <2>3. job' = job /\ attempt' = attempt /\ reservation' = reservation
    BY <1>5 DEF rows
  <2>4. RowStep /\ HolderStep(w)
    BY <2>2, <2>3, RowsStay DEF SameChain, HolderStep, OwnsJob
  <2> QED
    BY <2>1, <2>2, <2>4 DEF Works
<1> QED
  BY <1>1, <1>2, <1>3, <1>4, <1>5 DEF Repost

LEMMA CaptureWorks ==
  ASSUME AttemptInv, NEW w \in Workers, CaptureSubmission(w) \/ PauseSubmitted(w)
  PROVE  Works(w)
<1>0. proc[w].pc \in Submitting /\ UNCHANGED provider
  BY DEF CaptureSubmission, PauseSubmitted, Submitting
<1>1. PICK a \in Attempts : a = proc[w].attempt
  BY <1>0, AttemptTypes, PositionSets
<1>types. /\ job \in JobRow /\ attempt \in [Attempts -> AttemptRow] /\ 1 \in Attempts
          /\ reservation \in ReservationRow /\ attempt[1] \in AttemptRow
          /\ proc \in [Workers -> ProcRow] /\ proc[w] \in ProcRow
  BY AttemptTypes
<1>tasks. TasksGrow /\ TaskStep(w) /\ \A b \in Attempts : SameTasks(b)
  BY <1>0, Tasked, UnchangedTasks
<1>2. CASE CaptureSubmission(w)
  <2>1. /\ AcceptedTasks(a) # {} /\ ~Unsent(a) /\ SameTasks(a)
        /\ attempt[a].status # "NONE" /\ RowInv(a)
    BY <1>0, <1>1, <1>2, <1>tasks DEF CaptureSubmission, AttemptInv, PositionInv, Unsent
  <2>2. job' = job
    BY <1>2 DEF CaptureSubmission
  <2>3. RowStep
    <3>1. CASE UNCHANGED <<reservation, attempt>>
      BY <3>1, <2>2, <1>tasks, RowsStay DEF SameChain
    <3>2. CASE /\ a = 1
               /\ reservation' = Captured(reservation)
               /\ attempt' = [attempt EXCEPT ![1].accounting = "CAPTURED"]
      <4>1. /\ \A b \in Attempts \ {a} : SameRow(b)
            /\ attempt'[a].status = attempt[a].status
            /\ attempt'[a].providerJob = attempt[a].providerJob
            /\ attempt'[a].verdict = attempt[a].verdict
            /\ attempt'[a].accounting = "CAPTURED"
            /\ reservation'.status = "CAPTURED"
        BY <1>types, <3>2 DEF SameRow, AttemptRow, Captured, ReservationRow
      <4>2. Goes(a)
        BY <2>1, <2>2, <4>1 DEF Goes, Unsent, RowInv, Open
      <4>3. RowsGo /\ SameChain /\ Ratchet
        BY <2>2, <4>1, <4>2 DEF RowsGo, SameChain, Ratchet
      <4> QED
        BY <2>1, <3>2, <4>3 DEF RowStep, CapturesTruly, SameTasks
    <3> QED
      BY <1>1, <1>2, <3>1, <3>2 DEF CaptureSubmission
  <2>4. proc'[w].pc = "pause" /\ proc'[w].attempt = a
    BY <1>1, <1>2, <1>types DEF CaptureSubmission, Goto, Move, ProcRow
  <2>5. OwnsJob(w)' => OwnsJob(w) /\ job'.active = job.active
    BY <2>2 DEF OwnsJob
  <2>6. PositionInv(w)' /\ SubmitStep(w)
    BY <1>0, <1>1, <2>1, <2>3, <2>4, <2>5, SubmitsOn, PositionSets DEF SameTasks
  <2> QED
    BY <1>tasks, <2>2, <2>3, <2>6 DEF Works, HolderStep, OwnsJob
<1>3. CASE PauseSubmitted(w)
  <2>1. Open
    BY <1>3 DEF PauseSubmitted, JobMayBecome, TerminalJob, Open
  <2>2. SameChain /\ job'.holder = None
    BY <1>3, <2>1, PausedRows DEF PauseSubmitted
  <2>3. RowStep
    BY <1>3, <1>tasks, <2>1, <2>2, RowsStay DEF PauseSubmitted
  <2> QED
    BY <1>3, <2>2, <2>3, LeavesTheJob DEF PauseSubmitted
<1> QED
  BY <1>2, <1>3

LEMMA SubmissionWorks ==
  ASSUME AttemptInv, NEW w \in Workers, Submission(w)
  PROVE  Works(w)
BY ClaimWorks, PrepareWorks, BoundaryWorks, PostWorks, RecordWorks, RepostWorks, CaptureWorks
   DEF Submission

-----------------------------------------------------------------------------
(* Reconciliation *)

\* w goes on with an attempt that is accounted for.
LEMMA ChargesOn ==
  ASSUME AttemptInv, RowStep, NEW w \in Workers, NEW a \in Attempts, a = proc[w].attempt,
         proc[w].pc \in Engaged, proc'[w].pc \in Charging, proc'[w].attempt = a,
         OwnsJob(w)' => OwnsJob(w) /\ job'.active = job.active,
         attempt[a].providerJob # 0, reservation'.status = "CAPTURED",
         proc'[w].pc \in Judging => attempt'[a].status = "FINISHED"
  PROVE  PositionInv(w)' /\ SubmitStep(w)
<1>1. attempt[a].status # "NONE" /\ (OwnsJob(w) => a = job.active)
  BY PositionSets DEF AttemptInv, PositionInv
<1>2. attempt'[a].status # "NONE" /\ attempt'[a].providerJob # 0
  BY <1>1, RowsGoOn DEF RowGoesOn
<1>3. PositionInv(w)'
  BY <1>1, <1>2, PositionSets DEF PositionInv
<1> QED
  BY <1>3, PositionSets DEF SubmitStep, Submits

\* The same where no row and no task changes.
LEMMA ChargesIdly ==
  ASSUME AttemptInv, NEW w \in Workers, UNCHANGED <<rows, provider>>,
         NEW a \in Attempts, a = proc[w].attempt,
         proc[w].pc \in Engaged, proc'[w].pc \in Charging, proc'[w].attempt = a,
         attempt[a].providerJob # 0, reservation.status = "CAPTURED",
         proc'[w].pc \in Judging => attempt[a].status = "FINISHED"
  PROVE  Works(w)
<1>1. RowStep /\ TaskStep(w) /\ HolderStep(w)
  BY PassesBy
<1>2. PositionInv(w)' /\ SubmitStep(w)
  BY <1>1, ChargesOn DEF rows, OwnsJob
<1> QED
  BY <1>1, <1>2 DEF Works

LEMMA CaseWorks ==
  ASSUME AttemptInv, NEW w \in Workers, NEW a \in Attempts, a = proc[w].attempt,
         proc[w].pc \in Engaged, SettleCase(a), Finish(w), UNCHANGED provider
  PROVE  /\ Works(w) /\ ~Open'
         /\ (reservation'.status = "CAPTURED") = (reservation.status = "CAPTURED")
<1>types. /\ job \in JobRow /\ attempt \in [Attempts -> AttemptRow] /\ attempt[a] \in AttemptRow
          /\ reservation \in ReservationRow
  BY AttemptTypes
<1>0. attempt[a].status # "NONE" /\ TasksGrow
  BY PositionSets, Tasked DEF AttemptInv, PositionInv
<1>1. /\ SameChain /\ job'.holder = None /\ job'.status = "CANCELLED" /\ ~Open'
      /\ ~Open => job'.status = job.status
  BY <1>types DEF SettleCase, CaseIsSettleable, Unleased, JobRow, SameChain, Open, TerminalJob
<1>2. (reservation'.status = "CAPTURED") = (reservation.status = "CAPTURED")
  BY <1>types DEF SettleCase, CaseMoney, Refunded, Released, ReservationRow
<1>3. RowStep
  <2>1. CASE attempt' = attempt
    BY <1>0, <1>1, <1>2, <2>1, RowsStay
  <2>2. CASE /\ attempt[a].status \notin {"FAILED", "FINISHED"}
             /\ attempt' = [attempt EXCEPT ![a].status = "FAILED"]
    <3>1. /\ \A b \in Attempts \ {a} : SameRow(b)
          /\ attempt'[a].status = "FAILED"
          /\ attempt'[a].providerJob = attempt[a].providerJob
          /\ attempt'[a].verdict = attempt[a].verdict
          /\ attempt'[a].accounting = attempt[a].accounting
      BY <1>types, <2>2 DEF SameRow, AttemptRow
    <3>2. Goes(a)
      BY <1>0, <1>1, <2>2, <3>1 DEF Goes, Unsent
    <3> QED
      BY <1>0, <1>1, <1>2, <3>1, <3>2, OneRowGoes
  <2> QED
    BY <2>1, <2>2 DEF SettleCase
<1> QED
  BY <1>1, <1>2, <1>3, LeavesTheJob

LEMMA ReconciliationClaimWorks ==
  ASSUME AttemptInv, NEW w \in Workers, ReconciliationRefused(w) \/ ReconciliationGranted(w)
  PROVE  Works(w)
<1>1. CASE ReconciliationRefused(w)
  BY <1>1, LeavesIdly DEF ReconciliationRefused
<1>2. CASE ReconciliationGranted(w)
  <2>types. /\ job \in JobRow /\ attempt \in [Attempts -> AttemptRow]
            /\ proc \in [Workers -> ProcRow]
    BY AttemptTypes
  <2>0. TasksGrow /\ TaskStep(w)
    BY <1>2, Tasked, UnchangedTasks DEF ReconciliationGranted
  <2>1. PICK a \in Attempts : a = job.active /\ attempt[a].status \in Unsafe
    BY <1>2, ActiveTyped, AttemptTypes DEF ReconciliationGranted, ActiveStatus, Unsafe
  <2>2. SameChain /\ job'.holder = w /\ Open
    BY <1>2, <2>types
       DEF ReconciliationGranted, ReconciliationClaimable, Leased, JobRow, SameChain, Open,
           TerminalJob
  <2>3. RowStep /\ attempt'[a].status # "NONE"
    <3>1. CASE attempt[a].status # "SUBMITTING"
      <4>1. attempt' = attempt
        BY <1>2, <2>1, <3>1 DEF ReconciliationGranted, SubmittingIsUnknown, ActiveStatus
      <4> QED
        BY <1>2, <2>0, <2>1, <2>2, <4>1, RowsStay DEF ReconciliationGranted, Unsafe
    <3>2. CASE attempt[a].status = "SUBMITTING"
      <4>1. attempt' = [attempt EXCEPT ![a].status = "UNKNOWN"]
        BY <1>2, <2>1, <3>2, AttemptTypes
           DEF ReconciliationGranted, SubmittingIsUnknown, ActiveStatus
      <4>2. /\ \A b \in Attempts \ {a} : SameRow(b)
            /\ attempt'[a].status = "UNKNOWN"
            /\ attempt'[a].providerJob = attempt[a].providerJob
            /\ attempt'[a].verdict = attempt[a].verdict
            /\ attempt'[a].accounting = attempt[a].accounting
        BY <2>types, <4>1 DEF SameRow, AttemptRow
      <4>3. Goes(a)
        BY <3>2, <4>2 DEF Goes, Unsent
      <4> QED
        BY <1>2, <2>0, <2>2, <4>2, <4>3, OneRowGoes DEF ReconciliationGranted
    <3> QED
      BY <3>1, <3>2
  <2>4. proc'[w].pc = "load" /\ proc'[w].attempt = a
    BY <1>2, <2>types, <2>1 DEF ReconciliationGranted, Start, Move, At
  <2>5. PositionInv(w)' /\ SubmitStep(w)
    BY <2>1, <2>2, <2>3, <2>4
       DEF PositionInv, SubmitStep, Submits, SameChain, Submitting, Judging, Charging, Sending
  <2> QED
    BY <2>0, <2>2, <2>3, <2>5, GivesUp DEF Works
<1> QED
  BY <1>1, <1>2

\* The capture is finished.
LEMMA AccountedRows ==
  ASSUME AttemptInv, NEW a \in Attempts, TasksGrow, UNCHANGED job,
         attempt[a].status \in {"SUBMITTED", "UNKNOWN"}, attempt[a].providerJob # 0,
         Accounted(a)
  PROVE  RowStep /\ reservation'.status = "CAPTURED"
<1>types. /\ attempt \in [Attempts -> AttemptRow] /\ attempt[a] \in AttemptRow
          /\ reservation \in ReservationRow /\ 1 \in Attempts
  BY AttemptTypes
<1>1. AcceptedTasks(a) # {} /\ RowInv(a)
  BY DEF AttemptInv, RowInv
<1>2. CaptureLineage \/ attempt[1].accounting = "CAPTURED" => reservation.status = "CAPTURED"
  BY DEF AttemptInv, CreditInv, CaptureLineage
<1>3. CASE /\ reservation.status = "CAPTURED" /\ UNCHANGED reservation
           /\ attempt' = [attempt EXCEPT ![a].status = "SUBMITTED"]
  <2>1. /\ \A b \in Attempts \ {a} : SameRow(b)
        /\ attempt'[a].status = "SUBMITTED"
        /\ attempt'[a].providerJob = attempt[a].providerJob
        /\ attempt'[a].verdict = attempt[a].verdict
        /\ attempt'[a].accounting = attempt[a].accounting
    BY <1>types, <1>3 DEF SameRow, AttemptRow
  <2>2. Goes(a)
    BY <2>1 DEF Goes, Unsent
  <2>3. RowStep
    BY <1>3, <2>1, <2>2, OneRowGoes DEF SameChain
  <2> QED
    BY <1>3, <2>3
<1>4. CASE /\ a = 1 /\ reservation' = Captured(reservation)
           /\ attempt' = [attempt EXCEPT ![1].status = "SUBMITTED", ![1].accounting = "CAPTURED"]
  <2>1. /\ \A b \in Attempts \ {a} : SameRow(b)
        /\ attempt'[a].status = "SUBMITTED"
        /\ attempt'[a].providerJob = attempt[a].providerJob
        /\ attempt'[a].verdict = attempt[a].verdict
        /\ reservation'.status = "CAPTURED"
    BY <1>types, <1>4 DEF SameRow, AttemptRow, Captured, ReservationRow
  <2>2. attempt'[a].accounting = "CAPTURED"
    BY <1>types, <1>4 DEF AttemptRow
  <2>3. Goes(a)
    BY <2>1, <2>2 DEF Goes, Unsent
  <2>4. RowsGo /\ SameChain /\ Ratchet
    BY <2>1, <2>3 DEF RowsGo, SameChain, Ratchet
  <2>5. CapturesTruly
    BY <1>1, <1>4 DEF CapturesTruly, TasksGrow, SameTasks
  <2> QED
    BY <2>1, <2>4, <2>5 DEF RowStep
<1> QED
  BY <1>2, <1>3, <1>4 DEF Accounted

LEMMA LoadWorks ==
  ASSUME AttemptInv, NEW w \in Workers,
         \/ AccountForSubmission(w) \/ PauseForOperator(w) \/ ResumeAtQa(w) \/ LoadRefused(w)
         \/ QueryAnswered(w) \/ QueryRaises(w)
  PROVE  Works(w)
<1>0. proc[w].pc \in Engaged /\ UNCHANGED provider
  BY PositionSets DEF AccountForSubmission, PauseForOperator, ResumeAtQa, LoadRefused, QueryAnswered,
     QueryRaises, MayQueryUnknown
<1>1. PICK a \in Attempts : a = proc[w].attempt
  BY <1>0, AttemptTypes, PositionSets
<1>types. job \in JobRow /\ proc \in [Workers -> ProcRow] /\ proc[w] \in ProcRow
  BY AttemptTypes
<1>tasks. TasksGrow /\ TaskStep(w)
  BY <1>0, Tasked, UnchangedTasks
<1>2. CASE AccountForSubmission(w) \/ QueryAnswered(w)
  <2>1. /\ attempt[a].status \in {"SUBMITTED", "UNKNOWN"} /\ attempt[a].providerJob # 0
        /\ Accounted(a) /\ UNCHANGED job
    BY <1>1, <1>2
       DEF AccountForSubmission, QueryAnswered, MayQueryUnknown, AttemptInv, RowInv
  <2>2. RowStep /\ reservation'.status = "CAPTURED"
    BY <1>tasks, <2>1, AccountedRows
  <2>3. proc'[w].pc \in {"query", "polled", "answered"} /\ proc'[w].attempt = a
    BY <1>1, <1>2, <1>types DEF AccountForSubmission, QueryAnswered, Goto, Move, ProcRow
  <2>4. OwnsJob(w)' => OwnsJob(w) /\ job'.active = job.active
    BY <2>1 DEF OwnsJob
  <2>5. PositionInv(w)' /\ SubmitStep(w)
    BY <1>0, <1>1, <2>1, <2>2, <2>3, <2>4, ChargesOn DEF Charging, Judging
  <2> QED
    BY <1>tasks, <2>1, <2>2, <2>5 DEF Works, HolderStep, OwnsJob
<1>3. CASE PauseForOperator(w)
  <2>1. Open
    BY <1>3 DEF PauseForOperator, Fence, OwnsJob, Open, TerminalJob
  <2>2. SameChain /\ job'.holder = None
    BY <1>3, <2>1, PausedRows DEF PauseForOperator
  <2>3. RowStep
    BY <1>3, <1>tasks, <2>1, <2>2, RowsStay DEF PauseForOperator
  <2> QED
    BY <1>3, <2>2, <2>3, LeavesTheJob DEF PauseForOperator
<1>4. CASE ResumeAtQa(w)
  <2>1. /\ attempt[a].status = "FINISHED" /\ attempt[a].providerJob # 0
        /\ reservation.status = "CAPTURED"
    BY <1>1, <1>4 DEF ResumeAtQa, AttemptInv, RowInv
  <2>2. proc'[w].pc = "qa" /\ proc'[w].attempt = a
    BY <1>1, <1>4, <1>types DEF ResumeAtQa, Goto, Move, ProcRow
  <2> QED
    BY <1>0, <1>1, <1>4, <2>1, <2>2, ChargesIdly DEF ResumeAtQa, Charging, Judging
<1>5. CASE LoadRefused(w) \/ QueryRaises(w)
  BY <1>5, LeavesIdly DEF LoadRefused, QueryRaises
<1> QED
  BY <1>2, <1>3, <1>4, <1>5

\* w leaves, having paused or failed the job.
LEMMA PausesOrFails ==
  ASSUME AttemptInv, NEW w \in Workers, UNCHANGED <<attempt, provider>>, Finish(w),
         \/ \E allow \in BOOLEAN : FailAndSettle(allow)
         \/ /\ Open /\ UNCHANGED reservation
            /\ \E n \in Nat : job' \in {Paused(job, "later"), [Paused(job, "later") EXCEPT !.retryCount = n]}
  PROVE  Works(w)
<1>0. TasksGrow
  BY Tasked
<1>1. CASE \E allow \in BOOLEAN : FailAndSettle(allow)
  <2>1. /\ SameChain /\ job'.holder = None /\ (~Open => job'.status = job.status)
        /\ (reservation'.status = "CAPTURED") = (reservation.status = "CAPTURED")
    BY <1>1, SettledRows
  <2> QED
    BY <1>0, <2>1, RowsStay, LeavesTheJob
<1>2. CASE /\ Open /\ UNCHANGED reservation
           /\ \E n \in Nat : job' \in {Paused(job, "later"), [Paused(job, "later") EXCEPT !.retryCount = n]}
  <2>0. PICK n \in Nat : job' \in {Paused(job, "later"), [Paused(job, "later") EXCEPT !.retryCount = n]}
    BY <1>2
  <2>1. SameChain /\ job'.holder = None
    BY <2>0, AttemptTypes DEF Paused, Unleased, JobRow, SameChain
  <2>2. RowStep
    BY <1>0, <1>2, <2>1, RowsStay
  <2> QED
    BY <2>1, <2>2, LeavesTheJob
<1> QED
  BY <1>1, <1>2

LEMMA FencedIsOpen ==
  ASSUME NEW w, Fence(w)
  PROVE  Open
BY DEF Fence, OwnsJob, Open, TerminalJob

LEMMA RetriedRows ==
  ASSUME AttemptInv, RetryLater
  PROVE  \E n \in Nat : job' \in {Paused(job, "later"), [Paused(job, "later") EXCEPT !.retryCount = n]}
<1> DEFINE j == Paused(job, "later")
<1>1. j \in JobRow
  BY AttemptTypes, JobTyped
<1>2. RetryMore(j.retryCount) \in Nat
  BY <1>1, RetryMoreTyped, ConstantsAssumption DEF JobRow
<1> QED
  BY <1>2 DEF RetryLater

LEMMA QueryWorks ==
  ASSUME AttemptInv, NEW w \in Workers,
         \/ QueryPending(w) \/ QueryFailed(w) \/ QuerySucceeded(w)
         \/ PolledAgain(w) \/ AnswerUsed(w)
  PROVE  Works(w)
<1>0. proc[w].pc \in Engaged /\ UNCHANGED provider
  BY PositionSets
     DEF QueryPending, QueryFailed, QuerySucceeded, PolledAgain, AnswerUsed, MayQuery,
         MayQueryUnknown, Charging, Engaged
<1>1. PICK a \in Attempts : a = proc[w].attempt
  BY <1>0, AttemptTypes, PositionSets
<1>types. /\ attempt \in [Attempts -> AttemptRow] /\ attempt[a] \in AttemptRow
          /\ proc \in [Workers -> ProcRow] /\ proc[w] \in ProcRow
  BY AttemptTypes
<1>2. CASE QueryPending(w) \/ PolledAgain(w)
  <2>1. Open /\ UNCHANGED attempt /\ Finish(w)
    BY <1>2, FencedIsOpen DEF QueryPending, PolledAgain, MayQuery
  <2>2. \/ FailAndSettle(FALSE)
        \/ UNCHANGED reservation /\ (RetryLater \/ job' = Paused(job, "later"))
    BY <1>2 DEF QueryPending, PolledAgain
  <2> QED
    BY <1>0, <2>1, <2>2, RetriedRows, PausesOrFails
<1>3. CASE SettleCase(a) /\ Finish(w)
  BY <1>0, <1>1, <1>3, CaseWorks
<1>4. CASE /\ QueryFailed(w)
           /\ AttemptMayBecome(a, "FAILED")
           /\ attempt' = [attempt EXCEPT ![a].status = "FAILED"]
           /\ FailAndSettle(MayQueryUnknown(w))
  <2>1. /\ \A b \in Attempts \ {a} : SameRow(b)
        /\ attempt'[a].status = "FAILED"
        /\ attempt'[a].providerJob = attempt[a].providerJob
        /\ attempt'[a].verdict = attempt[a].verdict
        /\ attempt'[a].accounting = attempt[a].accounting
    BY <1>types, <1>4 DEF SameRow, AttemptRow
  <2>2. /\ SameChain /\ ~Open' /\ job'.holder = None /\ (~Open => job'.status = job.status)
        /\ (reservation'.status = "CAPTURED") = (reservation.status = "CAPTURED")
    BY <1>4, SettledRows
  <2>3. attempt[a].status \notin {"NONE", "FINISHED"}
    BY <1>4 DEF AttemptMayBecome
  <2>4. Goes(a)
    BY <2>1, <2>2, <2>3 DEF Goes, Unsent
  <2>5. RowStep
    BY <1>0, <2>1, <2>2, <2>4, Tasked, OneRowGoes
  <2> QED
    BY <1>0, <1>4, <2>2, <2>5, LeavesTheJob DEF QueryFailed
<1>5. CASE /\ proc[w].pc \in {"query", "answered"} /\ Goto(w, "store") /\ UNCHANGED <<rows, provider>>
  <2>1. proc'[w].pc = "store" /\ proc'[w].attempt = a
    BY <1>1, <1>5, <1>types DEF Goto, Move, ProcRow
  <2>2. attempt[a].providerJob # 0 /\ reservation.status = "CAPTURED"
    BY <1>1, <1>5 DEF AttemptInv, PositionInv, Charging
  <2> QED
    BY <1>0, <1>1, <1>5, <2>1, <2>2, ChargesIdly DEF Charging, Judging
<1>6. CASE QueryFailed(w)
  BY <1>1, <1>3, <1>4, <1>6 DEF QueryFailed
<1>7. CASE QuerySucceeded(w)
  BY <1>0, <1>1, <1>3, <1>5, <1>7 DEF QuerySucceeded, MayQuery
<1>8. CASE AnswerUsed(w)
  BY <1>0, <1>1, <1>3, <1>5, <1>8 DEF AnswerUsed
<1> QED
  BY <1>2, <1>6, <1>7, <1>8

LEMMA StoreWorks ==
  ASSUME AttemptInv, NEW w \in Workers, StoreCandidate(w) \/ StoreFails(w)
  PROVE  Works(w)
<1>1. CASE StoreFails(w)
  BY <1>1, LeavesIdly DEF StoreFails
<1>2. CASE StoreCandidate(w)
  <2>0. proc[w].pc \in Charging /\ proc[w].pc \in Engaged /\ UNCHANGED <<job, reservation, provider>>
    BY <1>2 DEF StoreCandidate, Charging, Engaged
  <2>1. PICK a \in Attempts : a = proc[w].attempt
    BY <2>0, AttemptTypes, PositionSets
  <2>types. /\ attempt \in [Attempts -> AttemptRow] /\ attempt[a] \in AttemptRow
            /\ proc \in [Workers -> ProcRow] /\ proc[w] \in ProcRow
    BY AttemptTypes
  <2>2. attempt[a].providerJob # 0 /\ reservation.status = "CAPTURED"
    BY <2>0, <2>1 DEF AttemptInv, PositionInv
  <2>3. /\ \A b \in Attempts \ {a} : SameRow(b)
        /\ attempt'[a].status = "FINISHED"
        /\ attempt'[a].providerJob = attempt[a].providerJob
        /\ attempt'[a].verdict = attempt[a].verdict
        /\ attempt'[a].accounting = attempt[a].accounting
    BY <1>2, <2>1, <2>types DEF StoreCandidate, SameRow, AttemptRow
  <2>4. attempt[a].status \in {"SUBMITTED", "UNKNOWN", "FINISHED"}
    BY <1>2, <2>1 DEF StoreCandidate, AttemptMayBecome
  <2>5. Goes(a)
    BY <2>0, <2>2, <2>3, <2>4 DEF Goes, Unsent
  <2>6. RowStep /\ TaskStep(w) /\ HolderStep(w)
    BY <2>0, <2>3, <2>5, Tasked, UnchangedTasks, OneRowGoes, KeepsHolder DEF SameChain
  <2>7. proc'[w].pc = "qa" /\ proc'[w].attempt = a
    BY <1>2, <2>1, <2>types DEF StoreCandidate, Goto, Move, ProcRow
  <2>8. OwnsJob(w)' => OwnsJob(w) /\ job'.active = job.active
    BY <2>0 DEF OwnsJob
  <2>9. PositionInv(w)' /\ SubmitStep(w)
    BY <2>0, <2>1, <2>2, <2>3, <2>6, <2>7, <2>8, ChargesOn DEF Charging, Judging
  <2> QED
    BY <2>6, <2>9 DEF Works
<1> QED
  BY <1>1, <1>2

LEMMA QaWorks ==
  ASSUME AttemptInv, NEW w \in Workers,
         \/ BeginQa(w) \/ PersistVerdict(w) \/ QaInfrastructureFails(w) \/ RetryQa(w)
         \/ EvaluateRefused(w) \/ SettleInsteadOfDecision(w) \/ DecidePass(w)
  PROVE  Works(w)
<1>0. /\ proc[w].pc \in Judging /\ proc[w].pc \in Charging /\ proc[w].pc \in Engaged
      /\ UNCHANGED provider
  BY PositionSets DEF BeginQa, PersistVerdict, QaInfrastructureFails, RetryQa, EvaluateRefused,
     SettleInsteadOfDecision, DecidePass, MayEvaluate, Judging
<1>1. PICK a \in Attempts : a = proc[w].attempt
  BY <1>0, AttemptTypes, PositionSets
<1>types. /\ job \in JobRow /\ attempt \in [Attempts -> AttemptRow] /\ attempt[a] \in AttemptRow
          /\ proc \in [Workers -> ProcRow] /\ proc[w] \in ProcRow
  BY AttemptTypes
<1>2. /\ attempt[a].status = "FINISHED" /\ attempt[a].providerJob # 0
      /\ reservation.status = "CAPTURED"
  BY <1>0, <1>1 DEF AttemptInv, PositionInv
<1>3. ASSUME UNCHANGED rows, proc'[w].pc \in Judging, proc'[w].attempt = a
      PROVE  Works(w)
  BY <1>0, <1>1, <1>2, <1>3, ChargesIdly, PositionSets
<1>4. CASE SettleCase(a) /\ Finish(w)
  BY <1>0, <1>1, <1>4, CaseWorks
<1>5. CASE BeginQa(w) /\ UNCHANGED rows /\ Move(w, [proc[w] EXCEPT !.pc = "evaluate", !.retries = job.retryCount])
  <2>1. proc'[w].pc = "evaluate" /\ proc'[w].attempt = a
    BY <1>1, <1>5, <1>types DEF Move, ProcRow
  <2> QED
    BY <1>3, <1>5, <2>1 DEF Judging
<1>6. CASE PersistVerdict(w)
  <2>1. proc'[w].pc = "decide" /\ proc'[w].attempt = a
    BY <1>1, <1>6, <1>types DEF PersistVerdict, Goto, Move, ProcRow
  <2>2. CASE UNCHANGED attempt
    BY <1>3, <1>6, <2>1, <2>2 DEF PersistVerdict, rows, Judging
  <2>3. CASE /\ attempt[a].verdict = "none"
             /\ \E v \in {"PASS", "REPAIR", "REJECT"} : attempt' = [attempt EXCEPT ![a].verdict = v]
    <3>1. /\ \A b \in Attempts \ {a} : SameRow(b)
          /\ attempt'[a].status = "FINISHED"
          /\ attempt'[a].providerJob = attempt[a].providerJob
          /\ attempt'[a].accounting = attempt[a].accounting
      BY <1>types, <1>2, <2>3 DEF SameRow, AttemptRow
    <3>2. job' = job /\ reservation' = reservation
      BY <1>6 DEF PersistVerdict
    <3>3. Goes(a)
      BY <1>2, <2>3, <3>1, <3>2 DEF Goes, Unsent
    <3>4. RowStep /\ TaskStep(w) /\ HolderStep(w)
      BY <1>0, <3>1, <3>2, <3>3, Tasked, UnchangedTasks, OneRowGoes, KeepsHolder DEF SameChain
    <3>5. OwnsJob(w)' => OwnsJob(w) /\ job'.active = job.active
      BY <3>2 DEF OwnsJob
    <3>6. PositionInv(w)' /\ SubmitStep(w)
      BY <1>0, <1>1, <1>2, <2>1, <3>1, <3>2, <3>4, <3>5, ChargesOn DEF Charging, Judging
    <3> QED
      BY <3>4, <3>6 DEF Works
  <2> QED
    BY <1>1, <1>6, <2>2, <2>3 DEF PersistVerdict
<1>7. CASE QaInfrastructureFails(w) \/ DecidePass(w)
  <2>1. proc'[w].pc \in {"retryQa", "deliver"} /\ proc'[w].attempt = a
    BY <1>1, <1>7, <1>types DEF QaInfrastructureFails, DecidePass, Goto, Move, ProcRow
  <2> QED
    BY <1>3, <1>7, <2>1 DEF QaInfrastructureFails, DecidePass, Judging
<1>8. CASE RetryQa(w)
  <2>1. Open
    BY <1>8 DEF RetryQa, JobMayBecome, TerminalJob, Open
  <2>2. proc[w].retries + 1 \in Nat
    BY <1>types, ConstantsAssumption DEF ProcRow
  <2> QED
    BY <1>8, <2>1, <2>2, PausesOrFails DEF RetryQa
<1>9. CASE EvaluateRefused(w)
  BY <1>9, LeavesIdly DEF EvaluateRefused
<1>10. CASE BeginQa(w) \/ SettleInsteadOfDecision(w)
  BY <1>1, <1>4, <1>5, <1>10 DEF BeginQa, SettleInsteadOfDecision
<1> QED
  BY <1>6, <1>7, <1>8, <1>9, <1>10

LEMMA DecideWorks ==
  ASSUME AttemptInv, NEW w \in Workers,
         DecideRepair(w) \/ DecideFail(w) \/ Deliver(w) \/ DeliveryFails(w)
  PROVE  Works(w)
<1>0. /\ proc[w].pc \in Judging /\ proc[w].pc \in Engaged /\ UNCHANGED provider /\ Finish(w)
  BY PositionSets DEF DecideRepair, DecideFail, Deliver, DeliveryFails, MayDeliver, Judging
<1>1. PICK a \in Attempts : a = proc[w].attempt
  BY <1>0, AttemptTypes, PositionSets
<1>types. job \in JobRow
  BY AttemptTypes
<1>2. CASE DecideRepair(w)
  <2>1. /\ a = job.active /\ attempt[a].status = "FINISHED"
    BY <1>0, <1>1, <1>2 DEF DecideRepair, Fence, AttemptInv, PositionInv
  <2>2. /\ job'.active = job.repairCount + 2 /\ job'.repairCount = job.repairCount + 1
        /\ job'.holder = None /\ job'.status = job.status
    BY <1>2, <1>types DEF DecideRepair, Unleased, JobRow
  <2>3. RepairCreated
    BY <1>1, <1>2, <2>1, <2>2 DEF DecideRepair, MayRepair, RepairCreated
  <2>4. CapturesTruly
    BY <1>0, <1>2, Tasked, AttemptTypes
       DEF DecideRepair, CapturesTruly, AttemptInv, CreditInv, SameTasks
  <2>5. RowStep
    BY <1>2, <2>2, <2>3, <2>4 DEF DecideRepair, RowStep, Ratchet
  <2> QED
    BY <1>0, <2>2, <2>5, LeavesTheJob
<1>3. CASE DecideFail(w)
  BY <1>0, <1>3, PausesOrFails DEF DecideFail
<1>4. CASE Deliver(w)
  <2>1. /\ SameChain /\ job'.holder = None /\ (~Open => job'.status = job.status)
    BY <1>4, <1>types
       DEF Deliver, MayDeliver, JobMayBecome, Open, TerminalJob, Unleased, JobRow, SameChain
  <2> QED
    BY <1>0, <1>4, <2>1, Tasked, RowsStay, LeavesTheJob DEF Deliver
<1>5. CASE DeliveryFails(w)
  <2>1. Open /\ UNCHANGED attempt
    BY <1>5, FencedIsOpen DEF DeliveryFails
  <2>2. CASE UNCHANGED <<job, order, reservation>>
    BY <1>0, <1>5, <2>2, LeavesIdly DEF DeliveryFails, rows
  <2>3. CASE FailAndSettle(FALSE)
    BY <1>0, <2>1, <2>3, PausesOrFails
  <2>4. CASE RetryLater /\ UNCHANGED reservation
    BY <1>0, <2>1, <2>4, RetriedRows, PausesOrFails
  <2> QED
    BY <1>5, <2>2, <2>3, <2>4 DEF DeliveryFails
<1> QED
  BY <1>2, <1>3, <1>4, <1>5

LEMMA ReconciliationWorks ==
  ASSUME AttemptInv, NEW w \in Workers, Reconciliation(w)
  PROVE  Works(w)
BY ReconciliationClaimWorks, LoadWorks, QueryWorks, StoreWorks, QaWorks, DecideWorks
   DEF Reconciliation

LEMMA WorkerStepWorks ==
  ASSUME AttemptInv, NEW w \in Workers, Select(w) \/ Work(w) \/ Crash(w)
  PROVE  Works(w)
<1>1. CASE Select(w) \/ Submission(w) \/ Reconciliation(w)
  BY <1>1, SelectWorks, SubmissionWorks, ReconciliationWorks
<1>2. CASE LostFence(w) \/ Restart(w)
  BY <1>2, LeavesIdly DEF LostFence, Restart
<1>3. CASE Crash(w)
  <2>1. At("dead", 0).pc \notin Targeted
    BY PositionSets DEF At
  <2> QED
    BY <1>3, <2>1, PassesBy, Leaves DEF Crash, Start, Works
<1> QED
  BY <1>1, <1>2, <1>3 DEF Work

-----------------------------------------------------------------------------
(* What happens outside the invocations *)

\* A step of nobody: the clock, the Provider, the operator, the partner.
Aside ==
  /\ RowStep /\ UNCHANGED proc /\ \A a \in Attempts : SameTasks(a)
  /\ \A v \in Workers : OwnsJob(v)' => OwnsJob(v) /\ job'.active = job.active

LEMMA TimePassesAside ==
  ASSUME AttemptInv,
         \/ LeaseExpires \/ RetryFallsDue \/ ReservationTimesOut
         \/ \E a \in Attempts : PollDeadlinePasses(a)
  PROVE  Aside
<1>types. job \in JobRow /\ attempt \in [Attempts -> AttemptRow] /\ reservation \in ReservationRow
  BY AttemptTypes
<1>0. UNCHANGED <<provider, proc>> /\ TasksGrow /\ \A a \in Attempts : SameTasks(a)
  BY Tasked DEF LeaseExpires, RetryFallsDue, ReservationTimesOut, PollDeadlinePasses
<1>1. CASE LeaseExpires \/ RetryFallsDue
  <2>1. SameChain /\ job'.status = job.status /\ job'.holder = job.holder
    BY <1>1, <1>types DEF LeaseExpires, RetryFallsDue, JobRow, SameChain
  <2>2. RowStep
    BY <1>0, <1>1, <2>1, RowsStay DEF LeaseExpires, RetryFallsDue
  <2> QED
    BY <1>0, <2>1, <2>2 DEF Aside, OwnsJob, SameChain
<1>2. CASE ReservationTimesOut
  <2>1. reservation'.status = reservation.status
    BY <1>2, <1>types DEF ReservationTimesOut, ReservationRow
  <2>2. RowStep
    BY <1>0, <1>2, <2>1, RowsStay DEF ReservationTimesOut, SameChain
  <2> QED
    BY <1>0, <1>2, <2>2 DEF Aside, ReservationTimesOut, OwnsJob
<1>3. ASSUME NEW a \in Attempts, PollDeadlinePasses(a)
      PROVE  Aside
  <2>1. attempt[a] \in AttemptRow
    BY AttemptTypes
  <2>2. /\ \A b \in Attempts \ {a} : SameRow(b)
        /\ attempt'[a].status = attempt[a].status
        /\ attempt'[a].providerJob = attempt[a].providerJob
        /\ attempt'[a].verdict = attempt[a].verdict
        /\ attempt'[a].accounting = attempt[a].accounting
    BY <1>3, <1>types, <2>1 DEF PollDeadlinePasses, SameRow, AttemptRow
  <2>3. Goes(a)
    BY <1>3, <2>2 DEF PollDeadlinePasses, Goes, Unsent
  <2>4. RowStep
    BY <1>0, <1>3, <2>2, <2>3, OneRowGoes DEF PollDeadlinePasses, SameChain
  <2> QED
    BY <1>0, <1>3, <2>4 DEF Aside, PollDeadlinePasses, OwnsJob
<1> QED
  BY <1>1, <1>2, <1>3

LEMMA ProviderPassesAside ==
  ASSUME AttemptInv, NEW a \in Attempts, NEW k \in Tasks, TaskEnds(a, k) \/ Callback(a, k)
  PROVE  Aside
<1>types. /\ job \in JobRow /\ attempt \in [Attempts -> AttemptRow] /\ attempt[a] \in AttemptRow
          /\ provider \in [Attempts -> [Tasks -> TaskState]] /\ k # 0
          /\ "none" \notin TaskOutcomes
  BY AttemptTypes, ConstantsAssumption DEF Tasks
<1>1. CASE TaskEnds(a, k)
  <2>1. \A b \in Attempts : SameTasks(b)
    BY <1>1, <1>types DEF TaskEnds, SameTasks, AcceptedTasks
  <2>2. job' = job /\ attempt' = attempt /\ reservation' = reservation /\ proc' = proc
    BY <1>1 DEF TaskEnds, rows
  <2>3. RowStep
    BY <2>1, <2>2, RowsStay DEF SameChain, TasksGrow
  <2> QED
    BY <2>1, <2>2, <2>3 DEF Aside, OwnsJob
<1>2. CASE Callback(a, k)
  <2>0. UNCHANGED <<reservation, provider, proc>> /\ TasksGrow /\ \A b \in Attempts : SameTasks(b)
    BY <1>2, Tasked DEF Callback
  <2>1. /\ a = job.active /\ attempt[a].status \in AtProvider /\ k \in AcceptedTasks(a)'
    BY <1>2, <1>types, <2>0 DEF Callback, CallbackAccepted, AtProvider, AcceptedTasks
  <2>2. /\ \A b \in Attempts \ {a} : SameRow(b)
        /\ attempt'[a].status = "SUBMITTED"
        /\ attempt'[a].providerJob = k
        /\ attempt'[a].verdict = attempt[a].verdict
        /\ attempt'[a].accounting \in {attempt[a].accounting, "PENDING"}
    BY <1>2, <1>types DEF Callback, WithAttempt, Submitted, SameRow, AttemptRow
  <2>3. Goes(a)
    BY <1>types, <2>1, <2>2 DEF Goes, Unsent, AtProvider
  <2>4. /\ SameChain /\ (~Open => job'.status = job.status)
        /\ \A v \in Workers : OwnsJob(v)' => OwnsJob(v) /\ job'.active = job.active
    BY <1>2, <1>types
       DEF Callback, CallbackAccepted, Paused, Unleased, JobRow, SameChain, OwnsJob, Open, TerminalJob
  <2>5. RowStep
    BY <2>0, <2>2, <2>3, <2>4, OneRowGoes
  <2> QED
    BY <2>0, <2>4, <2>5 DEF Aside
<1> QED
  BY <1>1, <1>2

LEMMA OperatorPassesAside ==
  ASSUME AttemptInv, Operator
  PROVE  Aside
<1>0. /\ UNCHANGED <<provider, proc>> /\ TasksGrow /\ (\A b \in Attempts : SameTasks(b))
      /\ ManualCaseResolvable
  BY Tasked DEF Operator, ResolveBind, ResolveFail
<1>1. PICK a \in Attempts : a = job.active /\ attempt[a].status = "UNKNOWN"
  BY <1>0, ActiveHasRow DEF ManualCaseResolvable, ManualCase, ActiveStatus
<1>types. /\ job \in JobRow /\ attempt \in [Attempts -> AttemptRow] /\ attempt[a] \in AttemptRow
          /\ reservation \in ReservationRow
  BY AttemptTypes
<1>2. /\ SameChain /\ (~Open => job'.status = job.status)
      /\ \A v \in Workers : OwnsJob(v)' => OwnsJob(v) /\ job'.active = job.active
  BY <1>0, <1>types
     DEF Operator, ResolveBind, ResolveFail, ManualCaseResolvable, ManualCase, JobRow, SameChain, OwnsJob,
         Open, TerminalJob
<1>3. /\ \A b \in Attempts \ {a} : SameRow(b)
      /\ Goes(a)
      /\ (reservation'.status = "CAPTURED") = (reservation.status = "CAPTURED")
  <2>1. CASE ResolveBind
    <3>1. PICK k \in AcceptedTasks(a) : attempt' = WithAttempt(a, Submitted(a, k))
      BY <1>1, <2>1 DEF ResolveBind
    <3>2. k # 0 /\ k \in AcceptedTasks(a)'
      BY <1>0, ConstantsAssumption DEF AcceptedTasks, Tasks, SameTasks
    <3>3. /\ \A b \in Attempts \ {a} : SameRow(b)
          /\ attempt'[a].status = "SUBMITTED"
          /\ attempt'[a].providerJob = k
          /\ attempt'[a].verdict = attempt[a].verdict
      BY <3>1, <1>types DEF WithAttempt, Submitted, SameRow, AttemptRow
    <3>4. attempt'[a].accounting \in {attempt[a].accounting, "PENDING"}
      BY <3>1, <1>types DEF WithAttempt, Submitted, AttemptRow
    <3> QED
      BY <1>1, <2>1, <3>2, <3>3, <3>4 DEF ResolveBind, Goes, Unsent
  <2>2. CASE ResolveFail
    <3>1. /\ \A b \in Attempts \ {a} : SameRow(b)
          /\ attempt'[a].status = "FAILED"
          /\ attempt'[a].providerJob = attempt[a].providerJob
          /\ attempt'[a].verdict = attempt[a].verdict
          /\ attempt'[a].accounting = attempt[a].accounting
      BY <1>1, <2>2, <1>types DEF ResolveFail, SameRow, AttemptRow
    <3>2. ~Open'
      BY <2>2, <1>types DEF ResolveFail, JobRow, Open, TerminalJob
    <3>3. (reservation'.status = "CAPTURED") = (reservation.status = "CAPTURED")
      BY <2>2, <1>types DEF ResolveFail, Settled, Refunded, Released, ReservationRow
    <3> QED
      BY <1>1, <3>1, <3>2, <3>3 DEF Goes, Unsent
  <2> QED
    BY <2>1, <2>2 DEF Operator
<1>4. RowStep
  BY <1>0, <1>2, <1>3, OneRowGoes
<1> QED
  BY <1>0, <1>2, <1>4 DEF Aside

LEMMA CustomerPassesAside ==
  ASSUME AttemptInv, Withdraw \/ Download
  PROVE  Aside
<1>types. job \in JobRow /\ reservation \in ReservationRow
  BY AttemptTypes
<1>0. /\ UNCHANGED <<attempt, provider, proc>> /\ TasksGrow /\ (\A b \in Attempts : SameTasks(b))
  BY Tasked DEF Withdraw, Download
<1>1. /\ SameChain /\ (~Open => job'.status = job.status)
      /\ \A v \in Workers : OwnsJob(v)' => OwnsJob(v) /\ job'.active = job.active
  BY <1>types DEF Withdraw, Download, ReleasePlanned, JobRow, SameChain, OwnsJob, Open, TerminalJob
<1>2. (reservation'.status = "CAPTURED") = (reservation.status = "CAPTURED")
  <2>1. CASE Download
    BY <2>1 DEF Download
  <2>2. CASE Withdraw
    BY <2>2, <1>types DEF Withdraw, WithdrawalRaises, Released, Refunded, ReservationRow
  <2> QED
    BY <2>1, <2>2
<1>3. RowStep
  BY <1>0, <1>1, <1>2, RowsStay
<1> QED
  BY <1>0, <1>1, <1>3 DEF Aside

-----------------------------------------------------------------------------
(* The invariant holds *)

LEMMA InitialAttempts == Init => AttemptInv
<1> SUFFICES ASSUME Init
             PROVE  AttemptInv
  OBVIOUS
<1>types. TypeInv /\ 1 \in Attempts
  BY InitTyped, Ranges
<1>1. \A a \in Attempts : attempt[a] = [Prepared EXCEPT !.status = "NONE"] /\ AcceptedTasks(a) = {}
  BY DEF Init, AcceptedTasks
<1>2. \A a \in Attempts : /\ attempt[a].status = "NONE" /\ attempt[a].providerJob = 0
                          /\ attempt[a].accounting = "NOT_CAPTURED" /\ AcceptedTasks(a) = {}
  BY <1>1 DEF Prepared
<1>3. \A w \in Workers : proc[w].pc = "idle"
  BY DEF Init, Idle, At
<1>4. job.active = 0 /\ job.repairCount = 0 /\ reservation.status = "RESERVED"
  BY DEF Init
<1>5. ChainInv
  BY <1>types, <1>2, <1>4, ConstantsAssumption DEF ChainInv, RepairChain, Attempts
<1>6. CreditInv
  BY <1>types, <1>2, <1>4 DEF CreditInv
<1>7. OneSubmitter /\ \A w \in Workers : PositionInv(w)
  BY <1>3 DEF OneSubmitter, Submits, PositionInv, Submitting, Targeted, Engaged, Judging, Charging,
     Sending
<1>8. \A a \in Attempts : RowInv(a)
  BY <1>2 DEF RowInv, Unsent
<1> QED
  BY <1>types, <1>5, <1>6, <1>7, <1>8 DEF AttemptInv

LEMMA StepOfSomebody ==
  ASSUME AttemptInv, [Next]_vars
  PROVE  (\E w \in Workers : (Select(w) \/ Work(w) \/ Crash(w)) /\ Moves(w) /\ Works(w)) \/ Aside
<1>1. ASSUME NEW w \in Workers, Select(w) \/ Work(w) \/ Crash(w)
      PROVE  Moves(w) /\ Works(w)
  BY <1>1, WorkerStepWorks, WorkerMoves
<1>2. CASE DeadLeaseExpires \/ LiveLeaseExpires \/ RetryFallsDue \/ ReservationTimesOut
           \/ \E a \in Attempts : PollDeadlinePasses(a)
  BY <1>2, TimePassesAside DEF DeadLeaseExpires, LiveLeaseExpires
<1>3. CASE \E a \in Attempts, k \in Tasks : TaskEnds(a, k) \/ Callback(a, k)
  BY <1>3, ProviderPassesAside
<1>4. CASE Operator
  BY <1>4, OperatorPassesAside
<1>5. CASE Withdraw \/ Download
  BY <1>5, CustomerPassesAside
<1>6. CASE Quiescent \/ UNCHANGED vars
  <2>1. UNCHANGED vars
    BY <1>6 DEF Quiescent
  <2>2. RowStep /\ \A a \in Attempts : SameTasks(a)
    BY <2>1, Tasked, RowsStay DEF vars, SameChain
  <2> QED
    BY <2>1, <2>2 DEF Aside, vars, OwnsJob
<1> QED
  BY <1>1, <1>2, <1>3, <1>4, <1>5, <1>6 DEF Next

LEMMA AttemptInvInductive == AttemptInv /\ [Next]_vars => AttemptInv'
<1> SUFFICES ASSUME AttemptInv, [Next]_vars
             PROVE  AttemptInv'
  OBVIOUS
<1>1. TypeInv'
  BY TypeInvInductive DEF AttemptInv
<1>2. CASE Aside
  BY <1>1, <1>2, OutsideKeeps DEF Aside
<1> QED
  BY <1>1, <1>2, StepOfSomebody, WorksKeeps

\* Every step takes the rows further.
LEMMA EveryStepGoesOn ==
  ASSUME AttemptInv, [Next]_vars
  PROVE  RowStep
BY StepOfSomebody DEF Works, Aside

THEOREM AttemptInvariant == Spec => []AttemptInv
BY InitialAttempts, AttemptInvInductive, PTL DEF Spec

\* The attempts of an order form one chain, each but the last a candidate that QA sent to
\* repair, with the captured credits of the first one; for any number of invocations,
\* however late they write (decide_next_generation_action, the triggers of migration 0019).
THEOREM AttemptsFormOneChain == Spec => []RepairChain
BY AttemptInvariant, PTL DEF AttemptInv, ChainInv

\* No attempt is ever sent again once EvoLink may have accepted it: it has one task at most,
\* whatever is lost, whoever takes over and however the operator rules
\* (submit_generation_attempt, "never replay an ambiguous POST").
THEOREM NoPostIsReplayed == Spec => []AtMostOneTaskPerAttempt
<1>1. AttemptInv => AtMostOneTaskPerAttempt
  <2> SUFFICES ASSUME AttemptInv, NEW a \in Attempts
               PROVE  Cardinality(AcceptedTasks(a)) <= 1
    BY DEF AtMostOneTaskPerAttempt
  <2>1. AcceptedTasks(a) = {} \/ AcceptedTasks(a) = {1}
    BY DEF AttemptInv, RowInv
  <2> QED
    BY <2>1, FS_EmptySet, FS_Singleton
<1> QED
  BY <1>1, AttemptInvariant, PTL

-----------------------------------------------------------------------------
(***************************************************************************)
(* The money.  Every step keeps it where it is, or is one of the           *)
(* settlements, the delivery, the withdrawal or a download.                *)
(***************************************************************************)

\* EvoLink took nothing for the INITIAL attempt, or nothing came of it.
Fruitless == \A k \in AcceptedTasks(1) : provider[1][k] = "failed"

NobodySends == \A v \in Workers : proc[v].pc \notin Sending

\* What a settlement may rely on when it gives back credits that are held.
Conclusive ==
  /\ EvidenceIsFinal => NobodySends'
  /\ reservation.status = "RESERVED" => Fruitless'

KeepsOrder ==
  /\ order'.partner = order.partner /\ order'.settlement = order.settlement
  /\ order'.delivery = order.delivery /\ order'.downloaded = order.downloaded

\* Nothing moves, but an open job may capture what it holds.
Keeps ==
  /\ KeepsOrder /\ consentCase' = consentCase
  /\ job'.status = job.status \/ (Open /\ Open')
  /\ reservation'.refunds = reservation.refunds
  /\ \/ reservation'.status = reservation.status
     \/ Open /\ Open' /\ reservation.status = "RESERVED" /\ reservation'.status = "CAPTURED"

\* fail_generation_and_settle, and the operator's FAIL_AND_SETTLE
Fails ==
  /\ Conclusive
  /\ Open \/ ~NobodySends
  /\ job.status \notin {"FINISHED", "CANCELLED"} /\ job'.status = "FAILED"
  /\ \E key \in RefundKeys : reservation' = Settled(key)
  /\ order'.partner = order.partner /\ order'.delivery = "BLOCKED"
  /\ consentCase' = consentCase

\* settle_open_partner_consent_case_after_provider
Cancels ==
  /\ reservation.status = "RESERVED" => Conclusive
  /\ CaseIsSettleable /\ job'.status = "CANCELLED"
  /\ reservation' = CaseMoney
  /\ order'.delivery = "REVOKED"
  /\ consentCase' = "SETTLED_DELETION_PENDING"

\* build_delivery_assets
Delivers ==
  /\ job.status \notin {"FAILED", "CANCELLED"} /\ job'.status = "FINISHED"
  /\ ~order.partner /\ order'.partner = order.partner
  /\ order'.settlement = "CAPTURED"
  /\ reservation.status = "CAPTURED" /\ reservation' = reservation
  /\ consentCase = "none" /\ consentCase' = consentCase
  /\ UNCHANGED <<job.active, attempt>>
  /\ \E a \in Attempts : attempt[a].status = "FINISHED" /\ attempt[a].verdict = "PASS"

\* withdraw_partner_invite
Withdraws == Withdraw /\ (ReleasePlanned => Conclusive)

MoneyStep == Keeps \/ Fails \/ Cancels \/ Delivers \/ Withdraws \/ Download

-----------------------------------------------------------------------------
(* Which step is of which kind *)

LEMMA RowsKeepMoney ==
  ASSUME UNCHANGED <<order, reservation, consentCase>>,
         job'.status = job.status \/ (Open /\ Open')
  PROVE  Keeps
BY DEF Keeps, KeepsOrder

LEMMA NothingKeepsMoney ==
  ASSUME UNCHANGED rows
  PROVE  Keeps
BY DEF rows, Keeps, KeepsOrder

\* The active attempt has a task: its submission is over.
LEMMA NobodySendsATask ==
  ASSUME AttemptInv, AcceptedTasks(job.active) # {}
  PROVE  NobodySends
BY SenderIsActive DEF NobodySends

LEMMA HeldForTheFirst ==
  ASSUME AttemptInv, job.active # 0, reservation.status = "RESERVED"
  PROVE  job.active = 1
<1>1. job.active \in Nat /\ RepairChain
  BY AttemptTypes, ConstantsAssumption
<1> QED
  BY <1>1 DEF RepairChain, CaptureLineage

\* A settlement by w, who then leaves.
LEMMA Concludes ==
  ASSUME AttemptInv, NEW w \in Workers, UNCHANGED provider, Finish(w) \/ GotoReconcile(w),
         \A v \in Workers \ {w} : proc[v].pc \notin Sending,
         reservation.status = "RESERVED" => Fruitless
  PROVE  Conclusive
<1>1. proc'[w].pc \notin Sending
  BY Finishes
<1>2. \A v \in Workers \ {w} : proc'[v] = proc[v]
  BY AttemptTypes, OthersStay DEF Moves, Finish, GotoReconcile
<1>3. NobodySends'
  BY <1>1, <1>2 DEF NobodySends
<1>4. Fruitless' <=> Fruitless
  BY DEF Fruitless, AcceptedTasks
<1> QED
  BY <1>3, <1>4 DEF Conclusive

LEMMA SettlesMoney ==
  ASSUME AttemptInv, NEW allow \in BOOLEAN, FailAndSettle(allow), UNCHANGED consentCase,
         Conclusive, Open \/ ~NobodySends
  PROVE  Fails
<1>1. job'.status = "FAILED" /\ job.status \notin {"FINISHED", "CANCELLED"}
  BY AttemptTypes DEF FailAndSettle, JobMayBecome, TerminalJob, Unleased, JobRow
<1>2. order'.partner = order.partner /\ order'.delivery = "BLOCKED"
  BY AttemptTypes DEF FailAndSettle, OrderRow
<1>3. reservation' = Settled("generation-failure") /\ "generation-failure" \in RefundKeys
  BY DEF FailAndSettle, RefundKeys
<1> QED
  BY <1>1, <1>2, <1>3 DEF Fails

\* w fails the job for an attempt that is accounted for.
LEMMA ChargedFails ==
  ASSUME AttemptInv, NEW w \in Workers, proc[w].pc \in Charging, Fence(w), FailAndSettle(FALSE),
         UNCHANGED <<consentCase, provider>>, Finish(w)
  PROVE  Fails
<1>1. PICK a \in Attempts : a = proc[w].attempt
  BY AttemptTypes, PositionSets
<1>2. a = job.active /\ attempt[a].providerJob # 0 /\ reservation.status = "CAPTURED"
  BY <1>1, PositionSets DEF Fence, AttemptInv, PositionInv
<1>3. NobodySends
  BY <1>2, NobodySendsATask DEF AttemptInv, RowInv
<1>4. Conclusive
  BY <1>2, <1>3, Concludes DEF NobodySends
<1> QED
  BY <1>4, FencedIsOpen, SettlesMoney

LEMMA RejectionMoney ==
  ASSUME AttemptInv, NEW w \in Workers, NEW a \in Attempts, a = proc[w].attempt,
         proc[w].pc \in Sending, UNCHANGED provider, NEW terminal,
         RecordPreacceptRejection(w, a, terminal)
  PROVE  MoneyStep
<1>1. CASE UNCHANGED rows
  BY <1>1, NothingKeepsMoney DEF MoneyStep
<1>2. CASE /\ \E n \in IF OwnsJob(w) THEN {RetryMore(job.retryCount)} ELSE 1 .. MaxRetries :
                job' = [job EXCEPT !.retryCount = n]
           /\ UNCHANGED <<order, reservation, consentCase>>
  <2>1. job'.status = job.status
    BY <1>2, AttemptTypes DEF JobRow
  <2> QED
    BY <1>2, <2>1, RowsKeepMoney DEF MoneyStep
<1>3. CASE FailAndSettle(a = 1) /\ GotoReconcile(w) /\ UNCHANGED consentCase
  <2>1. \A v \in Workers \ {w} : proc[v].pc \notin Sending
    BY SenderIsActive, PositionSets DEF AttemptInv, OneSubmitter, Submits
  <2>2. reservation.status = "RESERVED" => a = 1
    BY <1>3 DEF FailAndSettle, CanSettle
  <2>3. AcceptedTasks(a) = {}
    BY DEF AttemptInv, PositionInv
  <2>4. Conclusive
    BY <1>3, <2>1, <2>2, <2>3, Concludes DEF Fruitless
  <2>5. ~NobodySends
    BY DEF NobodySends
  <2> QED
    BY <1>3, <2>4, <2>5, SettlesMoney DEF MoneyStep
<1> QED
  BY <1>1, <1>2, <1>3 DEF RecordPreacceptRejection

LEMMA SubmissionMoney ==
  ASSUME AttemptInv, NEW w \in Workers, Submission(w)
  PROVE  MoneyStep
<1>types. job \in JobRow /\ order \in OrderRow /\ reservation \in ReservationRow
  BY AttemptTypes
<1>persist. ASSUME NEW a, NEW k, PersistSubmittedFact(w, a, k)
            PROVE  Keeps
  <2>1. job'.status = job.status
    BY <1>persist, <1>types DEF PersistSubmittedFact, JobRow
  <2> QED
    BY <1>persist, <2>1, RowsKeepMoney DEF PersistSubmittedFact
<1>unknown. ASSUME NEW a, MarkSubmissionUnknown(w, a)
            PROVE  Keeps
  BY <1>unknown, <1>types
     DEF MarkSubmissionUnknown, JobMayBecome, Unleased, JobRow, OrderRow, Open, TerminalJob, Keeps,
         KeepsOrder
<1>1. CASE ClaimRefused(w) \/ BoundaryRefused(w) \/ PostAccepted(w) \/ PostAmbiguous(w) \/ PostRejected(w)
  BY <1>1, NothingKeepsMoney
     DEF ClaimRefused, BoundaryRefused, PostAccepted, PostAmbiguous, PostRejected, rows, MoneyStep
<1>2. CASE ClaimRouted(w) \/ ClaimGranted(w)
  BY <1>2, <1>types, RowsKeepMoney
     DEF ClaimRouted, ClaimGranted, Claimable, Unleased, Leased, JobRow, Open, TerminalJob, MoneyStep
<1>3. CASE PrepareInitial(w)
  <2>1. job'.status = job.status
    BY <1>3, <1>types DEF PrepareInitial, JobRow
  <2> QED
    BY <1>3, <2>1, RowsKeepMoney DEF PrepareInitial, MoneyStep
<1>4. CASE CommitBoundary(w)
  BY <1>4, <1>types DEF CommitBoundary, OrderRow, Keeps, KeepsOrder, MoneyStep
<1>5. CASE RecordAcceptance(w) \/ RecordUnknown(w)
  BY <1>5, <1>persist, <1>unknown DEF RecordAcceptance, RecordUnknown, MoneyStep
<1>6. CASE RecordRejection(w) \/ Repost(w)
  <2>1. proc[w].pc \in Sending
    BY <1>6 DEF RecordRejection, Repost, Sending
  <2>2. PICK a \in Attempts : a = proc[w].attempt
    BY <2>1, AttemptTypes, PositionSets
  <2>3. CASE RecordRejection(w)
    BY <2>1, <2>2, <2>3, RejectionMoney DEF RecordRejection
  <2>4. CASE Repost(w)
    BY <2>1, <2>2, <2>4, <1>persist, <1>unknown, NothingKeepsMoney, RejectionMoney DEF Repost, MoneyStep
  <2> QED
    BY <1>6, <2>3, <2>4
<1>7. CASE CaptureSubmission(w)
  <2>1. CASE UNCHANGED reservation
    BY <1>7, <2>1, RowsKeepMoney DEF CaptureSubmission, MoneyStep
  <2>2. CASE proc[w].attempt = 1 /\ MayCapture /\ reservation' = Captured(reservation)
    <3>1. Fence(w)
      BY <1>7, <2>2 DEF CaptureSubmission, FencePasses, RemembersJob
    <3>2. Open /\ Open'
      BY <1>7, <3>1, FencedIsOpen DEF CaptureSubmission, Open
    <3>3. reservation'.status = "CAPTURED" /\ reservation'.refunds = reservation.refunds
      BY <2>2, <1>types DEF Captured, ReservationRow
    <3> QED
      BY <1>7, <2>2, <3>2, <3>3 DEF CaptureSubmission, MayCapture, Keeps, KeepsOrder, MoneyStep
  <2> QED
    BY <1>7, <2>1, <2>2 DEF CaptureSubmission
<1>8. CASE PauseSubmitted(w)
  BY <1>8, <1>types, RowsKeepMoney
     DEF PauseSubmitted, JobMayBecome, Paused, Unleased, JobRow, Open, TerminalJob, MoneyStep
<1> QED
  BY <1>1, <1>2, <1>3, <1>4, <1>5, <1>6, <1>7, <1>8 DEF Submission

LEMMA CaseMoneyStep ==
  ASSUME AttemptInv, NEW a \in Attempts, SettleCase(a), reservation.status = "RESERVED" => Conclusive
  PROVE  Cancels
BY AttemptTypes DEF SettleCase, Unleased, JobRow, OrderRow, Cancels

LEMMA PauseKeepsMoney ==
  ASSUME AttemptInv, Open, UNCHANGED <<order, reservation, consentCase>>,
         RetryLater \/ job' = Paused(job, "later") \/ job' = Paused(job, "none")
  PROVE  Keeps
<1>1. job'.status = "RECONCILING"
  BY AttemptTypes DEF RetryLater, Paused, Unleased, JobRow
<1> QED
  BY <1>1, RowsKeepMoney DEF Open, TerminalJob

LEMMA AccountedMoney ==
  ASSUME AttemptInv, NEW a, Open, UNCHANGED <<job, order, consentCase>>, Accounted(a)
  PROVE  Keeps
<1>1. Open'
  BY DEF Open
<1>2. CASE UNCHANGED reservation
  BY <1>2, RowsKeepMoney
<1>3. CASE MayCapture /\ reservation' = Captured(reservation)
  <2>1. reservation'.status = "CAPTURED" /\ reservation'.refunds = reservation.refunds
    BY <1>3, AttemptTypes DEF Captured, ReservationRow
  <2> QED
    BY <1>1, <1>3, <2>1 DEF MayCapture, Keeps, KeepsOrder
<1> QED
  BY <1>2, <1>3 DEF Accounted

LEMMA LoadMoney ==
  ASSUME AttemptInv, NEW w \in Workers,
         \/ ReconciliationRefused(w) \/ ReconciliationGranted(w)
         \/ AccountForSubmission(w) \/ PauseForOperator(w) \/ ResumeAtQa(w) \/ LoadRefused(w)
         \/ QueryAnswered(w) \/ QueryRaises(w)
  PROVE  MoneyStep
<1>1. CASE ReconciliationRefused(w) \/ ResumeAtQa(w) \/ LoadRefused(w) \/ QueryRaises(w)
  BY <1>1, NothingKeepsMoney
     DEF ReconciliationRefused, ResumeAtQa, LoadRefused, QueryRaises, rows, MoneyStep
<1>2. CASE ReconciliationGranted(w)
  BY <1>2, AttemptTypes
     DEF ReconciliationGranted, ReconciliationClaimable, SubmittingIsUnknown, Leased, JobRow, OrderRow,
         Open, TerminalJob, Keeps, KeepsOrder, MoneyStep
<1>3. CASE AccountForSubmission(w) \/ QueryAnswered(w)
  <2>1. Fence(w)
    BY <1>3 DEF AccountForSubmission, QueryAnswered, MayQueryUnknown
  <2> QED
    BY <1>3, <2>1, FencedIsOpen, AccountedMoney DEF AccountForSubmission, QueryAnswered, MoneyStep
<1>4. CASE PauseForOperator(w)
  BY <1>4, FencedIsOpen, PauseKeepsMoney DEF PauseForOperator, MoneyStep
<1> QED
  BY <1>1, <1>2, <1>3, <1>4

LEMMA QueryMoney ==
  ASSUME AttemptInv, NEW w \in Workers,
         \/ QueryPending(w) \/ QueryFailed(w) \/ QuerySucceeded(w)
         \/ PolledAgain(w) \/ AnswerUsed(w)
  PROVE  MoneyStep
<1>0. proc[w].pc \in Engaged /\ UNCHANGED provider
  BY PositionSets
     DEF QueryPending, QueryFailed, QuerySucceeded, PolledAgain, AnswerUsed, MayQuery,
         MayQueryUnknown, Charging, Engaged
<1>1. PICK a \in Attempts : a = proc[w].attempt
  BY <1>0, AttemptTypes, PositionSets
<1>2. CASE QueryPending(w) \/ PolledAgain(w)
  <2>1. Fence(w) /\ proc[w].pc \in Charging /\ Finish(w) /\ UNCHANGED consentCase
    BY <1>2 DEF QueryPending, PolledAgain, MayQuery, Charging
  <2>2. \/ FailAndSettle(FALSE)
        \/ UNCHANGED <<order, reservation>> /\ (RetryLater \/ job' = Paused(job, "later"))
    BY <1>2 DEF QueryPending, PolledAgain
  <2> QED
    BY <1>0, <2>1, <2>2, ChargedFails, FencedIsOpen, PauseKeepsMoney DEF MoneyStep
<1>3. CASE QueryFailed(w)
  <2>1. /\ a = job.active /\ attempt[a].providerJob # 0 /\ Fence(w) /\ Finish(w)
        /\ provider[a][attempt[a].providerJob] = "failed"
    BY <1>0, <1>1, <1>3
       DEF QueryFailed, QueriedTask, MayQuery, MayQueryUnknown, Charging, Fence, AttemptInv, PositionInv
  <2>2. NobodySends
    BY <2>1, NobodySendsATask DEF AttemptInv, RowInv
  <2>3. reservation.status = "RESERVED" => Fruitless
    <3>1. reservation.status = "RESERVED" => a = 1
      BY <2>1, HeldForTheFirst, ConstantsAssumption DEF Attempts
    <3>2. \A k \in AcceptedTasks(a) : k = attempt[a].providerJob
      BY <2>1 DEF AttemptInv, RowInv
    <3> QED
      BY <2>1, <3>1, <3>2 DEF Fruitless
  <2>4. Conclusive
    BY <1>0, <2>1, <2>2, <2>3, Concludes DEF NobodySends
  <2>5. MayQueryUnknown(w) \in BOOLEAN
    BY DEF MayQueryUnknown
  <2>6. CASE SettleCase(a)
    BY <2>4, <2>6, CaseMoneyStep DEF MoneyStep
  <2>7. CASE FailAndSettle(MayQueryUnknown(w)) /\ UNCHANGED consentCase
    BY <2>1, <2>4, <2>5, <2>7, FencedIsOpen, SettlesMoney DEF MoneyStep
  <2> QED
    BY <1>1, <1>3, <2>6, <2>7 DEF QueryFailed
<1>4. CASE QuerySucceeded(w) \/ AnswerUsed(w)
  <2>1. reservation.status = "CAPTURED"
    BY <1>4 DEF QuerySucceeded, AnswerUsed, MayQuery, Charging, AttemptInv, PositionInv
  <2>2. CASE SettleCase(a)
    BY <2>1, <2>2, CaseMoneyStep DEF MoneyStep
  <2>3. CASE UNCHANGED rows
    BY <2>3, NothingKeepsMoney DEF MoneyStep
  <2> QED
    BY <1>1, <1>4, <2>2, <2>3 DEF QuerySucceeded, AnswerUsed
<1> QED
  BY <1>2, <1>3, <1>4

LEMMA JudgingMoney ==
  ASSUME AttemptInv, NEW w \in Workers,
         \/ StoreCandidate(w) \/ StoreFails(w)
         \/ BeginQa(w) \/ PersistVerdict(w) \/ QaInfrastructureFails(w) \/ RetryQa(w)
         \/ EvaluateRefused(w) \/ SettleInsteadOfDecision(w) \/ DecidePass(w)
         \/ DecideRepair(w) \/ DecideFail(w) \/ Deliver(w) \/ DeliveryFails(w)
  PROVE  MoneyStep
<1>0. proc[w].pc \in Charging /\ UNCHANGED provider
  BY DEF StoreCandidate, StoreFails, BeginQa, PersistVerdict, QaInfrastructureFails, RetryQa,
     EvaluateRefused, SettleInsteadOfDecision, DecidePass, DecideRepair, DecideFail, Deliver,
     DeliveryFails, MayEvaluate, MayDeliver, Charging, Judging
<1>1. PICK a \in Attempts : a = proc[w].attempt
  BY <1>0, AttemptTypes, PositionSets
<1>2. reservation.status = "CAPTURED"
  BY <1>0 DEF AttemptInv, PositionInv
<1>types. job \in JobRow /\ order \in OrderRow
  BY AttemptTypes
<1>3. CASE StoreFails(w) \/ QaInfrastructureFails(w) \/ EvaluateRefused(w) \/ DecidePass(w)
           \/ (BeginQa(w) /\ UNCHANGED rows)
  BY <1>3, NothingKeepsMoney
     DEF StoreFails, QaInfrastructureFails, EvaluateRefused, DecidePass, rows, MoneyStep
<1>4. CASE SettleCase(a)
  BY <1>2, <1>4, CaseMoneyStep DEF MoneyStep
<1>5. CASE BeginQa(w) \/ SettleInsteadOfDecision(w)
  BY <1>1, <1>3, <1>4, <1>5 DEF BeginQa, SettleInsteadOfDecision
<1>6. CASE StoreCandidate(w)
  BY <1>6, <1>types DEF StoreCandidate, OrderRow, Keeps, KeepsOrder, MoneyStep
<1>7. CASE PersistVerdict(w)
  BY <1>7, RowsKeepMoney DEF PersistVerdict, MoneyStep
<1>8. CASE RetryQa(w)
  BY <1>8, <1>types, RowsKeepMoney
     DEF RetryQa, JobMayBecome, Paused, Unleased, JobRow, Open, TerminalJob, MoneyStep
<1>9. CASE DecideRepair(w)
  <2>1. job'.status = job.status
    BY <1>9, <1>types DEF DecideRepair, Unleased, JobRow
  <2> QED
    BY <1>9, <1>types, <2>1 DEF DecideRepair, OrderRow, Keeps, KeepsOrder, MoneyStep
<1>10. CASE DecideFail(w)
  BY <1>0, <1>10, ChargedFails DEF DecideFail, MoneyStep
<1>11. CASE Deliver(w)
  <2>1. job'.status = "FINISHED" /\ job'.active = job.active
        /\ job.status \notin {"FAILED", "CANCELLED"}
    BY <1>11, <1>types DEF Deliver, MayDeliver, JobMayBecome, TerminalJob, Unleased, JobRow
  <2>2. attempt[a].status = "FINISHED" /\ attempt[a].verdict = "PASS"
    BY <1>1, <1>11 DEF Deliver, MayDeliver, Deliverable, Judging, AttemptInv, PositionInv
  <2>3. order'.partner = order.partner /\ order'.settlement = "CAPTURED"
    BY <1>11, <1>types DEF Deliver, OrderRow
  <2> QED
    BY <1>11, <2>1, <2>2, <2>3 DEF Deliver, MayDeliver, Deliverable, Delivers, MoneyStep
<1>12. CASE DeliveryFails(w)
  <2>1. Fence(w) /\ Finish(w) /\ UNCHANGED <<consentCase, provider>>
    BY <1>12 DEF DeliveryFails
  <2>2. CASE RetryLater /\ UNCHANGED <<order, reservation>>
    BY <2>1, <2>2, FencedIsOpen, PauseKeepsMoney DEF MoneyStep
  <2>3. CASE FailAndSettle(FALSE)
    BY <1>0, <2>1, <2>3, ChargedFails DEF MoneyStep
  <2>4. CASE UNCHANGED <<job, order, reservation>>
    BY <2>1, <2>4, RowsKeepMoney DEF MoneyStep
  <2> QED
    BY <1>12, <2>2, <2>3, <2>4 DEF DeliveryFails
<1> QED
  BY <1>3, <1>5, <1>6, <1>7, <1>8, <1>9, <1>10, <1>11, <1>12

LEMMA OutsideMoney ==
  ASSUME AttemptInv,
         \/ LeaseExpires \/ RetryFallsDue \/ ReservationTimesOut
         \/ \E a \in Attempts : PollDeadlinePasses(a)
         \/ \E a \in Attempts, k \in Tasks : TaskEnds(a, k) \/ Callback(a, k)
         \/ ResolveBind
  PROVE  Keeps
<1>types. job \in JobRow /\ order \in OrderRow /\ reservation \in ReservationRow
  BY AttemptTypes
<1>1. CASE LeaseExpires \/ RetryFallsDue
  BY <1>1, <1>types, RowsKeepMoney DEF LeaseExpires, RetryFallsDue, JobRow
<1>2. CASE ReservationTimesOut
  BY <1>2, <1>types DEF ReservationTimesOut, ReservationRow, Keeps, KeepsOrder
<1>3. CASE \E a \in Attempts : PollDeadlinePasses(a)
  BY <1>3, RowsKeepMoney DEF PollDeadlinePasses
<1>4. CASE \E a \in Attempts, k \in Tasks : TaskEnds(a, k)
  BY <1>4, NothingKeepsMoney DEF TaskEnds
<1>5. CASE \E a \in Attempts, k \in Tasks : Callback(a, k)
  <2>1. job'.status = job.status \/ (Open /\ Open')
    BY <1>5, <1>types
       DEF Callback, CallbackAccepted, Paused, Unleased, JobRow, Open, TerminalJob
  <2> QED
    BY <1>5, <2>1, RowsKeepMoney DEF Callback
<1>6. CASE ResolveBind
  BY <1>6, <1>types DEF ResolveBind, JobRow, OrderRow, Keeps, KeepsOrder
<1> QED
  BY <1>1, <1>2, <1>3, <1>4, <1>5, <1>6

LEMMA ResolveFailMoney ==
  ASSUME AttemptInv, ResolveFail
  PROVE  Fails
<1>0. job \in JobRow /\ order \in OrderRow /\ UNCHANGED <<proc, provider, consentCase>>
  BY AttemptTypes DEF ResolveFail
<1>1. job.status = "RECONCILING" /\ job.active \in Attempts
  BY ActiveHasRow DEF ResolveFail, ManualCaseResolvable, ManualCase, ActiveStatus
<1>2. AcceptedTasks(job.active) # {} => NobodySends /\ reservation.status = "CAPTURED"
  BY NobodySendsATask DEF ResolveFail, ProvenNotAccepted
<1>3. AcceptedTasks(job.active) = {} => ProvenNotAccepted(job.active)
  BY DEF ResolveFail
<1>4. EvidenceIsFinal => NobodySends
  BY <1>2, <1>3, SenderIsActive DEF ProvenNotAccepted, NobodySends
<1>5. reservation.status = "RESERVED" => Fruitless
  <2>1. job.active # 0
    BY <1>1, ConstantsAssumption DEF Attempts
  <2> QED
    BY <1>2, <2>1, HeldForTheFirst DEF Fruitless
<1>6. Conclusive
  BY <1>0, <1>4, <1>5 DEF Conclusive, NobodySends, Fruitless, AcceptedTasks
<1>7. job'.status = "FAILED" /\ order'.partner = order.partner /\ order'.delivery = "BLOCKED"
  BY <1>0 DEF ResolveFail, JobRow, OrderRow
<1>8. /\ reservation' = Settled("manual-generation-settlement")
      /\ "manual-generation-settlement" \in RefundKeys
  BY DEF ResolveFail, RefundKeys
<1> QED
  BY <1>0, <1>1, <1>6, <1>7, <1>8 DEF Fails, Open, TerminalJob

LEMMA WithdrawMoney ==
  ASSUME AttemptInv, Withdraw
  PROVE  Withdraws
<1> SUFFICES ASSUME ReleasePlanned
             PROVE  Conclusive
  BY DEF Withdraws
<1>1. Open /\ reservation.status = "RESERVED" /\ ~ProviderPossible
  BY DEF Withdraw, ReleasePlanned, WithdrawalRaises, Open, TerminalJob
<1>2. NobodySends
  <2> SUFFICES ASSUME NEW v \in Workers, proc[v].pc \in Sending
               PROVE  FALSE
    BY DEF NobodySends
  <2>1. PICK a \in Attempts : a = job.active /\ attempt[a].status \in {"SUBMITTING", "UNKNOWN", "FAILED"}
    BY SenderIsActive
  <2> QED
    BY <1>1, <2>1 DEF ProviderPossible, AttemptInv, RowInv
<1>3. AcceptedTasks(1) = {}
  <2>1. attempt[1].status \in {"NONE", "PREPARED", "FINISHED", "FAILED"}
    BY <1>1, AttemptTypes DEF ProviderPossible, AttemptRow, AttemptStatus
  <2> QED
    BY <1>1, <2>1, AttemptTypes DEF AttemptInv, RowInv, Unsent
<1>4. UNCHANGED <<proc, provider>>
  BY DEF Withdraw
<1> QED
  BY <1>2, <1>3, <1>4 DEF Conclusive, NobodySends, Fruitless, AcceptedTasks

LEMMA EveryStepIsAMoneyStep ==
  ASSUME AttemptInv, [Next]_vars
  PROVE  MoneyStep
<1>1. ASSUME NEW w \in Workers, Select(w) \/ Work(w) \/ Crash(w)
      PROVE  MoneyStep
  <2>1. CASE Select(w) \/ LostFence(w) \/ Restart(w) \/ Crash(w)
    BY <2>1, NothingKeepsMoney DEF Select, LostFence, Restart, Crash, rows, MoneyStep
  <2> QED
    BY <1>1, <2>1, SubmissionMoney, LoadMoney, QueryMoney, JudgingMoney DEF Work, Reconciliation
<1>2. CASE DeadLeaseExpires \/ LiveLeaseExpires \/ RetryFallsDue \/ ReservationTimesOut
           \/ \E a \in Attempts : PollDeadlinePasses(a)
  BY <1>2, OutsideMoney DEF DeadLeaseExpires, LiveLeaseExpires, MoneyStep
<1>3. CASE \E a \in Attempts, k \in Tasks : TaskEnds(a, k) \/ Callback(a, k)
  BY <1>3, OutsideMoney DEF MoneyStep
<1>4. CASE Operator
  BY <1>4, OutsideMoney, ResolveFailMoney DEF Operator, MoneyStep
<1>5. CASE Withdraw \/ Download
  BY <1>5, WithdrawMoney DEF MoneyStep
<1>6. CASE Quiescent \/ UNCHANGED vars
  BY <1>6, NothingKeepsMoney DEF Quiescent, vars, rows, MoneyStep
<1> QED
  BY <1>1, <1>2, <1>3, <1>4, <1>5, <1>6 DEF Next

-----------------------------------------------------------------------------
(* Nothing is delivered that is not paid for, whatever the operator rules *)

PaidInv ==
  /\ AttemptInv
  /\ Open => /\ reservation.status \in {"RESERVED", "CAPTURED"} /\ NotRefunded
             /\ order.downloaded = {} /\ order.delivery # "READY"
  /\ job.status = "FINISHED" =>
       /\ reservation.status = "CAPTURED" /\ NotRefunded
       /\ order.settlement = "CAPTURED" /\ ~order.partner /\ consentCase = "none"
       /\ job.active \in Attempts /\ attempt[job.active].verdict = "PASS"
  /\ job.status \in {"FAILED", "CANCELLED"} => order.delivery # "READY"
  /\ job.status = "CANCELLED" => consentCase = "SETTLED_DELETION_PENDING"

\* The verdict that a delivery rests on is not taken back.
LEMMA PassStays ==
  ASSUME AttemptInv, RowStep, job.active \in Attempts, attempt[job.active].verdict = "PASS"
  PROVE  job'.active = job.active /\ attempt'[job.active].verdict = "PASS"
<1>1. attempt[1].status # "NONE"
  BY ActiveHasRow, ConstantsAssumption DEF Attempts
<1>2. ~FirstCreated /\ ~RepairCreated
  BY <1>1 DEF FirstCreated, RepairCreated
<1> QED
  BY <1>2 DEF RowStep, SameChain, RowsGo, SameRow, Goes

\* Only the active attempt's candidate can have passed.
LEMMA PassIsActive ==
  ASSUME AttemptInv, NEW a \in Attempts, attempt[a].status = "FINISHED", attempt[a].verdict = "PASS"
  PROVE  a = job.active
<1>1. RepairChain /\ a \in Nat /\ job.active \in Nat
  BY AttemptTypes, ConstantsAssumption
<1>2. ~(a < job.active) /\ ~(a > job.active)
  BY <1>1 DEF RepairChain
<1> QED
  BY <1>1, <1>2

LEMMA InitiallyUnpaid == Init => PaidInv
<1> SUFFICES ASSUME Init
             PROVE  PaidInv
  OBVIOUS
<1>1. job.status = "QUEUED" /\ reservation.status = "RESERVED" /\ reservation.refunds = {}
  BY DEF Init
<1>2. order.downloaded = {} /\ order.delivery = "PENDING"
  BY DEF Init
<1> QED
  BY <1>1, <1>2, InitialAttempts DEF PaidInv, Open, TerminalJob, NotRefunded

LEMMA PaidInvInductive == PaidInv /\ [Next]_vars => PaidInv'
<1> SUFFICES ASSUME PaidInv, [Next]_vars
             PROVE  PaidInv'
  OBVIOUS
<1>0. AttemptInv /\ AttemptInv' /\ RowStep /\ MoneyStep
  BY AttemptInvInductive, EveryStepGoesOn, EveryStepIsAMoneyStep DEF PaidInv
<1>pass. job.status = "FINISHED" =>
           job'.active \in Attempts /\ attempt'[job'.active].verdict = "PASS"
  BY <1>0, PassStays DEF PaidInv
<1>1. CASE Keeps
  BY <1>0, <1>1, <1>pass DEF PaidInv, Keeps, KeepsOrder, Open, TerminalJob, NotRefunded
<1>2. CASE Fails
  BY <1>0, <1>2 DEF PaidInv, Fails, Open, TerminalJob
<1>3. CASE Cancels
  BY <1>0, <1>3 DEF PaidInv, Cancels, Open, TerminalJob
<1>4. CASE Delivers
  <2>1. job'.active \in Attempts /\ attempt'[job'.active].verdict = "PASS"
    BY <1>0, <1>4, PassIsActive DEF Delivers
  <2>2. NotRefunded'
    BY <1>4 DEF PaidInv, Delivers, Open, TerminalJob, NotRefunded
  <2> QED
    BY <1>0, <1>4, <2>1, <2>2 DEF PaidInv, Delivers, Open, TerminalJob
<1>5. CASE Withdraws
  <2>0. /\ job \in JobRow /\ order \in OrderRow /\ order.partner /\ consentCase = "none"
        /\ order'.delivery = "REVOKED" /\ order'.downloaded = order.downloaded
    BY <1>0, <1>5, AttemptTypes DEF Withdraws, Withdraw, OrderRow
  <2>1. CASE ReleasePlanned
    BY <1>0, <1>5, <2>0, <2>1
       DEF PaidInv, Withdraws, Withdraw, ReleasePlanned, JobRow, Open, TerminalJob
  <2>2. CASE ~ReleasePlanned
    <3>1. job.status \notin {"FINISHED", "CANCELLED"}
      BY <2>0 DEF PaidInv
    <3>2. ~RefundPlanned
      BY <3>1 DEF RefundPlanned
    <3>3. job' = job /\ reservation' = reservation
      BY <1>5, <2>2, <3>2 DEF Withdraws, Withdraw
    <3> QED
      BY <1>0, <2>0, <3>1, <3>3 DEF PaidInv, Open, TerminalJob, NotRefunded
  <2> QED
    BY <2>1, <2>2
<1>6. CASE Download
  <2>1. job.status = "FINISHED" /\ job' = job /\ reservation' = reservation /\ consentCase' = consentCase
    BY <1>0, <1>6, AttemptTypes DEF Download, PaidInv, Open, TerminalJob
  <2>2. order'.settlement = order.settlement /\ order'.partner = order.partner
    BY <1>0, <1>6, AttemptTypes DEF Download, OrderRow
  <2> QED
    BY <1>0, <1>pass, <2>1, <2>2 DEF PaidInv, Open, TerminalJob, NotRefunded
<1> QED
  BY <1>0, <1>1, <1>2, <1>3, <1>4, <1>5, <1>6 DEF MoneyStep

THEOREM PaidInvariant == Spec => []PaidInv
BY InitiallyUnpaid, PaidInvInductive, PTL DEF Spec

\* A published delivery is paid for, passed QA, and nobody has withdrawn from it, even where
\* the invocation that publishes it has lost the job (build_delivery_assets).
THEOREM DeliveryIsPaid == Spec => []DeliveredMeansPaid
<1>1. PaidInv => DeliveredMeansPaid
  BY AttemptTypes DEF PaidInv, DeliveredMeansPaid, Open, TerminalJob
<1> QED
  BY <1>1, PaidInvariant, PTL

-----------------------------------------------------------------------------
(***************************************************************************)
(* What is given back, for operators whose evidence is final: nobody is    *)
(* still sending an attempt that they rule on.                             *)
(***************************************************************************)

GivenBack ==
  \/ reservation.status = "RELEASED" /\ NotRefunded
  \/ reservation.status = "CAPTURED" /\ \E key \in RefundKeys : reservation.refunds = {key}

MoneyInv ==
  /\ PaidInv
  /\ job.status \in {"FAILED", "CANCELLED"} => GivenBack
  /\ reservation.status = "RELEASED" => Fruitless
  /\ \A w \in Workers : proc[w].pc \in Sending =>
       job.status # "FAILED" /\ (reservation.status = "RELEASED" => proc[w].attempt # 1)

(* Who sends, and what becomes of the INITIAL attempt's tasks *)

\* Whoever sends was sending, or has just committed the boundary.
SendsOn ==
  \A v \in Workers : proc'[v].pc \in Sending =>
    \/ proc[v].pc \in Sending /\ proc'[v].attempt = proc[v].attempt
    \/ job'.status = "ACTIVE" /\ (proc'[v].attempt = 1 => reservation'.status = "RESERVED")

\* The INITIAL attempt's tasks stay as they are, unless one is sent or ends.
FirstTasksStay ==
  \/ provider'[1] = provider[1]
  \/ \E v \in Workers : proc[v].pc \in Sending /\ proc[v].attempt = 1
  \/ \E k \in AcceptedTasks(1) : provider[1][k] = "running"

LEMMA SubmissionSends ==
  ASSUME AttemptInv, NEW w \in Workers, Submission(w)
  PROVE  /\ \/ proc'[w].pc \notin Sending
            \/ proc[w].pc \in Sending /\ proc'[w].attempt = proc[w].attempt
            \/ CommitBoundary(w) /\ proc'[w].attempt = proc[w].attempt
         /\ UNCHANGED provider \/ (proc[w].pc \in Sending /\ Accept(proc[w].attempt))
<1>types. proc \in [Workers -> ProcRow] /\ proc[w] \in ProcRow
  BY AttemptTypes
<1>1. CASE ClaimRefused(w) \/ ClaimRouted(w) \/ ClaimGranted(w) \/ PrepareInitial(w) \/ BoundaryRefused(w)
  BY <1>1, <1>types
     DEF ClaimRefused, ClaimRouted, ClaimGranted, PrepareInitial, BoundaryRefused, Goto, Start,
         Finish, Idle, GotoReconcile, Move, At, Sending, ProcRow
<1>2. CASE CommitBoundary(w)
  BY <1>2, <1>types DEF CommitBoundary, Goto, Move, ProcRow
<1>3. CASE PostAccepted(w) \/ PostAmbiguous(w) \/ PostRejected(w)
  BY <1>3, <1>types DEF PostAccepted, PostAmbiguous, PostRejected, Goto, Move, Sending, ProcRow
<1>persist. ASSUME NEW a, NEW k, PersistSubmittedFact(w, a, k)
            PROVE  proc'[w].pc \notin Sending
  BY <1>persist, <1>types DEF PersistSubmittedFact, Start, Move, At, Sending
<1>unknown. ASSUME NEW a, MarkSubmissionUnknown(w, a)
            PROVE  proc'[w].pc \notin Sending
  BY <1>unknown, Finishes DEF MarkSubmissionUnknown
<1>reject. ASSUME NEW a, NEW terminal, RecordPreacceptRejection(w, a, terminal)
           PROVE  proc'[w].pc \notin Sending \/ proc'[w].attempt = proc[w].attempt
  <2>1. \/ Finish(w) \/ GotoReconcile(w)
        \/ Move(w, [proc[w] EXCEPT !.pc = "repost", !.retries = @ + 1])
    BY <1>reject DEF RecordPreacceptRejection
  <2> QED
    BY <2>1, <1>types, Finishes DEF Move, ProcRow
<1>4. CASE RecordAcceptance(w) \/ RecordUnknown(w) \/ RecordRejection(w)
  BY <1>4, <1>persist, <1>unknown, <1>reject
     DEF RecordAcceptance, RecordUnknown, RecordRejection, Sending
<1>5. CASE Repost(w)
  <2>1. proc[w].pc \in Sending
    BY <1>5 DEF Repost, Sending
  <2> QED
    BY <1>5, <2>1, <1>persist, <1>unknown, <1>reject, Finishes DEF Repost
<1>6. CASE CaptureSubmission(w) \/ PauseSubmitted(w)
  BY <1>6, <1>types, Finishes
     DEF CaptureSubmission, PauseSubmitted, Goto, Move, Sending, ProcRow
<1> QED
  BY <1>1, <1>2, <1>3, <1>4, <1>5, <1>6 DEF Submission

LEMMA ReconciliationSendsNothing ==
  ASSUME AttemptInv, NEW w \in Workers, Reconciliation(w)
  PROVE  proc'[w].pc \notin Sending /\ UNCHANGED provider
<1>types. proc \in [Workers -> ProcRow] /\ proc[w] \in ProcRow
  BY AttemptTypes
<1> USE <1>types DEF Sending
<1>goto. ASSUME NEW pc, Goto(w, pc), pc \notin Sending
         PROVE  proc'[w].pc \notin Sending
  BY <1>goto DEF Goto, Move, ProcRow
<1>1. CASE \/ ReconciliationRefused(w) \/ ReconciliationGranted(w)
           \/ AccountForSubmission(w) \/ PauseForOperator(w) \/ ResumeAtQa(w) \/ LoadRefused(w)
  BY <1>1, <1>goto, Finishes
     DEF ReconciliationRefused, ReconciliationGranted, AccountForSubmission, PauseForOperator,
         ResumeAtQa, LoadRefused, Start, Move, At
<1>2. CASE QueryPending(w) \/ QueryFailed(w) \/ QueryRaises(w) \/ PolledAgain(w)
  BY <1>2, Finishes DEF QueryPending, QueryFailed, QueryRaises, PolledAgain
<1>3. CASE QuerySucceeded(w) \/ QueryAnswered(w) \/ AnswerUsed(w)
  BY <1>3, <1>goto, Finishes DEF QuerySucceeded, QueryAnswered, AnswerUsed
<1>4. CASE \/ StoreCandidate(w) \/ StoreFails(w)
           \/ PersistVerdict(w) \/ QaInfrastructureFails(w) \/ RetryQa(w) \/ EvaluateRefused(w)
  BY <1>4, <1>goto, Finishes
     DEF StoreCandidate, StoreFails, MayEvaluate, PersistVerdict, QaInfrastructureFails, RetryQa,
         EvaluateRefused
<1>5. CASE BeginQa(w)
  <2>1. UNCHANGED provider
    BY <1>5 DEF BeginQa
  <2>2. CASE Finish(w)
    BY <2>1, <2>2, Finishes
  <2>3. CASE Move(w, [proc[w] EXCEPT !.pc = "evaluate", !.retries = job.retryCount])
    <3>1. proc'[w].pc = "evaluate"
      BY <2>3, <1>types DEF Move, ProcRow
    <3> QED
      BY <2>1, <3>1
  <2> QED
    BY <1>5, <2>2, <2>3 DEF BeginQa
<1>6. CASE \/ SettleInsteadOfDecision(w) \/ DecidePass(w) \/ DecideRepair(w) \/ DecideFail(w)
           \/ Deliver(w) \/ DeliveryFails(w)
  BY <1>6, <1>goto, Finishes
     DEF SettleInsteadOfDecision, DecidePass, DecideRepair, DecideFail, Deliver, DeliveryFails
<1> QED
  BY <1>1, <1>2, <1>3, <1>4, <1>5, <1>6 DEF Reconciliation

LEMMA EveryStepSendsOn ==
  ASSUME AttemptInv, [Next]_vars
  PROVE  SendsOn /\ FirstTasksStay
<1>types. proc \in [Workers -> ProcRow] /\ 1 \in Attempts
  BY AttemptTypes
<1>1. ASSUME NEW w \in Workers, Select(w) \/ Work(w) \/ Crash(w)
      PROVE  SendsOn /\ FirstTasksStay
  <2>1. \A v \in Workers \ {w} : proc'[v] = proc[v]
    BY <1>1, <1>types, WorkerMoves, OthersStay
  <2>2. CASE Submission(w)
    <3>1. CommitBoundary(w) =>
            job'.status = "ACTIVE" /\ (proc[w].attempt = 1 => reservation'.status = "RESERVED")
      BY DEF CommitBoundary, Fence, OwnsJob, MaySubmit
    <3>2. SendsOn
      BY <2>1, <2>2, <3>1, SubmissionSends DEF SendsOn
    <3>3. FirstTasksStay
      <4>1. CASE UNCHANGED provider
        BY <4>1 DEF FirstTasksStay
      <4>2. CASE proc[w].pc \in Sending /\ Accept(proc[w].attempt)
        <5>1. proc[w].attempt # 1 => provider'[1] = provider[1]
          BY <4>2, <1>types, AttemptTypes DEF Accept
        <5> QED
          BY <4>2, <5>1 DEF FirstTasksStay
      <4> QED
        BY <2>2, <4>1, <4>2, SubmissionSends
    <3> QED
      BY <3>2, <3>3
  <2>3. CASE Reconciliation(w)
    BY <2>1, <2>3, ReconciliationSendsNothing DEF SendsOn, FirstTasksStay
  <2>4. CASE Select(w) \/ LostFence(w) \/ Restart(w) \/ Crash(w)
    <3>1. proc'[w].pc \notin Sending /\ UNCHANGED provider
      BY <2>4, <1>types
         DEF Select, LostFence, Restart, Crash, Start, Finish, Idle, Move, At, Sending
    <3> QED
      BY <2>1, <3>1 DEF SendsOn, FirstTasksStay
  <2> QED
    BY <1>1, <2>2, <2>3, <2>4 DEF Work
<1>2. ASSUME UNCHANGED proc
      PROVE  SendsOn
  BY <1>2 DEF SendsOn
<1>3. CASE DeadLeaseExpires \/ LiveLeaseExpires \/ RetryFallsDue \/ ReservationTimesOut
           \/ \E a \in Attempts : PollDeadlinePasses(a)
  BY <1>2, <1>3 DEF DeadLeaseExpires, LiveLeaseExpires, LeaseExpires, RetryFallsDue,
     ReservationTimesOut, PollDeadlinePasses, FirstTasksStay
<1>4. ASSUME NEW a \in Attempts, NEW k \in Tasks, TaskEnds(a, k) \/ Callback(a, k)
      PROVE  SendsOn /\ FirstTasksStay
  <2>1. CASE Callback(a, k)
    BY <1>2, <2>1 DEF Callback, FirstTasksStay
  <2>2. CASE TaskEnds(a, k)
    <3>1. a = 1 => k \in AcceptedTasks(1) /\ provider[1][k] = "running"
      BY <2>2 DEF TaskEnds, AcceptedTasks
    <3>2. a # 1 => provider'[1] = provider[1]
      BY <2>2, <1>types, AttemptTypes DEF TaskEnds
    <3> QED
      BY <1>2, <2>2, <3>1, <3>2 DEF TaskEnds, FirstTasksStay
  <2> QED
    BY <1>4, <2>1, <2>2
<1>5. CASE Operator \/ Withdraw \/ Download
  BY <1>2, <1>5 DEF Operator, ResolveBind, ResolveFail, Withdraw, Download, FirstTasksStay
<1>6. CASE Quiescent \/ UNCHANGED vars
  BY <1>2, <1>6 DEF Quiescent, vars, FirstTasksStay
<1>7. CASE Next
  <2>1. CASE \E w \in Workers : Select(w) \/ Work(w) \/ Crash(w)
    BY <1>1, <2>1
  <2>2. CASE \E a \in Attempts, k \in Tasks : TaskEnds(a, k) \/ Callback(a, k)
    BY <1>4, <2>2
  <2> QED
    BY <1>3, <1>5, <1>6, <1>7, <2>1, <2>2 DEF Next
<1> QED
  BY <1>6, <1>7

-----------------------------------------------------------------------------

LEMMA InitiallyHeld == Init => MoneyInv
<1> SUFFICES ASSUME Init
             PROVE  MoneyInv
  OBVIOUS
<1>1. job.status = "QUEUED" /\ reservation.status = "RESERVED"
  BY DEF Init
<1>2. \A w \in Workers : proc[w].pc \notin Sending
  BY DEF Init, Idle, At, Sending
<1> QED
  BY <1>1, <1>2, InitiallyUnpaid DEF MoneyInv

LEMMA SettledIsGivenBack ==
  ASSUME reservation \in ReservationRow, reservation.status \in {"RESERVED", "CAPTURED"}, NotRefunded,
         NEW key \in RefundKeys, reservation' = Settled(key)
  PROVE  GivenBack'
BY DEF Settled, Released, Refunded, ReservationRow, GivenBack, NotRefunded

LEMMA MoneyInvInductive ==
  ASSUME EvidenceIsFinal
  PROVE  MoneyInv /\ [Next]_vars => MoneyInv'
<1> SUFFICES ASSUME MoneyInv, [Next]_vars
             PROVE  MoneyInv'
  OBVIOUS
<1>0. /\ PaidInv /\ PaidInv' /\ AttemptInv /\ MoneyStep /\ SendsOn /\ FirstTasksStay
      /\ job \in JobRow /\ reservation \in ReservationRow
  BY PaidInvInductive, EveryStepIsAMoneyStep, EveryStepSendsOn, AttemptTypes DEF MoneyInv, PaidInv
\* Credits that were released stay released for want of a result.
<1>released. reservation.status = "RELEASED" => Fruitless'
  BY <1>0 DEF MoneyInv, FirstTasksStay, Fruitless, AcceptedTasks
<1>1. CASE Keeps
  <2>1. job'.status \in {"FAILED", "CANCELLED"} => GivenBack'
    BY <1>1 DEF MoneyInv, Keeps, GivenBack, NotRefunded, Open, TerminalJob
  <2>2. reservation'.status = "RELEASED" => reservation.status = "RELEASED"
    BY <1>1 DEF Keeps
  <2>3. job'.status = "FAILED" => job.status = "FAILED"
    BY <1>1 DEF Keeps, Open, TerminalJob
  <2>4. \A w \in Workers : proc'[w].pc \in Sending =>
          job'.status # "FAILED" /\ (reservation'.status = "RELEASED" => proc'[w].attempt # 1)
    BY <1>0, <2>2, <2>3 DEF MoneyInv, SendsOn
  <2> QED
    BY <1>0, <1>released, <2>1, <2>2, <2>4 DEF MoneyInv
<1>2. CASE Fails
  <2>1. Open
    BY <1>2 DEF MoneyInv, Fails, NobodySends, Open, TerminalJob
  <2>2. GivenBack'
    BY <1>0, <1>2, <2>1, SettledIsGivenBack DEF PaidInv, Fails
  <2>3. NobodySends' /\ (reservation.status = "RESERVED" => Fruitless')
    BY <1>2 DEF Fails, Conclusive
  <2>4. reservation'.status = "RELEASED" => reservation.status = "RESERVED"
    BY <1>0, <1>2, <2>1 DEF PaidInv, Fails, Settled, Refunded, ReservationRow
  <2> QED
    BY <1>0, <2>2, <2>3, <2>4 DEF MoneyInv, NobodySends
<1>3. CASE Cancels
  <2>1. Open
    BY <1>0, <1>3 DEF PaidInv, Cancels, CaseIsSettleable, Open, TerminalJob
  <2>2. GivenBack' /\ (reservation'.status = "RELEASED" => reservation.status = "RESERVED")
    <3>1. \/ reservation.status = "RESERVED" /\ reservation' = Released(reservation)
          \/ /\ reservation.status = "CAPTURED"
             /\ reservation' = Refunded(reservation, "partner-provider-refund")
      BY <1>0, <1>3, <2>1 DEF PaidInv, Cancels, CaseMoney
    <3> QED
      BY <1>0, <2>1, <3>1
         DEF PaidInv, Released, Refunded, ReservationRow, RefundKeys, GivenBack, NotRefunded
  <2>3. reservation.status = "RESERVED" => NobodySends' /\ Fruitless'
    BY <1>3 DEF Cancels, Conclusive
  <2> QED
    BY <1>0, <1>3, <2>2, <2>3 DEF MoneyInv, NobodySends, Cancels
<1>4. CASE Delivers
  BY <1>0, <1>4 DEF MoneyInv, Delivers
<1>5. CASE Withdraws
  <2>0. order.partner /\ job.status # "FINISHED" /\ UNCHANGED <<provider, proc>>
    BY <1>0, <1>5 DEF PaidInv, Withdraws, Withdraw
  <2>1. CASE ReleasePlanned
    <3>1. Open /\ job'.status = "CANCELLED" /\ reservation' = Released(reservation)
      <4>1. job' = [job EXCEPT !.status = "CANCELLED"]
        BY <1>5, <2>1 DEF Withdraws, Withdraw
      <4>2. reservation' = Released(reservation)
        <5>1. reservation' = CASE ReleasePlanned -> Released(reservation)
                               [] RefundPlanned  -> Refunded(reservation, "partner-withdraw-refund")
                               [] OTHER          -> reservation
          BY <1>5 DEF Withdraws, Withdraw
        <5>2. ~RefundPlanned
          BY <2>1 DEF ReleasePlanned, RefundPlanned
        <5> QED
          BY <2>1, <5>1, <5>2
      <4> QED
        BY <1>0, <2>1, <4>1, <4>2 DEF ReleasePlanned, JobRow, Open, TerminalJob
    <3>2. GivenBack' /\ reservation.status = "RESERVED"
      BY <1>0, <1>5, <2>1, <3>1
         DEF PaidInv, Withdraws, Withdraw, WithdrawalRaises, Released, ReservationRow, GivenBack, NotRefunded
    <3>3. NobodySends' /\ Fruitless'
      BY <1>5, <2>1, <3>2 DEF Withdraws, Conclusive
    <3> QED
      BY <1>0, <3>1, <3>2, <3>3 DEF MoneyInv, NobodySends
  <2>2. CASE ~ReleasePlanned
    <3>1. job' = job /\ reservation' = reservation
      BY <1>5, <2>0, <2>2 DEF Withdraws, Withdraw, RefundPlanned
    <3> QED
      BY <1>0, <1>released, <2>0, <3>1 DEF MoneyInv, GivenBack, NotRefunded
  <2> QED
    BY <2>1, <2>2
<1>6. CASE Download
  BY <1>0, <1>released, <1>6 DEF MoneyInv, Download, GivenBack, NotRefunded
<1> QED
  BY <1>0, <1>1, <1>2, <1>3, <1>4, <1>5, <1>6 DEF MoneyStep

THEOREM MoneyInvariant ==
  ASSUME EvidenceIsFinal
  PROVE  Spec => []MoneyInv
BY InitiallyHeld, MoneyInvInductive, PTL DEF Spec

\* What became of the credits agrees with what became of the order, whichever settlement
\* comes first and whoever comes too late, provided that operators rule on submissions
\* nobody is still sending.
THEOREM MoneyFollowsOutcome ==
  ASSUME EvidenceIsFinal
  PROVE  Spec => []MoneyMatchesOutcome
<1>1. MoneyInv => MoneyMatchesOutcome
  <2> SUFFICES ASSUME MoneyInv
               PROVE  MoneyMatchesOutcome
    OBVIOUS
  <2>1. /\ Open => reservation.status \in {"RESERVED", "CAPTURED"} /\ NotRefunded
        /\ job.status = "FINISHED" => reservation.status = "CAPTURED" /\ NotRefunded
    BY DEF MoneyInv, PaidInv
  <2>2. job.status \in {"FAILED", "CANCELLED"} =>
          \/ reservation.status = "RELEASED" /\ NotRefunded
          \/ reservation.status = "CAPTURED" /\ RefundedOnce
    BY FS_Singleton DEF MoneyInv, GivenBack, RefundedOnce
  <2> QED
    BY <2>1, <2>2 DEF MoneyMatchesOutcome, Open, TerminalJob
<1> QED
  BY <1>1, MoneyInvariant, PTL

\* Credits are captured only for a submission that EvoLink accepted, and given back
\* untouched only if it accepted none or what it accepted has failed; under the same
\* proviso.
THEOREM ChargedForWhatWasAccepted ==
  ASSUME EvidenceIsFinal
  PROVE  Spec => []ChargedIffAccepted
<1>1. MoneyInv => ChargedIffAccepted
  BY DEF MoneyInv, PaidInv, AttemptInv, CreditInv, Fruitless, ChargedIffAccepted
<1> QED
  BY <1>1, MoneyInvariant, PTL

\* A settled job stays settled: no late write changes its outcome, an attempt that has
\* ended, or its money, and a failed or cancelled job is never delivered; under the same
\* proviso.
THEOREM SettledForGood ==
  ASSUME EvidenceIsFinal
  PROVE  Spec => SettlementIsFinal
<1> DEFINE Final ==
      job.status \in TerminalJob =>
        /\ job'.status = job.status
        /\ \A a \in Attempts :
             attempt[a].status \in {"FINISHED", "FAILED"} => attempt'[a].status = attempt[a].status
        /\ reservation'.status = reservation.status
        /\ reservation'.refunds = reservation.refunds
        /\ order'.settlement = order.settlement
        /\ job.status # "FINISHED" => order'.delivery # "READY"
<1>1. MoneyInv /\ [Next]_vars => [Final]_vars
  <2> SUFFICES ASSUME MoneyInv, [Next]_vars, ~Open
               PROVE  Final
    BY DEF Open
  <2>0. PaidInv /\ AttemptInv /\ RowStep /\ MoneyStep
    BY EveryStepGoesOn, EveryStepIsAMoneyStep DEF MoneyInv, PaidInv
  <2>1. /\ job'.status = job.status
        /\ \A a \in Attempts :
             attempt[a].status \in {"FINISHED", "FAILED"} => attempt'[a].status = attempt[a].status
    BY <2>0, RowsGoOn DEF RowStep, Ratchet, RowGoesOn
  <2>2. /\ reservation'.status = reservation.status
        /\ reservation'.refunds = reservation.refunds
        /\ order'.settlement = order.settlement
        /\ job.status # "FINISHED" => order'.delivery # "READY"
    <3>1. CASE Keeps
      BY <2>0, <3>1 DEF PaidInv, Keeps, KeepsOrder, Open, TerminalJob
    <3>2. ~Fails /\ ~Cancels
      BY <2>0 DEF MoneyInv, PaidInv, Fails, Cancels, CaseIsSettleable, NobodySends, Open, TerminalJob
    <3>3. CASE Delivers
      BY <2>0, <3>3 DEF PaidInv, Delivers, Open, TerminalJob
    <3>4. CASE Withdraws
      <4>1. job.status # "FINISHED" /\ ~ReleasePlanned /\ ~RefundPlanned
        BY <2>0, <3>4 DEF PaidInv, Withdraws, Withdraw, ReleasePlanned, RefundPlanned, Open, TerminalJob
      <4>2. order'.settlement = order.settlement /\ order'.delivery = "REVOKED"
        BY <2>0, <3>4, <4>1, AttemptTypes DEF Withdraws, Withdraw, OrderRow
      <4> QED
        BY <3>4, <4>1, <4>2 DEF Withdraws, Withdraw
    <3>5. CASE Download
      <4>1. job.status = "FINISHED"
        BY <2>0, <3>5 DEF PaidInv, Download, Open, TerminalJob
      <4>2. order'.settlement = order.settlement
        BY <2>0, <3>5, AttemptTypes DEF Download, OrderRow
      <4> QED
        BY <3>5, <4>1, <4>2 DEF Download
    <3> QED
      BY <2>0, <3>1, <3>2, <3>3, <3>4, <3>5 DEF MoneyStep
  <2> QED
    BY <2>1, <2>2
<1> QED
  BY <1>1, MoneyInvariant, PTL DEF Spec, SettlementIsFinal

-----------------------------------------------------------------------------
(***************************************************************************)
(* Which jobs are forgotten.  While the INITIAL attempt is ambiguous, or   *)
(* its own invocation still submits it, nobody acts on a result of the     *)
(* order: so nothing hides it from the operators' queue.                   *)
(***************************************************************************)

Ambiguous == attempt[1].status = "UNKNOWN"

\* The INITIAL attempt's job waits for reconciliation, and no retry is due.
Waits ==
  job.status = "RECONCILING" /\ job.nextRetry = "none" /\ job.active = 1 /\ consentCase = "none"

OwnerSubmits == \E v \in Workers : OwnsJob(v) /\ Submits(v, 1)

NobodyCharges == \A v \in Workers : proc[v].pc \notin Charging

Queued == order.status = "UNKNOWN_EXTERNAL_STATE"

WaitInv ==
  /\ AttemptInv
  /\ Ambiguous \/ OwnerSubmits => NobodyCharges
  /\ Ambiguous /\ consentCase = "none" => Queued
  /\ Waits => Ambiguous

(* What every step does *)

WaitRows ==
  /\ Ambiguous' => Ambiguous \/ (Queued' /\ (OwnerSubmits \/ attempt[1].providerJob = 0))
  /\ Ambiguous /\ Ambiguous' /\ NobodyCharges /\ Queued /\ consentCase' = "none" => Queued'
  /\ Waits' => Ambiguous' \/ (Waits /\ (~Ambiguous \/ ~NobodyCharges))
  /\ consentCase' = "none" => consentCase = "none"

\* What a step of w does besides: it comes to act on a result only as the owner
\* of an attempt that is not ambiguous, and to own a job only by a claim.
WaitStep(w) ==
  /\ WaitRows
  /\ proc'[w].pc \in Charging =>
       proc[w].pc \in Charging \/ (OwnsJob(w)' /\ ~Ambiguous')
  /\ OwnsJob(w)' /\ proc'[w].pc \in Submitting => OwnsJob(w)

-----------------------------------------------------------------------------
(* Helpers *)

LEMMA NoTaskNoCharge ==
  ASSUME AttemptInv, attempt[1].providerJob = 0
  PROVE  NobodyCharges
<1> SUFFICES ASSUME NEW w \in Workers, proc[w].pc \in Charging
             PROVE  FALSE
  BY DEF NobodyCharges
<1>1. PICK a \in Attempts : a = proc[w].attempt
  BY AttemptTypes, PositionSets
<1>2. attempt[a].providerJob # 0 /\ attempt[a].status # "NONE"
  BY <1>1, PositionSets DEF AttemptInv, PositionInv
<1>3. a # 1 /\ a \in Nat /\ 1 < a /\ job.active \in Nat /\ 1 \in Attempts
  BY <1>2, AttemptTypes, ConstantsAssumption DEF Attempts
<1>4. ~(a > job.active)
  BY <1>2, AttemptTypes DEF RepairChain
<1>5. attempt[1].status = "FINISHED"
  BY <1>3, <1>4, AttemptTypes DEF RepairChain
<1> QED
  BY <1>3, <1>5 DEF AttemptInv, RowInv

\* An ambiguous INITIAL attempt is the active one.
LEMMA AmbiguousIsActive ==
  ASSUME AttemptInv, Ambiguous
  PROVE  job.active = 1
BY AttemptTypes, UnderWayIsActive DEF Ambiguous

LEMMA RowsRest ==
  ASSUME UNCHANGED <<attempt, order, consentCase>>, Waits' => Waits
  PROVE  WaitRows
BY DEF WaitRows, Ambiguous, Queued

LEMMA NothingWaits ==
  ASSUME UNCHANGED rows
  PROVE  WaitRows
BY RowsRest DEF rows, Waits

\* The step of an invocation that acts on a result.
LEMMA ChargedRest ==
  ASSUME NEW w \in Workers, proc[w].pc \in Charging,
         Ambiguous' => Ambiguous, Waits' => Waits, consentCase' = "none" => consentCase = "none"
  PROVE  WaitRows
BY DEF WaitRows, NobodyCharges

\* A withdrawal that is settled: nobody waits any more.
LEMMA CaseRest ==
  ASSUME AttemptInv, NEW a \in Attempts, SettleCase(a)
  PROVE  WaitRows
<1>1. consentCase' # "none" /\ ~Waits'
  BY DEF SettleCase, Waits
<1>2. Ambiguous' => Ambiguous
  BY AttemptTypes DEF SettleCase, Ambiguous, AttemptRow
<1> QED
  BY <1>1, <1>2 DEF WaitRows

\* w comes to no result and to no claim.
LEMMA WaitsOn ==
  ASSUME AttemptInv, NEW w \in Workers, WaitRows, proc'[w].pc \notin Charging \/ proc[w].pc \in Charging,
         proc'[w].pc \in Submitting => job'.holder = job.holder /\ job'.status = job.status
  PROVE  WaitStep(w)
BY DEF WaitStep, OwnsJob

LEMMA Departs ==
  ASSUME AttemptInv, NEW w \in Workers, Finish(w) \/ GotoReconcile(w)
  PROVE  proc'[w].pc \notin Charging /\ proc'[w].pc \notin Submitting
BY AttemptTypes
   DEF Finish, Idle, GotoReconcile, At, Move, Charging, Judging, Submitting

LEMMA DepartsWaiting ==
  ASSUME AttemptInv, NEW w \in Workers, WaitRows, Finish(w) \/ GotoReconcile(w)
  PROVE  WaitStep(w)
BY Departs, WaitsOn

LEMMA FailedRest ==
  ASSUME AttemptInv, NEW allow, FailAndSettle(allow)
  PROVE  ~Waits' /\ job'.status = "FAILED"
BY AttemptTypes DEF FailAndSettle, Unleased, JobRow, Waits

LEMMA PausedRest ==
  ASSUME AttemptInv, RetryLater \/ job' = Paused(job, "later")
  PROVE  ~Waits'
BY AttemptTypes DEF RetryLater, Paused, Unleased, JobRow, Waits

-----------------------------------------------------------------------------
(* Submission *)

\* The fence of the INITIAL attempt's submission reads the row.
LEMMA FirstIsFenced ==
  ASSUME NEW w \in Workers, proc[w].pc \in Submitting, proc[w].attempt = 1, FencePasses(w)
  PROVE  OwnsJob(w) /\ OwnerSubmits /\ ~Waits
BY DEF FencePasses, RemembersJob, Fence, OwnsJob, OwnerSubmits, Submits, Submitting, Waits, Charging,
   Judging

\* Whoever submits a repair has left the INITIAL attempt behind.
LEMMA RepairIsClear ==
  ASSUME AttemptInv, NEW w \in Workers, proc[w].pc \in Submitting, NEW a \in Attempts,
         a = proc[w].attempt, a # 1
  PROVE  ~Ambiguous /\ ~Waits /\ job.active # 1
<1>1. attempt[a].status # "NONE" /\ a \in Nat /\ job.active \in Nat /\ 1 < a
  BY AttemptTypes, PositionSets, ConstantsAssumption DEF AttemptInv, PositionInv, Attempts, Engaged
<1>2. ~(a > job.active)
  BY <1>1, AttemptTypes DEF RepairChain
<1> QED
  BY <1>1, <1>2, AmbiguousIsActive DEF Waits

LEMMA PersistWaits ==
  ASSUME AttemptInv, NEW w \in Workers, proc[w].pc \in Submitting, FencePasses(w),
         NEW a \in Attempts, a = proc[w].attempt, NEW k, PersistSubmittedFact(w, a, k)
  PROVE  WaitStep(w)
<1>1. job'.status = job.status /\ job'.nextRetry = job.nextRetry /\ job'.active = job.active
      /\ job'.holder = job.holder
  BY AttemptTypes DEF PersistSubmittedFact, JobRow
<1>2. Waits' => Waits
  BY <1>1 DEF PersistSubmittedFact, Waits
<1>3. ~Ambiguous' \/ (a # 1 /\ attempt'[1] = attempt[1])
  BY AttemptTypes DEF PersistSubmittedFact, WithAttempt, Submitted, AttemptRow, Ambiguous
<1>4. ~Waits /\ ~Ambiguous'
  BY <1>3, FirstIsFenced, RepairIsClear DEF Ambiguous
<1>5. WaitRows
  BY <1>2, <1>4 DEF WaitRows, PersistSubmittedFact
<1>6. proc'[w].pc \notin Charging
  BY AttemptTypes DEF PersistSubmittedFact, Start, Move, At, Charging, Judging
<1> QED
  BY <1>1, <1>5, <1>6, WaitsOn

LEMMA UnknownWaits ==
  ASSUME AttemptInv, NEW w \in Workers, proc[w].pc \in Submitting, FencePasses(w),
         NEW a \in Attempts, a = proc[w].attempt, MarkSubmissionUnknown(w, a)
  PROVE  WaitStep(w)
<1>1. Queued' /\ consentCase' = consentCase
  BY AttemptTypes DEF MarkSubmissionUnknown, OrderRow, Queued
<1>2. CASE a = 1
  <2>1. Ambiguous'
    BY <1>2, AttemptTypes DEF MarkSubmissionUnknown, Ambiguous, AttemptRow
  <2> QED
    BY <1>1, <1>2, <2>1, FirstIsFenced, DepartsWaiting DEF WaitRows, MarkSubmissionUnknown
<1>3. CASE a # 1
  <2>1. attempt'[1] = attempt[1] /\ job'.active = job.active
    BY <1>3, AttemptTypes DEF MarkSubmissionUnknown, Unleased, JobRow
  <2>2. ~Waits' /\ ~Ambiguous'
    BY <1>3, <2>1, RepairIsClear DEF Waits, Ambiguous
  <2> QED
    BY <1>1, <2>2, DepartsWaiting DEF WaitRows, MarkSubmissionUnknown
<1> QED
  BY <1>2, <1>3

LEMMA RejectionWaits ==
  ASSUME AttemptInv, NEW w \in Workers, proc[w].pc \in Sending, FencePasses(w),
         NEW a \in Attempts, a = proc[w].attempt, NEW terminal, RecordPreacceptRejection(w, a, terminal)
  PROVE  WaitStep(w)
<1>0. proc[w].pc \in Submitting
  BY PositionSets
<1>1. CASE /\ attempt' = [attempt EXCEPT ![a].rejections = @ + 1]
           /\ \E n \in IF OwnsJob(w) THEN {RetryMore(job.retryCount)} ELSE 1 .. MaxRetries :
                job' = [job EXCEPT !.retryCount = n]
           /\ Move(w, [proc[w] EXCEPT !.pc = "repost", !.retries = @ + 1])
           /\ UNCHANGED <<order, reservation, consentCase>>
  <2>1. job'.status = job.status /\ job'.nextRetry = job.nextRetry /\ job'.active = job.active
        /\ job'.holder = job.holder
    BY <1>1, AttemptTypes DEF JobRow
  <2>2. attempt'[1].status = attempt[1].status
    BY <1>1, AttemptTypes DEF AttemptRow
  <2>3. Waits' = Waits /\ Ambiguous' = Ambiguous /\ Queued' = Queued
    BY <1>1, <2>1, <2>2 DEF Waits, Ambiguous, Queued
  <2>4. ~Waits
    BY <1>0, FirstIsFenced, RepairIsClear
  <2>5. proc'[w].pc \notin Charging
    BY <1>1, AttemptTypes DEF Move, ProcRow, Charging, Judging
  <2> QED
    BY <1>1, <2>1, <2>3, <2>4, <2>5, WaitsOn DEF WaitRows
<1>2. CASE /\ attempt' = WithAttempt(a, [attempt[a] EXCEPT !.status = "FAILED", !.rejections = @ + 1])
           /\ FailAndSettle(a = 1)
           /\ GotoReconcile(w)
           /\ UNCHANGED consentCase
  <2>1. ~Ambiguous' \/ (a # 1 /\ attempt'[1] = attempt[1])
    BY <1>2, AttemptTypes DEF WithAttempt, AttemptRow, Ambiguous
  <2>2. ~Ambiguous'
    BY <1>0, <2>1, RepairIsClear DEF Ambiguous
  <2> QED
    BY <1>2, <2>2, FailedRest, DepartsWaiting DEF WaitRows
<1>3. CASE Finish(w) /\ UNCHANGED rows
  BY <1>3, NothingWaits, DepartsWaiting
<1> QED
  BY <1>1, <1>2, <1>3 DEF RecordPreacceptRejection

LEMMA SubmissionWaits ==
  ASSUME AttemptInv, NEW w \in Workers, Submission(w)
  PROVE  WaitStep(w)
<1>types. job \in JobRow /\ proc[w] \in ProcRow /\ proc \in [Workers -> ProcRow]
          /\ attempt \in [Attempts -> AttemptRow] /\ 1 \in Attempts
  BY AttemptTypes
<1>goto. ASSUME NEW pc, Goto(w, pc)
         PROVE  proc'[w].pc = pc
  BY <1>goto, <1>types DEF Goto, Move, ProcRow
<1>1. CASE ClaimRefused(w) \/ BoundaryRefused(w)
  BY <1>1, NothingWaits, DepartsWaiting DEF ClaimRefused, BoundaryRefused
<1>2. CASE ClaimRouted(w)
  <2>1. ~Waits'
    BY <1>2, <1>types DEF ClaimRouted, Unleased, JobRow, Waits
  <2> QED
    BY <1>2, <2>1, RowsRest, DepartsWaiting DEF ClaimRouted
<1>3. CASE ClaimGranted(w)
  <2>1. ~Waits'
    BY <1>3, <1>types DEF ClaimGranted, Leased, JobRow, Waits
  <2>2. proc'[w].pc \in {"prepare", "boundary"}
    BY <1>3, <1>goto DEF ClaimGranted
  <2> QED
    BY <1>3, <2>1, <2>2, RowsRest, WaitsOn DEF ClaimGranted, Charging, Judging, Submitting
<1>4. CASE PrepareInitial(w)
  <2>1. job'.status = "ACTIVE"
    BY <1>4, <1>types DEF PrepareInitial, Fence, OwnsJob, JobRow
  <2>2. Ambiguous' => Ambiguous
    BY <1>4, <1>types DEF PrepareInitial, Prepared, Ambiguous
  <2>3. Ambiguous /\ Ambiguous' => Queued' = Queued
    BY <1>4 DEF PrepareInitial, Queued
  <2>4. proc'[w].pc \in {"boundary", "idle"}
    BY <1>4, <1>types DEF PrepareInitial, Start, Finish, Idle, Move, At
  <2>5. UNCHANGED <<order, consentCase>>
    BY <1>4 DEF PrepareInitial
  <2> QED
    BY <2>1, <2>2, <2>3, <2>4, <2>5, WaitsOn DEF WaitRows, Waits, Charging, Judging, Submitting
<1>5. CASE CommitBoundary(w)
  <2>1. PICK a \in Attempts : a = proc[w].attempt
    BY <1>5, AttemptTypes, PositionSets DEF CommitBoundary
  <2>2. attempt[a].status = "PREPARED" /\ OwnsJob(w) /\ job' = job /\ consentCase' = consentCase
    BY <1>5, <2>1 DEF CommitBoundary, MaySubmit, Fence
  <2>3. ~Ambiguous' \/ (a # 1 /\ attempt'[1] = attempt[1])
    BY <1>5, <1>types, <2>1 DEF CommitBoundary, WithAttempt, AttemptRow, Ambiguous
  <2>4. ~Ambiguous'
    BY <2>2, <2>3, UnderWayIsActive, AmbiguousIsActive DEF Ambiguous
  <2>5. ~Waits'
    BY <2>2 DEF OwnsJob, Waits
  <2>6. proc'[w].pc = "post"
    BY <1>5, <1>goto DEF CommitBoundary
  <2> QED
    BY <2>2, <2>4, <2>5, <2>6, WaitsOn DEF WaitRows, Charging, Judging
<1>6. CASE PostAccepted(w) \/ PostAmbiguous(w) \/ PostRejected(w)
  <2>1. proc'[w].pc \in Submitting /\ UNCHANGED rows
    BY <1>6, <1>types
       DEF PostAccepted, PostAmbiguous, PostRejected, Goto, Move, ProcRow, Submitting
  <2> QED
    BY <2>1, NothingWaits, WaitsOn, PositionSets DEF rows
<1>7. CASE RecordAcceptance(w) \/ RecordUnknown(w) \/ RecordRejection(w) \/ Repost(w)
  <2>1. proc[w].pc \in Submitting /\ FencePasses(w)
    BY <1>7 DEF RecordAcceptance, RecordUnknown, RecordRejection, Repost, Submitting
  <2>2. PICK a \in Attempts : a = proc[w].attempt
    BY <2>1, AttemptTypes, PositionSets
  <2>3. CASE RecordAcceptance(w)
    BY <2>1, <2>2, <2>3, PersistWaits DEF RecordAcceptance
  <2>4. CASE RecordUnknown(w)
    BY <2>1, <2>2, <2>4, UnknownWaits DEF RecordUnknown
  <2>5. CASE RecordRejection(w)
    <3>1. proc[w].pc \in Sending
      BY <2>5 DEF RecordRejection, Sending
    <3> QED
      BY <2>1, <2>2, <2>5, <3>1, RejectionWaits DEF RecordRejection
  <2>6. CASE Repost(w)
    <3>1. proc[w].pc \in Sending
      BY <2>6 DEF Repost, Sending
    <3>2. CASE PersistSubmittedFact(w, a, FreshTask(a))
      BY <2>1, <2>2, <3>2, PersistWaits
    <3>3. CASE MarkSubmissionUnknown(w, a)
      BY <2>1, <2>2, <3>3, UnknownWaits
    <3>4. CASE \E retryable \in BOOLEAN : RecordPreacceptRejection(w, a, IsTerminal(w, retryable))
      BY <2>1, <2>2, <3>1, <3>4, RejectionWaits
    <3>5. CASE Finish(w) /\ UNCHANGED rows
      BY <3>5, NothingWaits, DepartsWaiting
    <3> QED
      BY <2>2, <2>6, <3>2, <3>3, <3>4, <3>5 DEF Repost
  <2> QED
    BY <1>7, <2>3, <2>4, <2>5, <2>6
<1>8. CASE CaptureSubmission(w)
  <2>1. attempt'[1].status = attempt[1].status /\ UNCHANGED <<job, order, consentCase>>
    BY <1>8, <1>types DEF CaptureSubmission, AttemptRow
  <2>2. Waits' = Waits /\ Ambiguous' = Ambiguous /\ Queued' = Queued
    BY <2>1 DEF Waits, Ambiguous, Queued
  <2>3. proc'[w].pc = "pause"
    BY <1>8, <1>goto DEF CaptureSubmission
  <2> QED
    BY <2>1, <2>2, <2>3, WaitsOn DEF WaitRows, Charging, Judging
<1>9. CASE PauseSubmitted(w)
  BY <1>9, PausedRest, RowsRest, DepartsWaiting DEF PauseSubmitted
<1> QED
  BY <1>1, <1>2, <1>3, <1>4, <1>5, <1>6, <1>7, <1>8, <1>9 DEF Submission

-----------------------------------------------------------------------------
(* Reconciliation *)

\* w begins to act on a result: the attempt it has loaded is not ambiguous.
LEMMA BeginsToCharge ==
  ASSUME AttemptInv, NEW w \in Workers, NEW a \in Attempts, Fence(w), Loadable(a),
         UNCHANGED <<job, order, consentCase>>,
         \A b \in Attempts \ {a} : attempt'[b] = attempt[b],
         attempt'[a].status \in {"SUBMITTED", "FINISHED"},
         proc'[w].pc \in Charging
  PROVE  WaitStep(w)
<1>1. job.active = a /\ OwnsJob(w) /\ OwnsJob(w)'
  BY DEF Loadable, Fence, OwnsJob
<1>2. ~Ambiguous'
  BY <1>1, AmbiguousIsActive, AttemptTypes DEF Ambiguous
<1>3. ~Waits'
  BY <1>1 DEF OwnsJob, Waits
<1>4. WaitRows
  BY <1>2, <1>3 DEF WaitRows
<1> QED
  BY <1>1, <1>2, <1>4 DEF WaitStep

LEMMA AccountedWritesOne ==
  ASSUME AttemptInv, NEW a \in Attempts, Accounted(a)
  PROVE  \A b \in Attempts \ {a} : attempt'[b] = attempt[b]
BY AttemptTypes DEF Accounted

LEMMA LoadWaits ==
  ASSUME AttemptInv, NEW w \in Workers,
         \/ ReconciliationRefused(w) \/ ReconciliationGranted(w)
         \/ AccountForSubmission(w) \/ PauseForOperator(w) \/ ResumeAtQa(w) \/ LoadRefused(w)
         \/ QueryAnswered(w) \/ QueryRaises(w)
  PROVE  WaitStep(w)
<1>types. job \in JobRow /\ proc[w] \in ProcRow /\ proc \in [Workers -> ProcRow]
          /\ attempt \in [Attempts -> AttemptRow] /\ order \in OrderRow /\ 1 \in Attempts
  BY AttemptTypes
<1>goto. ASSUME NEW pc, Goto(w, pc)
         PROVE  proc'[w].pc = pc
  BY <1>goto, <1>types DEF Goto, Move, ProcRow
<1>1. CASE ReconciliationRefused(w) \/ LoadRefused(w) \/ QueryRaises(w)
  BY <1>1, NothingWaits, DepartsWaiting DEF ReconciliationRefused, LoadRefused, QueryRaises
<1>2. CASE ReconciliationGranted(w)
  <2>1. ~Waits' /\ consentCase' = consentCase
    BY <1>2, <1>types DEF ReconciliationGranted, Leased, JobRow, Waits
  <2>2. CASE UNCHANGED <<attempt, order>>
    <3>1. WaitRows
      BY <2>1, <2>2, RowsRest
    <3>2. proc'[w].pc = "load"
      BY <1>2, <1>types DEF ReconciliationGranted, Start, Move, At
    <3> QED
      BY <3>1, <3>2 DEF WaitStep, Charging, Judging, Submitting
  <2>3. CASE /\ ActiveStatus = "SUBMITTING"
             /\ attempt' = [attempt EXCEPT ![job.active].status = "UNKNOWN"]
             /\ order' = [order EXCEPT !.status = "UNKNOWN_EXTERNAL_STATE"]
    <3>1. job.active \in Attempts /\ attempt[job.active].status = "SUBMITTING"
      BY <2>3, ActiveHasRow DEF ActiveStatus
    <3>2. attempt[job.active].providerJob = 0
      BY <3>1 DEF AttemptInv, RowInv
    <3>3. job.active # 1 => attempt'[1] = attempt[1]
      BY <2>3, <1>types
    <3>4. Queued'
      BY <2>3, <1>types DEF OrderRow, Queued
    <3>5. WaitRows
      BY <2>1, <3>2, <3>3, <3>4 DEF WaitRows, Ambiguous
    <3>6. proc'[w].pc = "load"
      BY <1>2, <1>types DEF ReconciliationGranted, Start, Move, At
    <3> QED
      BY <3>5, <3>6 DEF WaitStep, Charging, Judging, Submitting
  <2> QED
    BY <1>2, <2>2, <2>3 DEF ReconciliationGranted, SubmittingIsUnknown
<1>3. CASE AccountForSubmission(w) \/ QueryAnswered(w)
  <2>1. PICK a \in Attempts : a = proc[w].attempt
    BY <1>3, AttemptTypes, PositionSets DEF AccountForSubmission, QueryAnswered, MayQueryUnknown, Engaged
  <2>2. /\ Fence(w) /\ Loadable(a) /\ Accounted(a) /\ UNCHANGED <<job, order, consentCase>>
        /\ attempt[a].status \in {"SUBMITTED", "UNKNOWN"}
    BY <1>3, <2>1 DEF AccountForSubmission, QueryAnswered, MayQueryUnknown
  <2>3. proc'[w].pc \in Charging
    BY <1>3, <1>goto DEF AccountForSubmission, QueryAnswered, Charging
  <2>4. attempt'[a].status = "SUBMITTED"
    BY <1>types, <2>2 DEF Accounted, AttemptRow
  <2> QED
    BY <2>2, <2>3, <2>4, AccountedWritesOne, BeginsToCharge
<1>4. CASE PauseForOperator(w)
  <2>1. /\ OwnsJob(w) /\ Loadable(proc[w].attempt) /\ attempt[proc[w].attempt].status = "UNKNOWN"
        /\ job' = Paused(job, "none") /\ UNCHANGED <<attempt, order, consentCase>>
        /\ Finish(w)
    BY <1>4 DEF PauseForOperator, Fence
  <2>2. job'.active = proc[w].attempt
    BY <1>types, <2>1 DEF Paused, Unleased, JobRow, Loadable
  <2>3. Waits' => Ambiguous'
    BY <2>1, <2>2 DEF Waits, Ambiguous
  <2>4. WaitRows
    BY <2>1, <2>3 DEF WaitRows, Ambiguous, Queued
  <2> QED
    BY <2>1, <2>4, DepartsWaiting
<1>5. CASE ResumeAtQa(w)
  <2>1. PICK a \in Attempts : a = proc[w].attempt
    BY <1>5, AttemptTypes, PositionSets DEF ResumeAtQa, Engaged
  <2>2. proc'[w].pc = "qa"
    BY <1>5, <1>goto DEF ResumeAtQa
  <2> QED
    BY <1>5, <2>1, <2>2, BeginsToCharge DEF ResumeAtQa, rows, Charging, Judging
<1> QED
  BY <1>1, <1>2, <1>3, <1>4, <1>5

\* A step of w that acts on a result.
LEMMA ChargingWaits ==
  ASSUME AttemptInv, NEW w \in Workers, proc[w].pc \in Charging,
         Ambiguous' => Ambiguous, Waits' => Waits, consentCase' = "none" => consentCase = "none",
         proc'[w].pc \notin Submitting
  PROVE  WaitStep(w)
BY ChargedRest DEF WaitStep

LEMMA QueryWaits ==
  ASSUME AttemptInv, NEW w \in Workers,
         \/ QueryPending(w) \/ QueryFailed(w) \/ QuerySucceeded(w)
         \/ PolledAgain(w) \/ AnswerUsed(w)
  PROVE  WaitStep(w)
<1>types. job \in JobRow /\ proc[w] \in ProcRow /\ proc \in [Workers -> ProcRow]
          /\ attempt \in [Attempts -> AttemptRow] /\ 1 \in Attempts
  BY AttemptTypes
<1>1. PICK a \in Attempts : a = proc[w].attempt
  BY AttemptTypes, PositionSets
     DEF QueryPending, QueryFailed, QuerySucceeded, PolledAgain, AnswerUsed, MayQuery, MayQueryUnknown,
         Charging, Engaged
<1>2. CASE QueryPending(w) \/ PolledAgain(w)
  <2>1. UNCHANGED <<attempt, consentCase>> /\ Finish(w) /\ proc[w].pc \in Charging
    BY <1>2 DEF QueryPending, PolledAgain, MayQuery, Charging
  <2>2. FailAndSettle(FALSE) \/ RetryLater \/ job' = Paused(job, "later")
    BY <1>2 DEF QueryPending, PolledAgain
  <2>3. ~Waits'
    BY <2>2, FailedRest, PausedRest
  <2> QED
    BY <2>1, <2>3, ChargingWaits, Departs DEF Ambiguous
<1>3. CASE QueryFailed(w)
  <2>1. Finish(w)
    BY <1>3 DEF QueryFailed
  <2>2. CASE SettleCase(a)
    BY <2>1, <2>2, CaseRest, DepartsWaiting
  <2>3. CASE /\ attempt' = [attempt EXCEPT ![a].status = "FAILED"]
             /\ FailAndSettle(MayQueryUnknown(w))
             /\ UNCHANGED consentCase
    <3>1. Ambiguous' => Ambiguous /\ a # 1
      BY <1>types, <2>3 DEF Ambiguous, AttemptRow
    <3>2. a # 1 => ~Ambiguous \/ proc[w].pc \in Charging
      BY <1>1, <1>3, AmbiguousIsActive
         DEF QueryFailed, MayQuery, MayQueryUnknown, Loadable, Charging
    <3>3. ~Waits'
      BY <2>3, FailedRest
    <3> QED
      BY <2>1, <2>3, <3>1, <3>2, <3>3, DepartsWaiting DEF WaitRows, NobodyCharges
  <2> QED
    BY <1>1, <1>3, <2>2, <2>3 DEF QueryFailed
<1>4. CASE QuerySucceeded(w) \/ AnswerUsed(w)
  <2>1. CASE SettleCase(a) /\ Finish(w)
    BY <2>1, CaseRest, DepartsWaiting
  <2>2. CASE Goto(w, "store") /\ UNCHANGED rows
    <3>1. proc[w].pc \in Charging
      BY <1>4 DEF QuerySucceeded, AnswerUsed, MayQuery, Charging
    <3>2. proc'[w].pc = "store"
      BY <1>types, <2>2 DEF Goto, Move, ProcRow
    <3> QED
      BY <2>2, <3>1, <3>2, NothingWaits, WaitsOn DEF Submitting
  <2> QED
    BY <1>1, <1>4, <2>1, <2>2 DEF QuerySucceeded, AnswerUsed
<1> QED
  BY <1>2, <1>3, <1>4

LEMMA JudgingWaits ==
  ASSUME AttemptInv, NEW w \in Workers,
         \/ StoreCandidate(w) \/ StoreFails(w)
         \/ BeginQa(w) \/ PersistVerdict(w) \/ QaInfrastructureFails(w) \/ RetryQa(w)
         \/ EvaluateRefused(w) \/ SettleInsteadOfDecision(w) \/ DecidePass(w)
         \/ DecideRepair(w) \/ DecideFail(w) \/ Deliver(w) \/ DeliveryFails(w)
  PROVE  WaitStep(w)
<1>types. job \in JobRow /\ proc[w] \in ProcRow /\ proc \in [Workers -> ProcRow]
          /\ attempt \in [Attempts -> AttemptRow] /\ 1 \in Attempts
  BY AttemptTypes
<1>0. proc[w].pc \in Charging
  BY DEF StoreCandidate, StoreFails, BeginQa, PersistVerdict, QaInfrastructureFails, RetryQa,
     EvaluateRefused, SettleInsteadOfDecision, DecidePass, DecideRepair, DecideFail, Deliver,
     DeliveryFails, MayEvaluate, MayDeliver, Charging, Judging
<1>1. PICK a \in Attempts : a = proc[w].attempt
  BY <1>0, AttemptTypes, PositionSets
<1>goto. ASSUME NEW pc, Goto(w, pc)
         PROVE  proc'[w].pc = pc
  BY <1>goto, <1>types DEF Goto, Move, ProcRow
<1>case. ASSUME SettleCase(a), Finish(w)
         PROVE  WaitStep(w)
  BY <1>case, CaseRest, DepartsWaiting
<1>2. CASE StoreFails(w) \/ EvaluateRefused(w)
  BY <1>2, NothingWaits, DepartsWaiting DEF StoreFails, EvaluateRefused
<1>3. CASE QaInfrastructureFails(w) \/ DecidePass(w)
  BY <1>0, <1>3, <1>goto, NothingWaits, WaitsOn DEF QaInfrastructureFails, DecidePass, Submitting
<1>4. CASE BeginQa(w) \/ SettleInsteadOfDecision(w)
  <2>1. CASE Move(w, [proc[w] EXCEPT !.pc = "evaluate", !.retries = job.retryCount]) /\ UNCHANGED rows
    <3>1. proc'[w].pc = "evaluate"
      BY <1>types, <2>1 DEF Move, ProcRow
    <3> QED
      BY <1>0, <2>1, <3>1, NothingWaits, WaitsOn DEF Submitting
  <2> QED
    BY <1>1, <1>4, <1>case, <2>1 DEF BeginQa, SettleInsteadOfDecision
<1>5. CASE StoreCandidate(w)
  <2>1. Ambiguous' => Ambiguous
    BY <1>1, <1>5, <1>types DEF StoreCandidate, Ambiguous, AttemptRow
  <2> QED
    BY <1>0, <1>5, <1>goto, <2>1, ChargingWaits DEF StoreCandidate, Waits, Submitting
<1>6. CASE PersistVerdict(w)
  <2>1. Ambiguous' => Ambiguous
    BY <1>1, <1>6, <1>types DEF PersistVerdict, Ambiguous, AttemptRow
  <2> QED
    BY <1>0, <1>6, <1>goto, <2>1, ChargingWaits DEF PersistVerdict, Waits, Submitting
<1>7. CASE RetryQa(w)
  <2>1. ~Waits'
    BY <1>7, <1>types DEF RetryQa, Paused, Unleased, JobRow, Waits
  <2> QED
    BY <1>7, <2>1, RowsRest, DepartsWaiting DEF RetryQa
<1>8. CASE DecideRepair(w)
  <2>1. Ambiguous' => Ambiguous
    BY <1>8, <1>types DEF DecideRepair, Prepared, Ambiguous
  <2>2. ~Waits'
    BY <1>8, <1>types DEF DecideRepair, Fence, OwnsJob, Unleased, JobRow, Waits
  <2> QED
    BY <1>0, <1>8, <2>1, <2>2, ChargingWaits, Departs DEF DecideRepair
<1>9. CASE DecideFail(w)
  BY <1>0, <1>9, FailedRest, ChargingWaits, Departs DEF DecideFail, Ambiguous
<1>10. CASE Deliver(w)
  <2>1. ~Waits'
    BY <1>10, <1>types DEF Deliver, Unleased, JobRow, Waits
  <2> QED
    BY <1>0, <1>10, <2>1, ChargingWaits, Departs DEF Deliver, Ambiguous
<1>11. CASE DeliveryFails(w)
  <2>1. Waits' => Waits
    BY <1>11, FailedRest, PausedRest DEF DeliveryFails, Waits
  <2> QED
    BY <1>0, <1>11, <2>1, ChargingWaits, Departs DEF DeliveryFails, Ambiguous
<1> QED
  BY <1>2, <1>3, <1>4, <1>5, <1>6, <1>7, <1>8, <1>9, <1>10, <1>11

LEMMA WorkerStepWaits ==
  ASSUME AttemptInv, NEW w \in Workers, Select(w) \/ Work(w) \/ Crash(w)
  PROVE  WaitStep(w)
<1>types. proc \in [Workers -> ProcRow]
  BY AttemptTypes
<1>1. CASE Select(w) \/ LostFence(w) \/ Restart(w) \/ Crash(w)
  <2>1. proc'[w].pc \notin Charging /\ proc'[w].pc \notin Submitting /\ UNCHANGED rows
    BY <1>1, <1>types
       DEF Select, LostFence, Restart, Crash, Start, Finish, Idle, Move, At, Charging, Judging, Submitting
  <2> QED
    BY <2>1, NothingWaits, WaitsOn
<1>2. CASE Reconciliation(w)
  BY <1>2, LoadWaits, QueryWaits, JudgingWaits DEF Reconciliation
<1> QED
  BY <1>1, <1>2, SubmissionWaits DEF Work

-----------------------------------------------------------------------------
(* What happens outside the invocations *)

LEMMA TimeWaits ==
  ASSUME AttemptInv,
         \/ LeaseExpires \/ RetryFallsDue \/ ReservationTimesOut
         \/ \E a \in Attempts : PollDeadlinePasses(a)
  PROVE  WaitRows
<1>types. job \in JobRow /\ attempt \in [Attempts -> AttemptRow] /\ 1 \in Attempts
  BY AttemptTypes
<1>1. CASE LeaseExpires \/ RetryFallsDue \/ ReservationTimesOut
  <2>1. Waits' => Waits
    BY <1>1, <1>types DEF LeaseExpires, RetryFallsDue, ReservationTimesOut, JobRow, Waits
  <2> QED
    BY <1>1, <2>1, RowsRest DEF LeaseExpires, RetryFallsDue, ReservationTimesOut
<1>2. ASSUME NEW a \in Attempts, PollDeadlinePasses(a)
      PROVE  WaitRows
  <2>1. attempt'[1].status = attempt[1].status
    BY <1>2, <1>types DEF PollDeadlinePasses, AttemptRow
  <2>2. Waits' = Waits /\ Ambiguous' = Ambiguous /\ Queued' = Queued
    BY <1>2, <2>1 DEF PollDeadlinePasses, Waits, Ambiguous, Queued
  <2> QED
    BY <1>2, <2>2 DEF PollDeadlinePasses, WaitRows
<1> QED
  BY <1>1, <1>2

LEMMA ProviderWaits ==
  ASSUME AttemptInv, NEW a \in Attempts, NEW k \in Tasks, TaskEnds(a, k) \/ Callback(a, k)
  PROVE  WaitRows
<1>types. job \in JobRow /\ attempt \in [Attempts -> AttemptRow] /\ 1 \in Attempts
  BY AttemptTypes
<1>1. CASE TaskEnds(a, k)
  BY <1>1, NothingWaits DEF TaskEnds
<1>2. CASE Callback(a, k)
  <2>1. Ambiguous' => Ambiguous
    BY <1>2, <1>types DEF Callback, WithAttempt, Submitted, AttemptRow, Ambiguous
  <2>2. ~Waits'
    BY <1>2, <1>types DEF Callback, Paused, Unleased, JobRow, Waits
  <2> QED
    BY <1>2, <2>1, <2>2 DEF Callback, WaitRows, Queued
<1> QED
  BY <1>1, <1>2

LEMMA OperatorWaits ==
  ASSUME AttemptInv, Operator
  PROVE  WaitRows
<1>types. job \in JobRow /\ attempt \in [Attempts -> AttemptRow] /\ 1 \in Attempts
  BY AttemptTypes
<1>0. job.active \in Attempts /\ attempt[job.active].status = "UNKNOWN" /\ UNCHANGED <<consentCase, proc>>
  BY ActiveHasRow
     DEF Operator, ResolveBind, ResolveFail, ManualCaseResolvable, ManualCase, ActiveStatus
<1>1. attempt'[job.active].status # "UNKNOWN"
  <2>1. CASE ResolveBind
    BY <1>0, <1>types, <2>1 DEF ResolveBind, WithAttempt, Submitted, AttemptRow
  <2>2. CASE ResolveFail
    BY <1>0, <1>types, <2>2 DEF ResolveFail, AttemptRow
  <2> QED
    BY <2>1, <2>2 DEF Operator
<1>2. ~Ambiguous'
  <2>1. job.active # 1 => attempt'[1] = attempt[1]
    BY <1>0, <1>types DEF Operator, ResolveBind, ResolveFail, WithAttempt
  <2> QED
    BY <1>1, <2>1, AmbiguousIsActive DEF Ambiguous
<1>3. ~Waits'
  BY <1>types DEF Operator, ResolveBind, ResolveFail, JobRow, Waits
<1> QED
  BY <1>0, <1>2, <1>3 DEF WaitRows

LEMMA CustomerWaits ==
  ASSUME AttemptInv, Withdraw \/ Download
  PROVE  WaitRows
<1>1. CASE Withdraw
  <2>1. consentCase' # "none" /\ UNCHANGED <<attempt, proc>>
    BY <1>1 DEF Withdraw
  <2> QED
    BY <2>1 DEF WaitRows, Waits, Ambiguous
<1>2. CASE Download
  <2>1. UNCHANGED <<job, attempt, consentCase, proc>>
    BY <1>2 DEF Download
  <2>2. order'.status = order.status
    BY <1>2, AttemptTypes DEF Download, OrderRow
  <2> QED
    BY <2>1, <2>2 DEF WaitRows, Waits, Ambiguous, Queued
<1> QED
  BY <1>1, <1>2

-----------------------------------------------------------------------------
(* The invariant holds *)

LEMMA EveryStepWaits ==
  ASSUME AttemptInv, [Next]_vars
  PROVE  WaitRows /\ ((\E w \in Workers : Moves(w) /\ Works(w) /\ WaitStep(w)) \/ Aside)
<1>1. (\E w \in Workers : Moves(w) /\ Works(w) /\ WaitStep(w)) \/ Aside
  BY StepOfSomebody, WorkerStepWaits
<1>2. CASE Quiescent \/ UNCHANGED vars
  <2>1. WaitRows
    BY <1>2, NothingWaits DEF Quiescent, vars, rows
  <2> QED
    BY <1>1, <2>1
<1>3. WaitRows
  <2>1. CASE DeadLeaseExpires \/ LiveLeaseExpires \/ RetryFallsDue \/ ReservationTimesOut
             \/ \E a \in Attempts : PollDeadlinePasses(a)
    BY <2>1, TimeWaits DEF DeadLeaseExpires, LiveLeaseExpires
  <2>2. CASE \E a \in Attempts, k \in Tasks : TaskEnds(a, k) \/ Callback(a, k)
    BY <2>2, ProviderWaits
  <2>3. CASE Operator \/ Withdraw \/ Download
    BY <2>3, OperatorWaits, CustomerWaits
  <2>4. CASE \E w \in Workers : Select(w) \/ Work(w) \/ Crash(w)
    BY <2>4, WorkerStepWaits DEF WaitStep
  <2> QED
    BY <1>2, <2>1, <2>2, <2>3, <2>4 DEF Next
<1> QED
  BY <1>1, <1>3

\* Who comes to act on a result, or to submit the INITIAL attempt.
LEMMA EveryStepClears ==
  ASSUME AttemptInv, [Next]_vars
  PROVE  /\ NobodyCharges => NobodyCharges' \/ (~Ambiguous' /\ ~OwnerSubmits')
         /\ OwnerSubmits' => OwnerSubmits \/ Unsent(1)
<1>1. ASSUME Aside
      PROVE  NobodyCharges' = NobodyCharges /\ (OwnerSubmits' => OwnerSubmits)
  BY <1>1 DEF Aside, NobodyCharges, OwnerSubmits, Submits
<1>2. ASSUME NEW w \in Workers, Moves(w), Works(w), WaitStep(w)
      PROVE  /\ NobodyCharges => NobodyCharges' \/ (~Ambiguous' /\ ~OwnerSubmits')
             /\ OwnerSubmits' => OwnerSubmits \/ Unsent(1)
  <2>types. proc \in [Workers -> ProcRow] /\ 1 \in Attempts
    BY AttemptTypes
  <2>1. \A v \in Workers \ {w} : proc'[v] = proc[v]
    BY <1>2, <2>types, OthersStay
  <2>2. ASSUME NobodyCharges, proc'[w].pc \in Charging
        PROVE  ~Ambiguous' /\ ~OwnerSubmits'
    <3>1. OwnsJob(w)' /\ ~Ambiguous'
      BY <1>2, <2>2 DEF WaitStep, NobodyCharges
    <3>2. ASSUME NEW v \in Workers, OwnsJob(v)', Submits(v, 1)'
          PROVE  FALSE
      <4>1. v = w
        BY <3>1, <3>2 DEF OwnsJob
      <4> QED
        BY <2>2, <3>2, <4>1, PositionSets DEF Submits
    <3> QED
      BY <3>1, <3>2 DEF OwnerSubmits
  <2>3. NobodyCharges /\ proc'[w].pc \notin Charging => NobodyCharges'
    BY <2>1 DEF NobodyCharges
  <2>4. ASSUME NEW v \in Workers, OwnsJob(v)', Submits(v, 1)'
        PROVE  OwnerSubmits \/ Unsent(1)
    <3>1. CASE v = w
      <4>1. OwnsJob(w)
        BY <1>2, <2>4, <3>1 DEF WaitStep, Submits
      <4>2. Submits(w, 1) \/ Unsent(1)
        BY <1>2, <2>types, <2>4, <3>1 DEF Works, SubmitStep
      <4> QED
        BY <4>1, <4>2 DEF OwnerSubmits
    <3>2. CASE v # w
      <4>1. OwnsJob(v)
        BY <1>2, <2>4, <3>2 DEF Works, HolderStep
      <4>2. Submits(v, 1)
        BY <2>1, <2>4, <3>2 DEF Submits
      <4> QED
        BY <4>1, <4>2 DEF OwnerSubmits
    <3> QED
      BY <3>1, <3>2
  <2> QED
    BY <2>2, <2>3, <2>4 DEF OwnerSubmits
<1> QED
  BY <1>1, <1>2, EveryStepWaits

LEMMA InitiallyNobodyWaits == Init => WaitInv
<1> SUFFICES ASSUME Init
             PROVE  WaitInv
  OBVIOUS
<1>1. AttemptInv /\ 1 \in Attempts
  BY InitialAttempts, Ranges
<1>2. job.status = "QUEUED"
  BY DEF Init
<1>3. attempt[1].status = "NONE"
  BY <1>1 DEF Init, Prepared
<1>4. \A w \in Workers : proc[w].pc = "idle"
  BY DEF Init, Idle, At
<1> QED
  BY <1>1, <1>2, <1>3, <1>4
     DEF WaitInv, Waits, Ambiguous, OwnerSubmits, Submits, NobodyCharges, Charging, Judging

LEMMA WaitInvInductive == WaitInv /\ [Next]_vars => WaitInv'
<1> SUFFICES ASSUME WaitInv, [Next]_vars
             PROVE  WaitInv'
  OBVIOUS
<1>0. AttemptInv /\ AttemptInv' /\ WaitRows
  BY AttemptInvInductive, EveryStepWaits DEF WaitInv
<1>1. ASSUME Ambiguous' \/ OwnerSubmits'
      PROVE  NobodyCharges'
  <2>1. Ambiguous \/ OwnerSubmits \/ attempt[1].providerJob = 0 \/ Unsent(1)
    BY <1>0, <1>1, EveryStepClears DEF WaitRows
  <2>2. Unsent(1) => attempt[1].providerJob = 0
    BY <1>0, AttemptTypes DEF AttemptInv, RowInv
  <2>3. NobodyCharges
    BY <1>0, <2>1, <2>2, NoTaskNoCharge DEF WaitInv
  <2> QED
    BY <1>0, <1>1, <2>3, EveryStepClears
<1>2. Ambiguous' /\ consentCase' = "none" => Queued'
  BY <1>0 DEF WaitInv, WaitRows
<1>3. Waits' => Ambiguous'
  BY <1>0 DEF WaitInv, WaitRows
<1> QED
  BY <1>0, <1>1, <1>2, <1>3 DEF WaitInv

THEOREM WaitInvariant == Spec => []WaitInv
BY InitiallyNobodyWaits, WaitInvInductive, PTL DEF Spec

\* While its INITIAL attempt is the active one, a job that waits without a retry time is
\* an operator's case or has an ambiguous attempt whose task a callback has bound: for any
\* number of invocations, however late (mark_submission_unknown,
\* list_generation_manual_cases).
THEOREM NoJobIsForgotten == Spec => []NeverOrphaned
<1>1. WaitInv => NeverOrphaned
  BY DEF WaitInv, Waits, Ambiguous, Queued, NeverOrphaned, ManualCase, ActiveStatus
<1> QED
  BY <1>1, WaitInvariant, PTL

=============================================================================
