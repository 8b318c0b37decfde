------------------------ MODULE TrainingLifecycleProofs ------------------------
(***************************************************************************)
(* The safety properties of TrainingLifecycle and its refinement of        *)
(* ResultLifecycle, for every number of requests, executions and attempts  *)
(* and for every set of faults.                                            *)
(***************************************************************************)
EXTENDS TrainingLifecycleInvariant

USE DEF docs, vars

------------------------------------------------------------------------------
(* The state properties, which are parts of the inductive invariant.       *)

\* A submission is dispatched at most once (submission_workflow.py: only the
\* request that claims the pending dispatch calls run_job).
THEOREM DispatchedOnce == Spec => []OneExecution
BY Invariance, PTL DEF IInv, Consistent

\* The control and the result never contradict each other.
THEOREM DocumentsAlwaysAgree == Spec => []DocumentsAgree
BY Invariance, PTL DEF IInv, Consistent

\* A result is CANCELLED only when nothing runs for it and nothing will.
THEOREM CancelledIsStopped == Spec => []CancelledMeansStopped
BY Invariance, PTL DEF IInv, Consistent

\* An intent that blocks later cancellations has been accepted by Cloud Run.
THEOREM RequestedIsAccepted == Spec => []RequestedWasAccepted
BY Invariance, PTL DEF IInv, Consistent

\* No trainer is at work for a result that is terminal.
THEOREM ClosedResultsDoNotTrain == Spec => []NothingTrainsForAClosedResult
BY Invariance, PTL DEF IInv, Consistent

\* Only the execution that the control names trains.
THEOREM TrainersAreRegistered == Spec => []OnlyTheNamedExecutionTrains
<1>1. IInv => OnlyTheNamedExecutionTrains
  BY NoExecutionAssumption DEF IInv, Consistent, TrainersAreNamed, DocumentsAreJoint, OnlyTheNamedExecutionTrains
<1>2. QED
  BY <1>1, Invariance, PTL

------------------------------------------------------------------------------
(* What a step may do to the result.                                       *)

\* A request writes a result that is open, once the execution it knows of is
\* over, or before there is any.
ServerWrites ==
  \/ UNCHANGED result
  \/ /\ result.status = "absent"
     /\ result'.status = "queued" /\ result'.current_step = 0
  \/ /\ result.status = "queued"
     /\ \/ result'.status = "failed"
        \/ result'.status = "cancelled" /\ \A e \in Executions : Is(e, "unused")
  \/ /\ Active
     /\ control.execution_name \in Executions
     /\ result'.current_step = result.current_step
     /\ \/ result.status # "cancelling" /\ result'.status = "cancelling"
        \/ /\ result'.status \in {"cancelled", "failed"}
           /\ execution[control.execution_name].state \in Over

\* The writes of transition_status_preserving_progress.
LEMMA PreservingWrites ==
  ASSUME IInv, NEW r \in Requests, request[r].pc \in OnNamedExecution,
         NEW expected \in SUBSET ActiveStatuses,
         NEW status \in {"cancelling", "cancelled", "failed"}, NEW error,
         TransitionPreservingProgress(expected, status, error),
         status = "cancelling" => "cancelling" \notin expected,
         status # "cancelling" => execution[request[r].name].state \in Over
  PROVE  ServerWrites
<1>1. control.execution_name \in Executions /\ control.execution_name = request[r].name
  BY DEF IInv, Consistent, RequestsRememberRight, RemembersRight, TypeOK, StoreTypeOK, SubmissionControl
<1>2. QED
  BY <1>1 DEF ServerWrites, TransitionPreservingProgress, ResultUpdate, Active

\* What a step of a request may do to the result.
LEMMA ServerWritesResult ==
  ASSUME IInv, Server
  PROVE  ServerWrites
<1>1. ASSUME NEW r \in Requests, DispatchStep(r)
      PROVE  ServerWrites
  BY <1>1 DEF DispatchStep, DispatchClaim, ClaimDispatch, RunJob, RunJobReturns, PersistExecutionName, MarkDispatched, MarkAmbiguous, MarkDispatchAmbiguous, RecordFailure, FailDispatchIfQueued, CanFailDispatch, ResultUpdate, ServerWrites
<1>2. ASSUME NEW r \in Submitters, Submit(r)
      PROVE  ServerWrites
  BY <1>2 DEF Submit, Accept, Accepted, ResultUpdate, ServerWrites
<1>3. ASSUME NEW r \in Pollers, PollerStep(r)
      PROVE  ServerWrites
  <2>1. r \in Requests
    BY DEF Requests
  <2>2. CASE ApplyOutcome(r) /\ ~UNCHANGED docs
    <3>1. request[r].pc \in OnNamedExecution /\ execution[request[r].name].state \in Over
      BY <2>1, <2>2 DEF ApplyOutcome, In, Is, OnNamedExecution, Over, IInv, Consistent, RequestsRememberRight, RemembersRight
    <3>2. QED
      BY <2>1, <2>2, <3>1, PreservingWrites DEF ApplyOutcome
  <2>3. QED
    BY <1>1, <1>3, <2>1, <2>2 DEF PollerStep, GetResult, ReconcileDispatch, Refetch, ReadControl, ReadOutcome, ApplyOutcome, ServerWrites
<1>4. ASSUME NEW r \in Cancellers, CancellerStep(r)
      PROVE  ServerWrites
  <2>1. r \in Requests
    BY DEF Requests
  <2>2. CASE CancelPending(r)
    BY <2>2 DEF CancelPending, CancelPendingDispatch, CanCancelPending, ResultUpdate, ServerWrites, IInv, Consistent, OnePermission
  <2>3. CASE RecordCancelling(r)
    <3>1. request[r].pc \in OnNamedExecution
      BY <2>3 DEF RecordCancelling, In, OnNamedExecution
    <3>2. QED
      BY <2>1, <2>3, <3>1, PreservingWrites DEF RecordCancelling, ServerWrites
  <2>4. CASE RecordCancelled(r)
    <3>1. request[r].pc \in OnNamedExecution /\ execution[request[r].name].state \in Over
      BY <2>1, <2>4 DEF RecordCancelled, In, Is, OnNamedExecution, Over, IInv, Consistent, RequestsRememberRight, RemembersRight
    <3>2. {"cancelling"} \subseteq ActiveStatuses
      BY DEF ActiveStatuses
    <3>3. QED
      BY <2>1, <2>4, <3>1, <3>2, PreservingWrites DEF RecordCancelled, ServerWrites
  <2>5. QED
    BY <1>4, <2>2, <2>3, <2>4 DEF CancellerStep, CancelReadControl, CancelReadResult, CancellationClaim, ClaimCancellation, RequestCancellation, CancelRpcReturns, ReleaseLease, ReleaseCancellation, MarkRequested, MarkCancellationRequested, OperationReturns, ServerWrites
<1>5. ASSUME NEW r \in Requests, RequestDies(r)
      PROVE  ServerWrites
  BY <1>5 DEF RequestDies, ServerWrites
<1>6. QED
  BY <1>1, <1>2, <1>3, <1>4, <1>5 DEF Server, Requests

\* A trainer writes a result that its own execution, which is live, has
\* brought to where it is.
TrainerWrites(e) ==
  \/ UNCHANGED result
  \/ /\ At(e, "starting")
     /\ result.status = "queued" /\ result'.status = "starting"
     /\ result'.current_step = 0
  \/ /\ At(e, "running")
     /\ result.status = "starting" /\ result'.status = "running"
     /\ result'.current_step = 0
  \/ /\ At(e, "training")
     /\ result.status = "running" /\ result'.status = "running"
     /\ result'.current_step = trainer[e].step + 1
     /\ trainer'[e].step = trainer[e].step + 1
  \/ /\ At(e, "completing")
     /\ result.status \in {"starting", "running", "cancelling"}
     /\ result'.status = "completed"
  \/ /\ Active
     /\ result'.status = "failed"

\* What a step of a trainer may do to the result.
LEMMA TrainerWritesResult ==
  ASSUME IInv, NEW e \in Executions, TrainerStep(e) \/ KillTrainer(e) \/ StopExecution(e)
  PROVE  TrainerWrites(e) /\ Is(e, "active")
<1>1. Is(e, "active")
  <2>1. ~At(e, "off") => Is(e, "active")
    BY DEF IInv, Consistent, TrainersAreNamed
  <2>2. ~At(e, "off") \/ StartContainer(e) \/ StopExecution(e)
    BY DEF TrainerStep, TrainerMarkDispatched, ParseSubmission, WriteStarting, CheckStarting, WriteRunning, CheckRunning, ReportProgress, FinishTraining, WriteCompleted, WriteFailed, ExitTrainer, KillTrainer, At
  <2>3. QED
    BY <2>1, <2>2 DEF StartContainer, StopExecution, CancellationTakesEffect
<1>2. CASE WriteStarting(e) \/ WriteRunning(e) \/ WriteCompleted(e)
  BY <1>1, <1>2 DEF WriteStarting, WriteRunning, WriteCompleted, Write, TransitionIfStatus, ResultUpdate, TrainerWrites
<1>3. CASE ReportProgress(e)
  <2>1. CASE TransitionIfStatus({"running"}, "running", trainer[e].step + 1, FALSE, "none")
    <3>1. \E pc : trainer' = [trainer EXCEPT ![e] = [pc |-> pc, step |-> trainer[e].step + 1]]
      BY <1>3 DEF ReportProgress
    <3>2. trainer'[e].step = trainer[e].step + 1
      BY <3>1 DEF IInv, TypeOK, TrainerTypeOK
    <3>3. QED
      BY <1>1, <1>3, <2>1, <3>2 DEF ReportProgress, TransitionIfStatus, ResultUpdate, TrainerWrites
  <2>2. QED
    BY <1>1, <1>3, <2>1 DEF ReportProgress, TrainerWrites
<1>4. CASE WriteFailed(e)
  BY <1>1, <1>4 DEF WriteFailed, TransitionIfStatus, ResultUpdate, Active, TrainerWrites
<1>5. QED
  BY <1>1, <1>2, <1>3, <1>4 DEF TrainerStep, StartContainer, TrainerMarkDispatched, MarkDispatched, ParseSubmission, CheckStarting, CheckRunning, CheckStatus, FinishTraining, ExitTrainer, KillTrainer, StopExecution, TrainerWrites

\* Whoever writes: nothing else changes the result.
LEMMA Writes ==
  ASSUME IInv, [Next]_vars
  PROVE  \/ ServerWrites
         \/ \E e \in Executions : TrainerWrites(e) /\ Is(e, "active")
<1>1. CASE Server
  BY <1>1, ServerWritesResult
<1>2. CASE Training
  BY <1>2, TrainerWritesResult DEF Training
<1>3. CASE Calls \/ Timers \/ UNCHANGED vars
  BY <1>3 DEF Calls, Timers, DispatchTimeoutElapses, CancellationLeaseElapses, ServerWrites
<1>4. QED
  BY <1>1, <1>2, <1>3 DEF Next

\* A terminal result is never written again (transition_if_status and its
\* like compare the status with the ones they may leave).
THEOREM TerminalStaysFinal == Spec => TerminalIsFinal
<1>1. IInv /\ [Next]_vars => (Terminal => UNCHANGED result)
  BY Writes DEF ServerWrites, TrainerWrites, Active, Terminal, ActiveStatuses, TerminalStatuses
<1>2. QED
  BY <1>1, Invariance, PTL DEF Spec, TerminalIsFinal

LeaseStays ==
  /\ control'.cancellation_state = control.cancellation_state
  /\ control'.lease_token = control.lease_token

\* The steps that change the lease: a claim, and two of its owner.
LEMMA LeaseMoves ==
  ASSUME IInv, [Next]_vars
  PROVE  \/ LeaseStays
         \/ \E q \in Cancellers : ClaimCancellation(q)
         \/ \E q \in Cancellers : ReleaseLease(q) /\ ReleaseCancellation(q)
         \/ \E q \in Cancellers : MarkRequested(q) /\ MarkCancellationRequested(q)
<1>1. control \in SubmissionControl
  BY DEF IInv, TypeOK, StoreTypeOK
<1>2. /\ UNCHANGED control => LeaseStays
      /\ UNCHANGED docs => LeaseStays
      /\ Accept => LeaseStays
      /\ ClaimDispatch => LeaseStays
      /\ CancelPendingDispatch => LeaseStays
      /\ \A e : MarkDispatched(e) => LeaseStays
      /\ MarkDispatchAmbiguous => LeaseStays
      /\ FailDispatchIfQueued => LeaseStays
      /\ DispatchTimeoutElapses \/ CancellationLeaseElapses => LeaseStays
  BY <1>1 DEF SubmissionControl, LeaseStays, Accept, ClaimDispatch, CancelPendingDispatch, MarkDispatched, MarkDispatchAmbiguous, FailDispatchIfQueued, DispatchTimeoutElapses, CancellationLeaseElapses
<1>3. /\ \A expected, status, error :
           TransitionPreservingProgress(expected, status, error) => LeaseStays
      /\ \A expected, status, step, error, bundle :
           TransitionIfStatus(expected, status, step, error, bundle) => LeaseStays
  BY DEF TransitionPreservingProgress, TransitionIfStatus, LeaseStays
<1>4. \A r : DispatchStep(r) => LeaseStays
  BY <1>2 DEF DispatchStep, DispatchClaim, RunJob, RunJobReturns, PersistExecutionName, MarkAmbiguous, RecordFailure
<1>5. \A r : Submit(r) \/ RequestDies(r) => LeaseStays
  BY <1>2 DEF Submit, RequestDies
<1>6. \A r : PollerStep(r) => LeaseStays
  BY <1>2, <1>3, <1>4 DEF PollerStep, GetResult, ReconcileDispatch, Refetch, ReadControl, ReadOutcome, ApplyOutcome
<1>7. \A r : CancellerStep(r) =>
        \/ LeaseStays
        \/ ClaimCancellation(r)
        \/ ReleaseLease(r) /\ ReleaseCancellation(r)
        \/ MarkRequested(r) /\ MarkCancellationRequested(r)
  BY <1>2, <1>3 DEF CancellerStep, CancelReadControl, CancelReadResult, CancelPending, CancellationClaim, RequestCancellation, CancelRpcReturns, ReleaseLease, MarkRequested, OperationReturns, RecordCancelling, RecordCancelled
<1>8. \A e : TrainerStep(e) \/ KillTrainer(e) \/ StopExecution(e) => LeaseStays
  BY <1>2, <1>3 DEF TrainerStep, KillTrainer, StopExecution, StartContainer, TrainerMarkDispatched, ParseSubmission, WriteStarting, CheckStarting, WriteRunning, CheckRunning, CheckStatus, Write, ReportProgress, FinishTraining, WriteCompleted, WriteFailed, ExitTrainer
<1>9. QED
  BY <1>2, <1>4, <1>5, <1>6, <1>7, <1>8 DEF Next, Server, Training, Calls, Timers

\* The lease of a cancellation is changed by its owner or after it has run
\* out (claim_cancellation, mark_cancellation_requested, release_cancellation).
THEOREM LeaseStaysFenced == Spec => LeaseIsFenced
<1> DEFINE Fenced(r) ==
      /\ control.cancellation_state = "requesting"
      /\ control.lease_token = r
      /\ control.cancel_started = "fresh"
      /\ \/ control'.cancellation_state # "requesting"
         \/ control'.lease_token # r
      => request'[r] # request[r]
<1>1. ASSUME IInv, [Next]_vars, NEW r \in Cancellers
      PROVE  Fenced(r)
  <2>1. \/ LeaseStays
        \/ \E q \in Cancellers : ClaimCancellation(q)
        \/ \E q \in Cancellers : ReleaseLease(q) /\ ReleaseCancellation(q)
        \/ \E q \in Cancellers : MarkRequested(q) /\ MarkCancellationRequested(q)
    BY <1>1, LeaseMoves
  <2>2. ASSUME NEW q \in Cancellers,
               \/ ReleaseLease(q) /\ ReleaseCancellation(q)
               \/ MarkRequested(q) /\ MarkCancellationRequested(q),
               control.lease_token = r
        PROVE  request'[r] # request[r]
    <3>1. q = r /\ r \in Requests
      BY <2>2 DEF ReleaseCancellation, MarkCancellationRequested, OwnsCancellation, Requests
    <3>2. Answer(r) \/ Goto(r, "await_operation")
      BY <1>1, <2>2, <3>1
      DEF ReleaseLease, MarkRequested, ReleaseCancellation, MarkCancellationRequested, OwnsCancellation, IInv, TypeOK, StoreTypeOK, SubmissionControl
    <3>3. request'[r].pc \in {"idle", "await_operation"}
      BY <1>1, <3>1, <3>2, Moves DEF IInv, TypeOK, RequestPc
    <3>4. request[r].pc \in {"release", "mark_requested"}
      BY <2>2, <3>1 DEF ReleaseLease, MarkRequested, In
    <3>5. QED
      BY <3>3, <3>4
  <2>3. QED
    BY <2>1, <2>2 DEF ClaimCancellation, CanClaimCancellation, LeaseStays
<1>2. IInv /\ [Next]_vars => \A r \in Cancellers : Fenced(r)
  BY <1>1
<1>3. QED
  BY <1>2, Invariance, PTL DEF Spec, LeaseIsFenced

------------------------------------------------------------------------------
(* Progress.  The counters need more than IInv: how far the trainer is     *)
(* bounds how far the result has come.                                     *)

AheadOf(e) ==
  /\ At(e, "running") => result.status # "queued"
  /\ trainer[e].pc \in {"check_running", "training", "completing"} =>
       result.status \notin {"queued", "starting"}

ReportsAhead(e) ==
  At(e, "training") /\ result.status = "running" =>
    result.current_step <= trainer[e].step

\* A step of the trainer of e keeps it ahead of the result.
LEMMA TrainerStaysAhead ==
  ASSUME PInv, NEW e \in Executions, TrainerStep(e) \/ KillTrainer(e) \/ StopExecution(e)
  PROVE  /\ AheadOf(e)'
         /\ ReportsAhead(e)'
         /\ \A f \in Executions : f # e => trainer'[f] = trainer[f]
<1> DEFINE Same == \A f \in Executions : f # e => trainer'[f] = trainer[f]
<1>1. /\ IInv /\ AheadOf(e) /\ ReportsAhead(e)
      /\ trainer[e].step \in Nat
  BY TotalStepsAssumption DEF PInv, TrainersAreAhead, CountersFollowReports, AheadOf, ReportsAhead, IInv, TypeOK, TrainerTypeOK
<1>2. \A pc \in TrainerPc : Proceed(e, pc) =>
        Same /\ trainer'[e].pc = pc /\ trainer'[e].step = trainer[e].step
  BY <1>1 DEF IInv, TypeOK, TrainerTypeOK, Proceed
<1>3. CASE \E pc \in TrainerPc \ {"running", "check_running", "training", "completing"} : Proceed(e, pc)
  BY <1>2, <1>3 DEF AheadOf, ReportsAhead, At
<1>4. CASE WriteStarting(e)
  <2>1. CASE Proceed(e, "running")
    <3>1. result'.status = "starting"
      BY <1>2, <1>4, <2>1 DEF WriteStarting, Write, TransitionIfStatus, ResultUpdate, TrainerPc, Working
    <3>2. QED
      BY <1>2, <2>1, <3>1 DEF AheadOf, ReportsAhead, At, TrainerPc, Working
  <2>2. QED
    BY <1>3, <1>4, <2>1 DEF WriteStarting, Write, TrainerPc, Working
<1>5. CASE CheckStarting(e)
  <2>1. CASE Proceed(e, "running") /\ result.status = "cancelling" /\ UNCHANGED docs
    BY <1>2, <2>1 DEF AheadOf, ReportsAhead, At, TrainerPc, Working
  <2>2. QED
    BY <1>3, <1>5, <2>1 DEF CheckStarting, CheckStatus, TrainerPc, Working
<1>6. CASE WriteRunning(e)
  <2>1. CASE Proceed(e, "training") /\ TransitionIfStatus({"starting"}, "running", 0, FALSE, "none")
    <3>1. result'.status = "running" /\ result'.current_step = 0
      BY <2>1 DEF TransitionIfStatus, ResultUpdate
    <3>2. QED
      BY <1>1, <1>2, <2>1, <3>1 DEF AheadOf, ReportsAhead, At, TrainerPc, Working
  <2>2. CASE Proceed(e, "check_running") /\ UNCHANGED docs /\ result.status # "starting"
    BY <1>1, <1>2, <1>6, <2>2 DEF WriteRunning, AheadOf, ReportsAhead, At, TrainerPc, Working
  <2>3. QED
    BY <1>3, <1>6, <2>1, <2>2 DEF WriteRunning, Write, TrainerPc, Working
<1>7. CASE CheckRunning(e)
  <2>1. CASE Proceed(e, "training") /\ result.status = "cancelling" /\ UNCHANGED docs
    BY <1>2, <2>1 DEF AheadOf, ReportsAhead, At, TrainerPc, Working
  <2>2. QED
    BY <1>3, <1>7, <2>1 DEF CheckRunning, CheckStatus, TrainerPc, Working
<1>8. CASE ReportProgress(e)
  <2>1. PICK pc \in {"training", "raising"} :
          trainer' = [trainer EXCEPT ![e] = [pc |-> pc, step |-> trainer[e].step + 1]]
    BY <1>8 DEF ReportProgress
  <2>2. Same /\ trainer'[e].step = trainer[e].step + 1
    BY <1>1, <2>1 DEF IInv, TypeOK, TrainerTypeOK
  <2>3. /\ result.status \notin {"queued", "starting"}
        /\ result.status = "running" => result.current_step <= trainer[e].step
    BY <1>1, <1>8 DEF ReportProgress, AheadOf, ReportsAhead, At
  <2>4. result.current_step \in Nat
    BY <1>1, TotalStepsAssumption DEF IInv, TypeOK, StoreTypeOK, ResultDocument
  <2>5. CASE UNCHANGED docs
    <3>1. result.status = "running" => result.current_step <= trainer[e].step + 1
      BY <1>1, <2>3, <2>4
    <3>2. QED
      BY <2>2, <2>3, <2>5, <3>1, <2>1, <1>1 DEF AheadOf, ReportsAhead, At, IInv, TypeOK, TrainerTypeOK
  <2>6. CASE TransitionIfStatus({"running"}, "running", trainer[e].step + 1, FALSE, "none")
    <3>1. result'.status = "running" /\ result'.current_step = trainer'[e].step
      BY <2>2, <2>6 DEF TransitionIfStatus, ResultUpdate
    <3>2. trainer'[e].pc = pc
      BY <1>1, <2>1 DEF IInv, TypeOK, TrainerTypeOK
    <3>3. QED
      BY <1>1, <2>2, <3>1, <3>2 DEF AheadOf, ReportsAhead, At
  <2>7. QED
    BY <1>8, <2>5, <2>6 DEF ReportProgress
<1>9. CASE FinishTraining(e)
  <2>1. CASE Proceed(e, "completing")
    BY <1>1, <1>2, <1>9, <2>1 DEF FinishTraining, AheadOf, ReportsAhead, At, TrainerPc, Working
  <2>2. QED
    BY <1>3, <1>9, <2>1 DEF FinishTraining, TrainerPc, Working
<1>10. CASE ExitTrainer(e) \/ StopExecution(e)
  BY <1>1, <1>10 DEF ExitTrainer, StopExecution, TrainerOff, AheadOf, ReportsAhead, At, IInv, TypeOK, TrainerTypeOK
<1>11. CASE \/ StartContainer(e) \/ TrainerMarkDispatched(e) \/ ParseSubmission(e)
            \/ WriteCompleted(e) \/ WriteFailed(e) \/ KillTrainer(e)
  BY <1>3, <1>11 DEF StartContainer, TrainerMarkDispatched, ParseSubmission, WriteCompleted, WriteFailed, Write, KillTrainer, TrainerPc, Working
<1>12. QED
  BY <1>4, <1>5, <1>6, <1>7, <1>8, <1>9, <1>10, <1>11 DEF TrainerStep

\* No trainer of another execution is anywhere while one is active.
LEMMA OneTrainer ==
  ASSUME IInv, NEW e \in Executions, Is(e, "active")
  PROVE  \A f \in Executions : f # e => At(f, "off")
BY DEF IInv, Consistent, OneExecution, TrainersAreNamed, Is

\* A write of a request leaves every trainer ahead of the result.
LEMMA ServerLeavesAhead ==
  ASSUME PInv, ServerWrites, UNCHANGED trainer
  PROVE  TrainersAreAhead' /\ CountersFollowReports'
<1>1. /\ IInv
      /\ TrainersAreAhead
      /\ result.status \in {"queued", "starting"} => result.current_step = 0
      /\ \A e \in Executions : ReportsAhead(e)
  BY DEF PInv, CountersFollowReports, ReportsAhead
<1>2. \A e \in Executions : trainer[e].pc \in Working => result.status # "absent"
  BY <1>1, NoExecutionAssumption DEF IInv, Consistent, TrainersAreNamed, DocumentsAreJoint
<1>3. \/ UNCHANGED result
      \/ /\ result.status = "absent"
         /\ result'.status = "queued" /\ result'.current_step = 0
      \/ result'.status \in {"failed", "cancelled", "cancelling"}
  BY DEF ServerWrites
<1>4. TrainersAreAhead'
  BY <1>1, <1>2, <1>3 DEF TrainersAreAhead, At, Working
<1>5. CountersFollowReports'
  BY <1>1, <1>3 DEF CountersFollowReports, ReportsAhead, At
<1>6. QED
  BY <1>4, <1>5

\* PInv is an invariant.
LEMMA ProgressInvariance == Spec => []PInv
<1>1. Init => PInv
  BY InitConsistent DEF PInv, Init, StoreInit, TrainerInit, TrainerOff, TrainersAreAhead, CountersFollowReports, At
<1>2. PInv /\ [Next]_vars => PInv'
  <2> SUFFICES ASSUME PInv, [Next]_vars
               PROVE  PInv'
    OBVIOUS
  <2>1. IInv /\ IInv'
    BY StepConsistent DEF PInv
  <2>2. CASE Server
    BY <2>1, <2>2, ServerWritesResult, ServerLeavesAhead DEF Server, PInv
  <2>3. CASE Training
    <3>1. PICK e \in Executions : TrainerStep(e) \/ KillTrainer(e) \/ StopExecution(e)
      BY <2>3 DEF Training
    <3>2. /\ AheadOf(e)' /\ ReportsAhead(e)'
          /\ \A f \in Executions : f # e => At(f, "off") /\ trainer'[f] = trainer[f]
      BY <2>1, <3>1, TrainerStaysAhead, TrainerWritesResult, OneTrainer
    <3>3. TrainersAreAhead'
      BY <3>2 DEF TrainersAreAhead, AheadOf, At
    <3>4. \A f \in Executions : ReportsAhead(f)'
      BY <3>2 DEF ReportsAhead, At
    <3>5. TrainerWrites(e)
      BY <2>1, <3>1, TrainerWritesResult
    <3>6. (result.status \in {"queued", "starting"} => result.current_step = 0)'
      BY <3>5 DEF TrainerWrites, PInv, CountersFollowReports
    <3>7. CountersFollowReports'
      BY <3>4, <3>6 DEF CountersFollowReports, ReportsAhead
    <3>8. QED
      BY <2>1, <3>3, <3>7 DEF PInv
  <2>4. CASE Calls \/ Timers \/ UNCHANGED vars
    <3>1. UNCHANGED <<result, trainer>>
      BY <2>4 DEF Calls, Timers, DispatchTimeoutElapses, CancellationLeaseElapses
    <3>2. QED
      BY <2>1, <3>1, ServerLeavesAhead DEF ServerWrites, PInv
  <2>5. QED
    BY <2>2, <2>3, <2>4 DEF Next
<1>3. QED
  BY <1>1, <1>2, PTL DEF Spec

\* The counters of an open result never go back
\* (transition_status_preserving_progress reads the counters it keeps).
THEOREM ProgressStays == Spec => ProgressNeverRollsBack
<1>1. ASSUME PInv, [Next]_vars, Active, Active'
      PROVE  result'.current_step >= result.current_step
  <2>1. IInv /\ result.current_step \in Nat
    BY <1>1, TotalStepsAssumption DEF PInv, IInv, TypeOK, StoreTypeOK, ResultDocument
  <2>2. CASE ServerWrites
    BY <1>1, <2>1, <2>2 DEF ServerWrites, Active, ActiveStatuses
  <2>3. ASSUME NEW e \in Executions, TrainerWrites(e)
        PROVE  result'.current_step >= result.current_step
    <3>1. /\ trainer[e].step \in Nat
          /\ At(e, "training") /\ result.status = "running" =>
               result.current_step <= trainer[e].step
          /\ result.status \in {"queued", "starting"} => result.current_step = 0
      BY <1>1, TotalStepsAssumption DEF PInv, CountersFollowReports, IInv, TypeOK, TrainerTypeOK
    <3>2. QED
      BY <1>1, <2>1, <2>3, <3>1 DEF TrainerWrites, Active, ActiveStatuses
  <2>4. QED
    BY <1>1, <2>1, <2>2, <2>3, Writes
<1>2. PInv /\ [Next]_vars => (Active /\ Active' => result'.current_step >= result.current_step)
  BY <1>1
<1>3. QED
  BY <1>2, ProgressInvariance, PTL DEF Spec, ProgressNeverRollsBack

------------------------------------------------------------------------------
(* TrainingLifecycle implements ResultLifecycle: every step of the         *)
(* requests, of Cloud Run and of the trainer is one that the promise to    *)
(* the client allows, or changes nothing the client can see.  First, what  *)
(* the client can tell of the executions.                                  *)

\* While an execution is active the run is live.
LEMMA RunLive ==
  ASSUME NEW e \in Executions, Is(e, "active")
  PROVE  Run = "live"
BY DEF Run

\* With one execution at most, the run is over when its execution is.
LEMMA RunOver ==
  ASSUME OneExecution, NEW e \in Executions, execution[e].state \in Over
  PROVE  Run = "over"
BY DEF OneExecution, Run, Is, Over

\* Without an execution that has started there is no run.
LEMMA RunNone ==
  ASSUME \A e \in Executions : execution[e].state \in {"unused", "requested", "rejected"}
  PROVE  Run = "none"
BY DEF Run, Is, Over

\* The server's calls are requests only: no step of it starts or ends a run.
LEMMA ServerLeavesRun ==
  ASSUME IInv, Server
  PROVE  UNCHANGED Run
<1> DEFINE OnlyCalled ==
      \A e \in Executions :
        \/ execution'[e].state = execution[e].state
        \/ Is(e, "unused") /\ Is(e, "requested")'
<1>1. OnlyCalled
  <2> USE DEF Is, IInv, TypeOK, CloudRunTypeOK, ExecutionRecord
  <2>1. UNCHANGED execution \/ \E r \in Requests : RunJob(r) \/ CancelRpcReturns(r)
    <3> HIDE DEF Is, IInv
    <3>1. \A r : DispatchStep(r) => UNCHANGED execution \/ RunJob(r)
      BY DEF DispatchStep, DispatchClaim, RunJobReturns, PersistExecutionName, MarkAmbiguous, RecordFailure
    <3>2. \A r : PollerStep(r) => UNCHANGED execution \/ RunJob(r)
      BY <3>1 DEF PollerStep, GetResult, ReconcileDispatch, Refetch, ReadControl, ReadOutcome, ApplyOutcome
    <3>3. \A r : CancellerStep(r) => UNCHANGED execution \/ CancelRpcReturns(r)
      BY DEF CancellerStep, CancelReadControl, CancelReadResult, CancelPending, CancellationClaim, RequestCancellation, ReleaseLease, MarkRequested, OperationReturns, RecordCancelling, RecordCancelled
    <3>4. \A r : Submit(r) \/ RequestDies(r) => UNCHANGED execution
      BY DEF Submit, RequestDies
    <3>5. QED
      BY <3>1, <3>2, <3>3, <3>4 DEF Server, Requests
  <2>2. \A r \in Requests : RunJob(r) => \E e \in Executions : CallRunJob(e)
    BY DEF RunJob
  <2>3. \A r \in Requests : CancelRpcReturns(r) =>
          \/ UNCHANGED execution
          \/ \E e : AcceptCancellation(e) \/ DelayCancellation(e)
    BY DEF CancelRpcReturns
  <2>4. \A e \in Executions : CallRunJob(e) => OnlyCalled
    BY DEF CallRunJob
  <2>5. \A e : AcceptCancellation(e) \/ DelayCancellation(e) => OnlyCalled
    BY DEF AcceptCancellation, DelayCancellation
  <2>6. QED
    BY <2>1, <2>2, <2>3, <2>4, <2>5
<1>2. \A e \in Executions :
        /\ Is(e, "active")' <=> Is(e, "active")
        /\ execution'[e].state \in Over <=> execution[e].state \in Over
  BY <1>1 DEF Is, Over
<1>3. QED
  BY <1>2 DEF Run

------------------------------------------------------------------------------
(* Step by step.                                                           *)

\* A write of a request, seen by the client.
LEMMA ServerKeepsPromise ==
  ASSUME IInv, ServerWrites, UNCHANGED Run
  PROVE  [Promise!Next]_(Promise!lifecycle)
<1> USE DEF Promise!Next, Promise!lifecycle, Promise!Become, Promise!Open
<1>1. CASE UNCHANGED result
  BY <1>1
<1>2. CASE result.status = "absent" /\ result'.status = "queued"
  BY <1>2 DEF Promise!Accept
<1>3. CASE result.status = "queued" /\ result'.status = "failed"
  BY <1>3 DEF Promise!Fail
<1>4. CASE result.status = "queued" /\ result'.status = "cancelled" /\ \A e \in Executions : Is(e, "unused")
  BY <1>4, RunNone DEF Promise!Cancel, Is
<1>5. CASE /\ Active
           /\ control.execution_name \in Executions
           /\ result.status # "cancelling" /\ result'.status = "cancelling"
  <2>1. Started(control.execution_name)
    BY <1>5, NoExecutionAssumption DEF IInv, Consistent, OnePermission
  <2>2. Run # "none"
    BY <1>5, <2>1 DEF Run, Started, Is
  <2>3. QED
    BY <1>5, <2>2 DEF Promise!RequestCancel, Active, ActiveStatuses
<1>6. CASE /\ Active
           /\ control.execution_name \in Executions
           /\ result'.status \in {"cancelled", "failed"}
           /\ execution[control.execution_name].state \in Over
  <2>1. Run = "over"
    BY <1>6, RunOver DEF IInv, Consistent
  <2>2. QED
    BY <1>6, <2>1 DEF Promise!Cancel, Promise!Fail, Active, ActiveStatuses
<1>7. QED
  BY <1>1, <1>2, <1>3, <1>4, <1>5, <1>6 DEF ServerWrites

\* A step of the trainer writes the result of a live run, or ends the run.
LEMMA TrainingKeepsPromise ==
  ASSUME PInv, PInv', NEW e \in Executions, TrainerStep(e) \/ KillTrainer(e) \/ StopExecution(e)
  PROVE  [Promise!Next]_(Promise!lifecycle)
<1> USE DEF Promise!Next, Promise!lifecycle, Promise!Become, Promise!Open
<1>1. TrainerWrites(e) /\ Is(e, "active") /\ Run = "live"
  BY TrainerWritesResult, RunLive DEF PInv
<1>2. CASE UNCHANGED execution
  <2>1. Run' = "live"
    BY <1>1, <1>2 DEF Run, Is
  <2>2. At(e, "completing") => result.status # "starting"
    BY DEF PInv, TrainersAreAhead, At
  <2>3. QED
    BY <1>1, <2>1, <2>2
    DEF TrainerWrites, Active, ActiveStatuses, Promise!Start, Promise!Run, Promise!Complete, Promise!Fail
<1>3. CASE UNCHANGED docs /\ (TaskSucceeds(e) \/ TaskFails(e) \/ CancellationTakesEffect(e))
  <2>1. execution'[e].state \in {"active"} \union Over
    BY <1>1, <1>3 DEF TaskSucceeds, TaskFails, CancellationTakesEffect, Is, Over, PInv, IInv, TypeOK, CloudRunTypeOK, ExecutionRecord
  <2>2. CASE execution'[e].state = "active"
    <3>1. Run' = "live"
      BY <2>2 DEF Run, Is
    <3>2. QED
      BY <1>1, <1>3, <3>1
  <2>3. CASE execution'[e].state \in Over
    <3>1. Run' = "over"
      BY <2>3 DEF PInv, IInv, Consistent, OneExecution, Run, Is, Over
    <3>2. QED
      BY <1>1, <1>3, <3>1 DEF Promise!End
  <2>4. QED
    BY <2>1, <2>2, <2>3
<1>4. QED
  BY <1>2, <1>3 DEF TrainerStep, KillTrainer, StopExecution, StartContainer, TrainerMarkDispatched, ParseSubmission, WriteStarting, CheckStarting, WriteRunning, CheckRunning, ReportProgress, FinishTraining, WriteCompleted, WriteFailed, ExitTrainer

\* A call of run_job that Cloud Run accepts launches the run, but never for a
\* result that has come further or has been cancelled.
LEMMA CallsKeepPromise ==
  ASSUME IInv, Calls
  PROVE  [Promise!Next]_(Promise!lifecycle)
<1> USE DEF Promise!Next, Promise!lifecycle
<1>1. PICK e \in Executions : AcceptRunJob(e) \/ RejectRunJob(e) \/ LateCancellationArrives(e)
  BY DEF Calls
<1>2. UNCHANGED result
  BY DEF Calls
<1>3. CASE AcceptRunJob(e)
  <2>1. \A f \in Executions : f # e => Is(f, "unused")
    BY <1>3 DEF AcceptRunJob, IInv, Consistent, OneExecution, Is
  <2>2. Run = "none"
    BY <1>3, <2>1, RunNone DEF AcceptRunJob, Is
  <2>3. Is(e, "active")'
    BY <1>3 DEF AcceptRunJob, Is, IInv, TypeOK, CloudRunTypeOK, ExecutionRecord
  <2>4. Run' = "live"
    BY <2>3 DEF Run
  <2>5. control.execution_name = NoExecution
    <3>1. control.execution_name \in Executions => ~Is(control.execution_name, "unused")
      BY NoExecutionAssumption DEF IInv, Consistent, OnePermission, Started, Is, Over
    <3>2. control.execution_name # e
      BY <1>3, NoExecutionAssumption DEF AcceptRunJob, IInv, Consistent, OnePermission, Started, Is, Over
    <3>3. QED
      BY <2>1, <3>1, <3>2 DEF IInv, TypeOK, StoreTypeOK, SubmissionControl
  <2>6. result.status \notin {"starting", "running", "cancelling", "completed"}
    BY <2>5 DEF IInv, Consistent, DocumentsAgree
  <2>7. result.status # "absent"
    BY <1>3 DEF AcceptRunJob, IInv, Consistent, DocumentsAreJoint, OnePermission, Is
  <2>8. result.status # "cancelled"
    BY <1>3 DEF AcceptRunJob, IInv, Consistent, CancelledMeansStopped, Is, Over
  <2>9. result.status \in {"queued", "failed"}
    BY <2>6, <2>7, <2>8 DEF IInv, TypeOK, StoreTypeOK, ResultDocument, ResultStatus, ActiveStatuses, TerminalStatuses
  <2>10. QED
    BY <1>2, <2>2, <2>4, <2>9 DEF Promise!Launch
<1>4. CASE RejectRunJob(e) \/ LateCancellationArrives(e)
  <2>1. \A f \in Executions :
          /\ Is(f, "active")' <=> Is(f, "active")
          /\ execution'[f].state \in Over <=> execution[f].state \in Over
    BY <1>4 DEF RejectRunJob, LateCancellationArrives, Is, Over, IInv, TypeOK, CloudRunTypeOK, ExecutionRecord
  <2>2. UNCHANGED Run
    BY <2>1 DEF Run
  <2>3. QED
    BY <1>2, <2>2
<1>5. QED
  BY <1>1, <1>3, <1>4

\* The lifecycle keeps the promise made to the client.
THEOREM PromiseIsKept == Spec => KeepsPromise
<1>1. Init => Promise!Init
  <2>1. ASSUME Init
        PROVE  Run = "none"
    BY <2>1, RunNone DEF Init, CloudRunInit
  <2>2. QED
    BY <2>1 DEF Promise!Init, Init, StoreInit
<1>2. PInv /\ PInv' /\ [Next]_vars => [Promise!Next]_(Promise!lifecycle)
  <2> SUFFICES ASSUME PInv, PInv', [Next]_vars
               PROVE  [Promise!Next]_(Promise!lifecycle)
    OBVIOUS
  <2>1. CASE Server
    BY <2>1, ServerWritesResult, ServerLeavesRun, ServerKeepsPromise DEF PInv
  <2>2. CASE Training
    BY <2>2, TrainingKeepsPromise DEF Training
  <2>3. CASE Calls
    BY <2>3, CallsKeepPromise DEF PInv
  <2>4. CASE Timers \/ UNCHANGED vars
    <3>1. UNCHANGED <<result, execution>>
      BY <2>4 DEF Timers, DispatchTimeoutElapses, CancellationLeaseElapses
    <3>2. QED
      BY <3>1 DEF Promise!lifecycle, Run, Is
  <2>5. QED
    BY <2>1, <2>2, <2>3, <2>4 DEF Next
<1>3. QED
  BY <1>1, <1>2, ProgressInvariance, PTL DEF Spec, KeepsPromise, Promise!Spec
==============================================================================
