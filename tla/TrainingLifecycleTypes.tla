------------------------ MODULE TrainingLifecycleTypes ------------------------
(***************************************************************************)
(* Type correctness of TrainingLifecycle, for any number of requests,      *)
(* executions and attempts and for any set of faults.                      *)
(***************************************************************************)
EXTENDS TrainingLifecycle, TLAPS

USE DEF docs, vars

------------------------------------------------------------------------------
(* Type correctness, part by part: what one transaction, one move of a     *)
(* request, one move of a trainer and one event of Cloud Run leave typed.  *)

\* A committed result update is a typed document.
LEMMA ResultUpdateType ==
  ASSUME NEW status \in ResultStatus, NEW step \in 0 .. TotalSteps,
         NEW error \in BOOLEAN, NEW bundle \in {"none", "completed", "failed"}
  PROVE  ResultUpdate(status, step, error, bundle) \in ResultDocument
BY DEF ResultUpdate, ResultDocument

\* The transactions on both documents keep them typed.
LEMMA StoreTypes ==
  ASSUME StoreTypeOK
  PROVE  /\ Accept => StoreTypeOK'
         /\ ClaimDispatch => StoreTypeOK'
         /\ CancelPendingDispatch => StoreTypeOK'
         /\ \A e \in Executions \union {NoExecution} : MarkDispatched(e) => StoreTypeOK'
         /\ MarkDispatchAmbiguous => StoreTypeOK'
         /\ FailDispatchIfQueued => StoreTypeOK'
         /\ \A r \in Cancellers : ClaimCancellation(r) => StoreTypeOK'
         /\ \A r \in Cancellers : MarkCancellationRequested(r) => StoreTypeOK'
         /\ \A r \in Cancellers : ReleaseCancellation(r) => StoreTypeOK'
         /\ DispatchTimeoutElapses => StoreTypeOK'
         /\ CancellationLeaseElapses => StoreTypeOK'
         /\ UNCHANGED docs => StoreTypeOK'
<1>1. 0 \in 0 .. TotalSteps
  BY TotalStepsAssumption
<1>2. result.current_step \in 0 .. TotalSteps
  BY DEF StoreTypeOK, ResultDocument
<1>3. Accept => StoreTypeOK'
  <2>1. "queued" \in ResultStatus /\ FALSE \in BOOLEAN
    BY DEF ResultStatus, ActiveStatuses
  <2>2. ResultUpdate("queued", 0, FALSE, "none") \in ResultDocument
    BY <1>1, <2>1, ResultUpdateType
  <2>3. [control EXCEPT !.dispatch_state = "pending"] \in SubmissionControl
    BY DEF StoreTypeOK, SubmissionControl, DispatchState
  <2>4. QED
    BY <2>2, <2>3 DEF Accept, StoreTypeOK
<1>4. ClaimDispatch => StoreTypeOK'
  BY DEF ClaimDispatch, StoreTypeOK, SubmissionControl, DispatchState, Timer
<1>5. CancelPendingDispatch => StoreTypeOK'
  BY <1>2 DEF CancelPendingDispatch, StoreTypeOK, SubmissionControl, DispatchState, ResultUpdate, ResultDocument, ResultStatus, ActiveStatuses, TerminalStatuses
<1>6. \A e \in Executions \union {NoExecution} : MarkDispatched(e) => StoreTypeOK'
  <2>1. SUFFICES ASSUME NEW e \in Executions \union {NoExecution}, MarkDispatched(e)
                 PROVE  StoreTypeOK'
    OBVIOUS
  <2>2. [control EXCEPT !.dispatch_state = "dispatched", !.execution_name = e]
          \in SubmissionControl
    BY DEF StoreTypeOK, SubmissionControl, DispatchState
  <2>3. QED
    BY <2>1, <2>2 DEF MarkDispatched, StoreTypeOK
<1>7. MarkDispatchAmbiguous => StoreTypeOK'
  BY DEF MarkDispatchAmbiguous, StoreTypeOK, SubmissionControl, DispatchState, Timer
<1>8. FailDispatchIfQueued => StoreTypeOK'
  <2>1. "failed" \in ResultStatus /\ TRUE \in BOOLEAN
    BY DEF ResultStatus, TerminalStatuses
  <2>2. ResultUpdate("failed", 0, TRUE, "none") \in ResultDocument
    BY <1>1, <2>1, ResultUpdateType
  <2>3. [control EXCEPT !.dispatch_state = "failed"] \in SubmissionControl
    BY DEF StoreTypeOK, SubmissionControl, DispatchState
  <2>4. QED
    BY <2>2, <2>3 DEF FailDispatchIfQueued, StoreTypeOK
<1>9. \A r \in Cancellers : ClaimCancellation(r) => StoreTypeOK'
  BY DEF ClaimCancellation, StoreTypeOK, SubmissionControl, CancellationState, Timer
<1>10. \A r \in Cancellers : MarkCancellationRequested(r) => StoreTypeOK'
  BY DEF MarkCancellationRequested, StoreTypeOK, SubmissionControl, CancellationState
<1>11. \A r \in Cancellers : ReleaseCancellation(r) => StoreTypeOK'
  BY DEF ReleaseCancellation, StoreTypeOK, SubmissionControl, CancellationState, Timer
<1>12. DispatchTimeoutElapses => StoreTypeOK'
  BY DEF DispatchTimeoutElapses, StoreTypeOK, SubmissionControl, Timer
<1>13. CancellationLeaseElapses => StoreTypeOK'
  BY DEF CancellationLeaseElapses, StoreTypeOK, SubmissionControl, Timer
<1>14. UNCHANGED docs => StoreTypeOK'
  BY DEF StoreTypeOK
<1>15. QED
  BY <1>3, <1>4, <1>5, <1>6, <1>7, <1>8, <1>9, <1>10, <1>11, <1>12, <1>13, <1>14

\* The compare-and-set transitions of the result keep it typed.
LEMMA WriteTypes ==
  ASSUME StoreTypeOK, NEW expected, NEW status \in ResultStatus,
         NEW step \in 0 .. TotalSteps, NEW error \in BOOLEAN,
         NEW bundle \in {"none", "completed", "failed"},
         TransitionIfStatus(expected, status, step, error, bundle)
  PROVE  StoreTypeOK'
<1>1. ResultUpdate(status, step, error, bundle) \in ResultDocument
  BY ResultUpdateType
<1>2. QED
  BY <1>1 DEF TransitionIfStatus, StoreTypeOK

\* The transitions that keep the counters keep the result typed.
LEMMA PreservingTypes ==
  ASSUME StoreTypeOK, NEW expected, NEW status \in ResultStatus, NEW error \in BOOLEAN,
         TransitionPreservingProgress(expected, status, error)
  PROVE  StoreTypeOK'
<1>1. result.current_step \in 0 .. TotalSteps
  BY DEF StoreTypeOK, ResultDocument
<1>2. ResultUpdate(status, result.current_step, error, "none") \in ResultDocument
  BY <1>1, ResultUpdateType
<1>3. QED
  BY <1>2 DEF TransitionPreservingProgress, StoreTypeOK

\* A request that moves, or answers, stays typed.
LEMMA RequestTypes ==
  ASSUME RequestTypeOK, NEW r \in Requests
  PROVE  /\ \A pc \in RequestPc : Goto(r, pc) => RequestTypeOK'
         /\ \A pc \in RequestPc, e \in Executions \union {NoExecution} :
              GotoWith(r, pc, e) => RequestTypeOK'
         /\ Answer(r) => RequestTypeOK'
         /\ Dispatched(r) => RequestTypeOK'
         /\ UNCHANGED request => RequestTypeOK'
<1>1. \A pc \in RequestPc : Goto(r, pc) => RequestTypeOK'
  BY DEF RequestTypeOK, Request, Goto
<1>2. \A pc \in RequestPc, e \in Executions \union {NoExecution} :
        GotoWith(r, pc, e) => RequestTypeOK'
  <2> SUFFICES ASSUME NEW pc \in RequestPc, NEW e \in Executions \union {NoExecution},
                      GotoWith(r, pc, e)
               PROVE  RequestTypeOK'
    OBVIOUS
  <2>1. [request[r] EXCEPT !.pc = pc, !.name = e] \in Request
    BY DEF RequestTypeOK, Request
  <2>2. request' = [request EXCEPT ![r] = [request[r] EXCEPT !.pc = pc, !.name = e]]
    BY DEF GotoWith, RequestTypeOK
  <2>3. QED
    BY <2>1, <2>2 DEF RequestTypeOK
<1>3. Idle \in Request
  BY PersistAttemptsAssumption DEF Idle, Request, RequestPc
<1>4. Answer(r) => RequestTypeOK'
  BY <1>3 DEF RequestTypeOK, Answer
<1>5. Dispatched(r) => RequestTypeOK'
  BY <1>1, <1>4 DEF Dispatched, RequestPc
<1>6. UNCHANGED request => RequestTypeOK'
  BY DEF RequestTypeOK
<1>7. QED
  BY <1>1, <1>2, <1>4, <1>5, <1>6

\* A trainer process that moves, or ends, stays typed.
LEMMA TrainerTypes ==
  ASSUME TrainerTypeOK, NEW e \in Executions
  PROVE  /\ \A pc \in TrainerPc : Proceed(e, pc) => TrainerTypeOK'
         /\ \A pc \in TrainerPc, step \in 0 .. TotalSteps :
              trainer' = [trainer EXCEPT ![e] = [pc |-> pc, step |-> step]]
                => TrainerTypeOK'
         /\ trainer' = [trainer EXCEPT ![e] = TrainerOff] => TrainerTypeOK'
         /\ UNCHANGED trainer => TrainerTypeOK'
<1>1. TrainerOff \in [pc : TrainerPc, step : 0 .. TotalSteps]
  BY TotalStepsAssumption DEF TrainerOff, TrainerPc
<1>2. QED
  BY <1>1 DEF TrainerTypeOK, Proceed

\* Every event of Cloud Run keeps its records typed.
LEMMA EventTypes ==
  ASSUME CloudRunTypeOK, UNCHANGED stable, NEW e \in Executions
  PROVE  /\ CallRunJob(e) => CloudRunTypeOK'
         /\ AcceptRunJob(e) => CloudRunTypeOK'
         /\ RejectRunJob(e) => CloudRunTypeOK'
         /\ AcceptCancellation(e) => CloudRunTypeOK'
         /\ DelayCancellation(e) => CloudRunTypeOK'
         /\ LateCancellationArrives(e) => CloudRunTypeOK'
         /\ CancellationTakesEffect(e) => CloudRunTypeOK'
         /\ TaskSucceeds(e) => CloudRunTypeOK'
         /\ TaskFails(e) => CloudRunTypeOK'
         /\ UNCHANGED execution => CloudRunTypeOK'
<1>1. 1 \in 0 .. MaxAttempts
  BY MaxAttemptsAssumption
<1> USE DEF CloudRunTypeOK, ExecutionRecord, ExecutionState
<1>2. CallRunJob(e) => CloudRunTypeOK'
  BY DEF CallRunJob
<1>3. AcceptRunJob(e) => CloudRunTypeOK'
  <2>1. [execution[e] EXCEPT !.state = "active", !.attempt = 1] \in ExecutionRecord
    BY <1>1
  <2>2. AcceptRunJob(e) =>
          execution' = [execution EXCEPT
                          ![e] = [execution[e] EXCEPT !.state = "active", !.attempt = 1]]
    BY DEF AcceptRunJob
  <2>3. QED
    BY <2>1, <2>2
<1>4. RejectRunJob(e) => CloudRunTypeOK'
  BY DEF RejectRunJob
<1>5. AcceptCancellation(e) => CloudRunTypeOK'
  <2>1. [execution[e] EXCEPT !.cancelling = TRUE] \in ExecutionRecord
    OBVIOUS
  <2>2. QED
    BY <2>1 DEF AcceptCancellation
<1>6. DelayCancellation(e) => CloudRunTypeOK'
  <2>1. [execution[e] EXCEPT !.late_cancel = TRUE] \in ExecutionRecord
    OBVIOUS
  <2>2. QED
    BY <2>1 DEF DelayCancellation
<1>7. LateCancellationArrives(e) => CloudRunTypeOK'
  <2>1. ASSUME NEW b \in BOOLEAN,
               execution' = [execution EXCEPT ![e].late_cancel = FALSE, ![e].cancelling = b]
        PROVE  CloudRunTypeOK'
    <3>1. [execution[e] EXCEPT !.late_cancel = FALSE, !.cancelling = b] \in ExecutionRecord
      OBVIOUS
    <3>2. execution' = [execution EXCEPT
                          ![e] = [execution[e] EXCEPT !.late_cancel = FALSE, !.cancelling = b]]
      BY <2>1
    <3>3. QED
      BY <3>1, <3>2
  <2>2. (execution[e].cancelling \/ Is(e, "active")) \in BOOLEAN
    OBVIOUS
  <2>3. QED
    BY <2>1, <2>2 DEF LateCancellationArrives
<1>8. CancellationTakesEffect(e) => CloudRunTypeOK'
  BY DEF CancellationTakesEffect
<1>9. TaskSucceeds(e) => CloudRunTypeOK'
  BY DEF TaskSucceeds
<1>10. TaskFails(e) => CloudRunTypeOK'
  BY MaxAttemptsAssumption DEF TaskFails
<1>11. QED
  BY <1>2, <1>3, <1>4, <1>5, <1>6, <1>7, <1>8, <1>9, <1>10

------------------------------------------------------------------------------
(* One step keeps the types, process by process.                           *)

\* A step of a request that dispatches.
LEMMA DispatchStepTypes ==
  ASSUME TypeOK, NEW r \in Submitters \union Pollers, DispatchStep(r),
         UNCHANGED <<trainer, stable>>
  PROVE  TypeOK'
<1> r \in Requests
  BY DEF Requests
<1> USE DEF TypeOK
<1>1. TrainerTypeOK'
  BY TrainerTypes DEF TrainerTypeOK
<1>2. CASE DispatchClaim(r)
  BY <1>1, <1>2, StoreTypes, RequestTypes
  DEF DispatchClaim, RequestPc, CloudRunTypeOK
<1>3. CASE RunJob(r)
  BY <1>1, <1>3, StoreTypes, RequestTypes, EventTypes DEF RunJob, RequestPc
<1>4. CASE RunJobReturns(r)
  <2>1. RequestTypeOK'
    <3>1. PersistAttempts \in 0 .. PersistAttempts
      BY PersistAttemptsAssumption
    <3>2. [request[r] EXCEPT !.pc = "persist_name", !.tries = PersistAttempts] \in Request
      BY <3>1 DEF RequestTypeOK, Request, RequestPc
    <3>3. request' = [request EXCEPT ![r].pc = "persist_name", ![r].tries = PersistAttempts]
            => RequestTypeOK'
      BY <3>2 DEF RequestTypeOK
    <3>4. QED
      BY <1>4, <3>3, RequestTypes DEF RunJobReturns, RequestPc
  <2>2. QED
    BY <1>1, <1>4, <2>1, StoreTypes DEF RunJobReturns, CloudRunTypeOK
<1>5. CASE PersistExecutionName(r)
  <2>1. StoreTypeOK'
    <3>1. request[r].name \in Executions \union {NoExecution}
      BY DEF RequestTypeOK, Request
    <3>2. QED
      BY <1>5, <3>1, StoreTypes DEF PersistExecutionName
  <2>2. RequestTypeOK'
    <3>1. \A n \in 0 .. PersistAttempts : n > 1 => n - 1 \in 0 .. PersistAttempts
      BY PersistAttemptsAssumption
    <3>2. request[r] \in Request
      BY DEF RequestTypeOK
    <3>3. request[r].tries > 1 => request[r].tries - 1 \in 0 .. PersistAttempts
      BY <3>1, <3>2 DEF Request
    <3>4. \A n \in 0 .. PersistAttempts : [request[r] EXCEPT !.tries = n] \in Request
      BY <3>2 DEF Request
    <3>5. request[r].tries > 1 /\ request' = [request EXCEPT ![r].tries = @ - 1]
            => RequestTypeOK'
      BY <3>3, <3>4 DEF RequestTypeOK
    <3>6. QED
      BY <1>5, <3>5, RequestTypes DEF PersistExecutionName, RequestPc
  <2>3. QED
    BY <1>1, <1>5, <2>1, <2>2 DEF PersistExecutionName, CloudRunTypeOK
<1>6. CASE MarkAmbiguous(r)
  BY <1>1, <1>6, StoreTypes, RequestTypes DEF MarkAmbiguous, CloudRunTypeOK
<1>7. CASE RecordFailure(r)
  BY <1>1, <1>7, StoreTypes, RequestTypes DEF RecordFailure, CloudRunTypeOK
<1>8. QED
  BY <1>2, <1>3, <1>4, <1>5, <1>6, <1>7 DEF DispatchStep

\* A step of a poll beyond the dispatch it shares with POST.
LEMMA PollerStepTypes ==
  ASSUME TypeOK, NEW r \in Pollers, PollerStep(r), UNCHANGED <<trainer, stable>>
  PROVE  TypeOK'
<1> r \in Requests
  BY DEF Requests
<1> USE DEF TypeOK
<1>1. TrainerTypeOK' /\ (UNCHANGED execution => CloudRunTypeOK')
  BY DEF TrainerTypeOK, CloudRunTypeOK
<1>2. CASE GetResult(r)
  BY <1>1, <1>2, StoreTypes, RequestTypes DEF GetResult, RequestPc
<1>3. CASE ReconcileDispatch(r)
  BY <1>1, <1>3, StoreTypes, RequestTypes DEF ReconcileDispatch, RequestPc
<1>4. CASE Refetch(r)
  BY <1>1, <1>4, StoreTypes, RequestTypes DEF Refetch, RequestPc
<1>5. CASE ReadControl(r)
  <2>1. control.execution_name \in Executions \union {NoExecution}
    BY DEF StoreTypeOK, SubmissionControl
  <2>2. QED
    BY <1>1, <1>5, <2>1, StoreTypes, RequestTypes DEF ReadControl, RequestPc
<1>6. CASE ReadOutcome(r)
  BY <1>1, <1>6, StoreTypes, RequestTypes DEF ReadOutcome, RequestPc
<1>7. CASE ApplyOutcome(r)
  <2>1. {"cancelled", "failed"} \subseteq ResultStatus
    BY DEF ResultStatus, TerminalStatuses
  <2>2. StoreTypeOK'
    BY <1>7, <2>1, StoreTypes, PreservingTypes DEF ApplyOutcome
  <2>3. QED
    BY <1>1, <1>7, <2>2, RequestTypes DEF ApplyOutcome
<1>8. CASE DispatchStep(r)
  BY <1>8, DispatchStepTypes
<1>9. QED
  BY <1>2, <1>3, <1>4, <1>5, <1>6, <1>7, <1>8 DEF PollerStep

\* A step of a request that cancels.
LEMMA CancellerStepTypes ==
  ASSUME TypeOK, NEW r \in Cancellers, CancellerStep(r), UNCHANGED <<trainer, stable>>
  PROVE  TypeOK'
<1> r \in Requests
  BY DEF Requests
<1> USE DEF TypeOK
<1>1. TrainerTypeOK' /\ (UNCHANGED execution => CloudRunTypeOK')
  BY DEF TrainerTypeOK, CloudRunTypeOK
<1>2. {"cancelling", "cancelled"} \subseteq ResultStatus
  BY DEF ResultStatus, ActiveStatuses, TerminalStatuses
<1>3. CASE CancelReadControl(r)
  <2>1. [request[r] EXCEPT !.pc = "read_result",
                           !.name = control.execution_name,
                           !.saw_pending = (control.dispatch_state = "pending")] \in Request
    <3>1. request[r] \in Request /\ "read_result" \in RequestPc
      BY DEF RequestTypeOK, RequestPc
    <3>2. control.execution_name \in Executions \union {NoExecution}
      BY DEF StoreTypeOK, SubmissionControl
    <3>3. (control.dispatch_state = "pending") \in BOOLEAN
      OBVIOUS
    <3>4. QED
      BY <3>1, <3>2, <3>3 DEF Request
  <2>2. RequestTypeOK'
    <3>1. request' = [request EXCEPT
            ![r] = [request[r] EXCEPT !.pc = "read_result",
                                      !.name = control.execution_name,
                                      !.saw_pending = (control.dispatch_state = "pending")]]
      BY <1>3 DEF CancelReadControl
    <3>2. QED
      BY <2>1, <3>1 DEF RequestTypeOK
  <2>3. QED
    BY <1>1, <1>3, <2>2, StoreTypes DEF CancelReadControl
<1>4. CASE CancelReadResult(r)
  BY <1>1, <1>4, StoreTypes, RequestTypes DEF CancelReadResult, RequestPc
<1>5. CASE CancelPending(r)
  BY <1>1, <1>5, StoreTypes, RequestTypes DEF CancelPending, RequestPc
<1>6. CASE CancellationClaim(r)
  BY <1>1, <1>6, StoreTypes, RequestTypes DEF CancellationClaim, RequestPc
<1>7. CASE RequestCancellation(r)
  BY <1>1, <1>7, StoreTypes, RequestTypes DEF RequestCancellation, RequestPc
<1>8. CASE CancelRpcReturns(r)
  <2>1. RequestTypeOK'
    BY <1>8, RequestTypes DEF CancelRpcReturns, RequestPc
  <2>2. CloudRunTypeOK'
    <3>1. CASE request[r].name \in Executions
      BY <1>1, <1>8, <3>1, EventTypes DEF CancelRpcReturns
    <3>2. CASE request[r].name \notin Executions
      BY <1>8, <3>2 
      DEF CancelRpcReturns, AcceptCancellation, DelayCancellation, CloudRunTypeOK, ExecutionRecord
    <3>3. QED
      BY <3>1, <3>2
  <2>3. QED
    BY <1>1, <1>8, <2>1, <2>2, StoreTypes DEF CancelRpcReturns
<1>9. CASE ReleaseLease(r)
  BY <1>1, <1>9, StoreTypes, RequestTypes DEF ReleaseLease, RequestPc
<1>10. CASE MarkRequested(r)
  BY <1>1, <1>10, StoreTypes, RequestTypes DEF MarkRequested, RequestPc
<1>11. CASE OperationReturns(r)
  BY <1>1, <1>11, StoreTypes, RequestTypes DEF OperationReturns, RequestPc
<1>12. CASE RecordCancelling(r)
  <2>1. StoreTypeOK'
    BY <1>2, <1>12, StoreTypes, PreservingTypes DEF RecordCancelling
  <2>2. QED
    BY <1>1, <1>12, <2>1, RequestTypes DEF RecordCancelling, RequestPc
<1>13. CASE RecordCancelled(r)
  <2>1. StoreTypeOK'
    BY <1>2, <1>13, StoreTypes, PreservingTypes DEF RecordCancelled
  <2>2. QED
    BY <1>1, <1>13, <2>1, RequestTypes DEF RecordCancelled, RequestPc
<1>14. QED
  BY <1>3, <1>4, <1>5, <1>6, <1>7, <1>8, <1>9, <1>10, <1>11, <1>12, <1>13 DEF CancellerStep

\* A step of a trainer process.
LEMMA TrainerStepTypes ==
  ASSUME TypeOK, NEW e \in Executions, TrainerStep(e) \/ KillTrainer(e) \/ StopExecution(e),
         UNCHANGED <<request, stable>>
  PROVE  TypeOK'
<1> USE DEF TypeOK
<1>1. RequestTypeOK' /\ (UNCHANGED execution => CloudRunTypeOK')
  BY DEF RequestTypeOK, CloudRunTypeOK
<1>2. 0 \in 0 .. TotalSteps /\ TotalSteps \in 0 .. TotalSteps
  BY TotalStepsAssumption
<1>3. {"starting", "running", "completed", "failed"} \subseteq ResultStatus
  BY DEF ResultStatus, ActiveStatuses, TerminalStatuses
<1>4. CASE StartContainer(e)
  BY <1>1, <1>4, StoreTypes, TrainerTypes DEF StartContainer, TrainerPc, Working
<1>5. CASE TrainerMarkDispatched(e)
  BY <1>1, <1>5, StoreTypes, TrainerTypes DEF TrainerMarkDispatched, TrainerPc, Working
<1>6. CASE ParseSubmission(e)
  BY <1>1, <1>6, StoreTypes, TrainerTypes DEF ParseSubmission, TrainerPc, Working
<1>7. CASE WriteStarting(e)
  <2>1. StoreTypeOK'
    BY <1>2, <1>3, <1>7, StoreTypes, WriteTypes DEF WriteStarting, Write
  <2>2. TrainerTypeOK'
    BY <1>7, TrainerTypes DEF WriteStarting, Write, TrainerPc, Working
  <2>3. QED
    BY <1>1, <1>7, <2>1, <2>2 DEF WriteStarting
<1>8. CASE WriteRunning(e)
  <2>1. StoreTypeOK'
    BY <1>2, <1>3, <1>8, StoreTypes, WriteTypes DEF WriteRunning, Write
  <2>2. TrainerTypeOK'
    BY <1>8, TrainerTypes DEF WriteRunning, Write, TrainerPc, Working
  <2>3. QED
    BY <1>1, <1>8, <2>1, <2>2 DEF WriteRunning
<1>9. CASE WriteCompleted(e)
  <2>1. StoreTypeOK'
    BY <1>2, <1>3, <1>9, StoreTypes, WriteTypes DEF WriteCompleted, Write
  <2>2. TrainerTypeOK'
    BY <1>9, TrainerTypes DEF WriteCompleted, Write, TrainerPc, Working
  <2>3. QED
    BY <1>1, <1>9, <2>1, <2>2 DEF WriteCompleted
<1>10. CASE CheckStarting(e)
  BY <1>1, <1>10, StoreTypes, TrainerTypes DEF CheckStarting, CheckStatus, TrainerPc, Working
<1>11. CASE CheckRunning(e)
  BY <1>1, <1>11, StoreTypes, TrainerTypes DEF CheckRunning, CheckStatus, TrainerPc, Working
<1>12. CASE ReportProgress(e)
  <2>1. trainer[e].step + 1 \in 0 .. TotalSteps
    BY <1>12, TotalStepsAssumption DEF ReportProgress, TrainerTypeOK
  <2>2. StoreTypeOK'
    BY <1>3, <1>12, <2>1, StoreTypes, WriteTypes DEF ReportProgress
  <2>3. TrainerTypeOK'
    BY <1>12, <2>1, TrainerTypes DEF ReportProgress, TrainerPc, Working
  <2>4. QED
    BY <1>1, <1>12, <2>2, <2>3 DEF ReportProgress
<1>13. CASE FinishTraining(e)
  BY <1>1, <1>13, StoreTypes, TrainerTypes DEF FinishTraining, TrainerPc, Working
<1>14. CASE WriteFailed(e)
  <2>1. StoreTypeOK'
    BY <1>2, <1>3, <1>14, StoreTypes, WriteTypes DEF WriteFailed
  <2>2. QED
    BY <1>1, <1>14, <2>1, TrainerTypes DEF WriteFailed, TrainerPc
<1>15. CASE ExitTrainer(e)
  BY <1>1, <1>15, StoreTypes, TrainerTypes, EventTypes DEF ExitTrainer
<1>16. CASE StopExecution(e)
  BY <1>1, <1>16, StoreTypes, TrainerTypes, EventTypes DEF StopExecution
<1>17. CASE KillTrainer(e)
  BY <1>1, <1>17, StoreTypes, TrainerTypes DEF KillTrainer, TrainerPc
<1>18. QED
  BY <1>4, <1>5, <1>6, <1>7, <1>8, <1>9, <1>10, <1>11, <1>12, <1>13, <1>14, <1>15, <1>16, <1>17 DEF TrainerStep

\* Any step keeps the types.
LEMMA StepTypes == TypeOK /\ [Next]_vars => TypeOK'
<1> SUFFICES ASSUME TypeOK, [Next]_vars
             PROVE  TypeOK'
  OBVIOUS
<1>1. CASE Server
  <2>1. CASE \E r \in Submitters : Submit(r) \/ DispatchStep(r)
    <3>1. PICK r \in Submitters : Submit(r) \/ DispatchStep(r)
      BY <2>1
    <3>2. CASE Submit(r)
      BY <1>1, <3>2, StoreTypes, RequestTypes
      DEF Server, Submit, Requests, RequestPc, TypeOK, TrainerTypeOK, CloudRunTypeOK
    <3>3. CASE DispatchStep(r)
      BY <1>1, <3>3, DispatchStepTypes DEF Server
    <3>4. QED
      BY <3>1, <3>2, <3>3
  <2>2. CASE \E r \in Pollers : PollerStep(r)
    BY <1>1, <2>2, PollerStepTypes DEF Server
  <2>3. CASE \E r \in Cancellers : CancellerStep(r)
    BY <1>1, <2>3, CancellerStepTypes DEF Server
  <2>4. CASE \E r \in Requests : RequestDies(r)
    BY <1>1, <2>4, StoreTypes, RequestTypes
    DEF Server, RequestDies, TypeOK, TrainerTypeOK, CloudRunTypeOK
  <2>5. QED
    BY <1>1, <2>1, <2>2, <2>3, <2>4 DEF Server
<1>2. CASE Training
  BY <1>2, TrainerStepTypes DEF Training
<1>3. CASE Calls
  BY <1>3, StoreTypes, EventTypes DEF Calls, TypeOK, TrainerTypeOK, RequestTypeOK
<1>4. CASE Timers
  BY <1>4, StoreTypes DEF Timers, TypeOK, TrainerTypeOK, RequestTypeOK, CloudRunTypeOK
<1>5. CASE UNCHANGED vars
  BY <1>5, StoreTypes DEF TypeOK, TrainerTypeOK, RequestTypeOK, CloudRunTypeOK
<1>6. QED
  BY <1>1, <1>2, <1>3, <1>4, <1>5 DEF Next

\* The initial state is typed.
LEMMA InitTypes == Init => TypeOK
<1>1. CloudRunInit => CloudRunTypeOK
  <2>1. 0 \in 0 .. MaxAttempts
    BY MaxAttemptsAssumption
  <2>2. [state |-> "unused", attempt |-> 0, cancelling |-> FALSE, late_cancel |-> FALSE]
          \in ExecutionRecord
    BY <2>1 DEF ExecutionRecord, ExecutionState
  <2>3. QED
    BY <2>2 DEF CloudRunInit, CloudRunTypeOK
<1>2. StoreInit => StoreTypeOK
  BY TotalStepsAssumption DEF StoreInit, StoreTypeOK, SubmissionControl, ResultDocument, CancellationState, Timer
<1>3. RequestInit => RequestTypeOK
  BY PersistAttemptsAssumption DEF RequestInit, RequestTypeOK, Idle, Request, RequestPc
<1>4. TrainerInit => TrainerTypeOK
  BY TotalStepsAssumption DEF TrainerInit, TrainerTypeOK, TrainerOff, TrainerPc
<1>5. QED
  BY <1>1, <1>2, <1>3, <1>4 DEF Init, TypeOK

\* The documents, the requests, Cloud Run's records and the trainers keep
\* their types in every behaviour.
THEOREM TypeCorrect == Spec => []TypeOK
BY InitTypes, StepTypes, PTL DEF Spec
==============================================================================
