----------------------- MODULE TrainingLifecycleInvariant -----------------------
(***************************************************************************)
(* The invariant IInv of TrainingLifecycle is inductive.  First what a     *)
(* step can leave alone, then the steps of the server, of the trainer and  *)
(* of Cloud Run, one lemma for each.                                       *)
(***************************************************************************)
EXTENDS TrainingLifecycleTypes

USE DEF docs, vars

------------------------------------------------------------------------------
(* What a step leaves alone.                                               *)

\* Facts that no step takes back: a call of run_job has been made, an
\* execution has started, how it ended, that its cancellation was accepted,
\* and the execution name.
Monotone ==
  /\ \A e \in Executions :
       /\ ~Is(e, "unused") => ~Is(e, "unused")'
       /\ Started(e) => Started(e)'
       /\ execution[e].state \in Over => execution'[e].state = execution[e].state
       /\ execution[e].cancelling => execution'[e].cancelling
  /\ control.execution_name # NoExecution =>
       control'.execution_name = control.execution_name

\* Only request r may have moved.
OthersStay(r) == \A q \in Requests : q # r => request'[q] = request[q]

\* The moves of a request, by where they leave it.
LEMMA Moves ==
  ASSUME RequestTypeOK, NEW r \in Requests
  PROVE  /\ \A pc \in RequestPc : Goto(r, pc) =>
              OthersStay(r) /\ request'[r].pc = pc /\ request'[r].name = request[r].name
         /\ \A pc \in RequestPc, e \in Executions : GotoWith(r, pc, e) =>
              OthersStay(r) /\ request'[r].pc = pc /\ request'[r].name = e
         /\ Answer(r) => OthersStay(r) /\ request'[r].pc = "idle"
         /\ Dispatched(r) => OthersStay(r) /\ request'[r].pc \in {"idle", "refetch"}
<1>1. \A pc \in RequestPc : Goto(r, pc) =>
        OthersStay(r) /\ request'[r].pc = pc /\ request'[r].name = request[r].name
  BY DEF RequestTypeOK, Request, Goto, OthersStay
<1>2. \A pc \in RequestPc, e \in Executions : GotoWith(r, pc, e) =>
        OthersStay(r) /\ request'[r].pc = pc /\ request'[r].name = e
  <2> SUFFICES ASSUME NEW pc \in RequestPc, NEW e \in Executions, GotoWith(r, pc, e)
               PROVE  OthersStay(r) /\ request'[r].pc = pc /\ request'[r].name = e
    OBVIOUS
  <2>1. request' = [request EXCEPT ![r] = [request[r] EXCEPT !.pc = pc, !.name = e]]
    BY DEF GotoWith, RequestTypeOK
  <2>2. QED
    BY <2>1 DEF RequestTypeOK, Request, OthersStay
<1>3. Answer(r) => OthersStay(r) /\ request'[r].pc = "idle"
  BY DEF RequestTypeOK, Answer, Idle, OthersStay
<1>4. Dispatched(r) => OthersStay(r) /\ request'[r].pc \in {"idle", "refetch"}
  BY <1>1, <1>3 DEF Dispatched, RequestPc
<1>5. QED
  BY <1>1, <1>2, <1>3, <1>4

\* What a request that has not moved remembers stays right.
LEMMA OthersRemember ==
  ASSUME IInv, Monotone, NEW q \in Requests, request'[q] = request[q]
  PROVE  RemembersRight(q)'
<1>1. RemembersRight(q)
  BY DEF IInv, Consistent, RequestsRememberRight
<1>2. control.execution_name \in Executions \union {NoExecution}
  BY DEF IInv, TypeOK, StoreTypeOK, SubmissionControl
<1>3. (In(q, "await_run_job") => request[q].name \in Executions /\ ~Is(request[q].name, "unused"))'
  BY <1>1 DEF RemembersRight, Monotone, In, Is
<1>4. (In(q, "persist_name") => request[q].name \in Executions /\ Started(request[q].name))'
  BY <1>1 DEF RemembersRight, Monotone, In, Started
<1>5. (In(q, "read_result") => request[q].name \in {NoExecution, control.execution_name})'
  BY <1>1 DEF RemembersRight, Monotone, In
<1>6. CASE request[q].pc \in OnNamedExecution
  <2>1. request[q].name \in Executions /\ request[q].name = control'.execution_name
    BY <1>1, <1>2, <1>6 DEF RemembersRight, Monotone
  <2>2. /\ In(q, "apply_cancelled") \/ In(q, "record_stopped") \/ In(q, "record_cancelled")
             => Is(request[q].name, "cancelled")'
        /\ In(q, "apply_failed") => execution'[request[q].name].state \in {"failed", "succeeded"}
        /\ In(q, "mark_requested") \/ In(q, "await_operation") => execution'[request[q].name].cancelling
    BY <1>1, <2>1 DEF RemembersRight, Monotone, In, Is, Over
  <2>3. QED
    BY <1>2, <1>3, <1>4, <1>5, <2>1, <2>2, NoExecutionAssumption DEF RemembersRight, In
<1>7. CASE request[q].pc \notin OnNamedExecution
  BY <1>3, <1>4, <1>5, <1>7 DEF RemembersRight, In, OnNamedExecution
<1>8. QED
  BY <1>6, <1>7

\* A request that is idle, or about to reread, has nothing to remember.
LEMMA NothingToRemember ==
  ASSUME NEW r, request'[r].pc \in {"idle", "refetch", "claim_dispatch", "run_job", "mark_ambiguous",
                                    "record_failure", "reconcile", "read_control", "cancel_pending"}
  PROVE  RemembersRight(r)'
BY DEF RemembersRight, In, OnNamedExecution

\* The permission to call run_job, when nobody gains it.
LEMMA PermissionStays ==
  ASSUME IInv, Monotone,
         \A r \in Requests : In(r, "run_job")' => In(r, "run_job"),
         \A e \in Executions : Is(e, "unused") => Is(e, "unused")',
         control'.dispatch_state \in {"absent", "pending", "cancelled"} =>
           control.dispatch_state \in {"absent", "pending", "cancelled"},
         (control.execution_name # NoExecution => Started(control.execution_name))'
  PROVE  OnePermission'
BY DEF IInv, Consistent, OnePermission

\* Trainers, when none of them moves and no execution ends.
LEMMA TrainersStay ==
  ASSUME IInv, Monotone, UNCHANGED trainer,
         \A e \in Executions : Is(e, "active") => Is(e, "active")'
  PROVE  TrainersAreNamed'
BY NoExecutionAssumption DEF IInv, Consistent, TrainersAreNamed, Monotone, At

\* One execution, when none is called for.
LEMMA ExecutionsStay ==
  ASSUME IInv, \A e \in Executions : Is(e, "unused") => Is(e, "unused")'
  PROVE  OneExecution'
BY DEF IInv, Consistent, OneExecution

\* An accepted cancellation, when none is newly recorded.
LEMMA AcceptedStays ==
  ASSUME IInv, Monotone,
         control'.cancellation_state = "requested" => control.cancellation_state = "requested"
  PROVE  RequestedWasAccepted'
BY DEF IInv, Consistent, RequestedWasAccepted, Monotone, TypeOK, StoreTypeOK, SubmissionControl

\* A process of the trainer or a result at rest keeps what is said of both.
LEMMA ClosedStays ==
  ASSUME IInv, UNCHANGED trainer, Terminal' => Terminal
  PROVE  NothingTrainsForAClosedResult'
BY DEF IInv, Consistent, NothingTrainsForAClosedResult, At

\* A result that was cancelled, when nothing is called for or started.
LEMMA StoppedStays ==
  ASSUME IInv, UNCHANGED execution, result'.status = "cancelled" => result.status = "cancelled"
  PROVE  CancelledMeansStopped'
BY DEF IInv, Consistent, CancelledMeansStopped

------------------------------------------------------------------------------
(* What the transactions do to the two documents together.                 *)

DocumentsStayRight ==
  /\ DocumentsAreJoint'
  /\ DocumentsAgree'
  /\ control.execution_name # NoExecution =>
       control'.execution_name = control.execution_name

\* The transactions on the dispatch.
LEMMA DispatchTransactions ==
  ASSUME IInv
  PROVE  /\ Accept => DocumentsStayRight
         /\ ClaimDispatch => DocumentsStayRight
         /\ CancelPendingDispatch => DocumentsStayRight
         /\ \A e \in Executions : MarkDispatched(e) => DocumentsStayRight
         /\ MarkDispatchAmbiguous => DocumentsStayRight
         /\ FailDispatchIfQueued => DocumentsStayRight
<1> USE NoExecutionAssumption
    DEF IInv, Consistent, TypeOK, StoreTypeOK, SubmissionControl, DispatchState, DocumentsStayRight, DocumentsAreJoint, DocumentsAgree
<1>1. Accept => DocumentsStayRight
  BY DEF Accept, Accepted, ResultUpdate
<1>2. ClaimDispatch => DocumentsStayRight
  BY DEF ClaimDispatch, CanClaimDispatch
<1>3. CancelPendingDispatch => DocumentsStayRight
  BY DEF CancelPendingDispatch, CanCancelPending, ResultUpdate
<1>4. \A e \in Executions : MarkDispatched(e) => DocumentsStayRight
  BY DEF MarkDispatched, CanMarkDispatched, AlreadyDispatchedAs, UnconfirmedDispatch
<1>5. MarkDispatchAmbiguous => DocumentsStayRight
  BY DEF MarkDispatchAmbiguous
<1>6. FailDispatchIfQueued => DocumentsStayRight
  BY DEF FailDispatchIfQueued, CanFailDispatch, UnconfirmedDispatch, ResultUpdate
<1>7. QED
  BY <1>1, <1>2, <1>3, <1>4, <1>5, <1>6

\* The transactions on the cancellation lease, and the passing of time.
LEMMA LeaseTransactions ==
  ASSUME IInv,
         \/ \E r \in Cancellers :
              ClaimCancellation(r) \/ MarkCancellationRequested(r) \/ ReleaseCancellation(r)
         \/ DispatchTimeoutElapses
         \/ CancellationLeaseElapses
         \/ MarkDispatchAmbiguous
         \/ UNCHANGED docs
  PROVE  /\ DocumentsStayRight
         /\ UNCHANGED result
         /\ control'.execution_name = control.execution_name
         /\ control'.dispatch_state \in {control.dispatch_state, "ambiguous"}
         /\ control'.cancellation_state = "requested" =>
              \/ control.cancellation_state = "requested"
              \/ \E r \in Cancellers : MarkCancellationRequested(r)
BY DEF IInv, Consistent, TypeOK, StoreTypeOK, SubmissionControl, DocumentsStayRight, DocumentsAreJoint, DocumentsAgree, ClaimCancellation, MarkCancellationRequested, ReleaseCancellation, DispatchTimeoutElapses, CancellationLeaseElapses, MarkDispatchAmbiguous, UnconfirmedDispatch

\* The compare-and-set transitions of a result whose execution is known.
LEMMA ResultTransitions ==
  ASSUME IInv, control.dispatch_state = "dispatched",
         NEW expected, NEW status \in ResultStatus,
         \/ \E error \in BOOLEAN : TransitionPreservingProgress(expected, status, error)
         \/ \E step, error, bundle : TransitionIfStatus(expected, status, step, error, bundle)
  PROVE  DocumentsStayRight /\ UNCHANGED control /\ result'.status = status
BY DEF IInv, Consistent, DocumentsStayRight, DocumentsAreJoint, DocumentsAgree, TransitionPreservingProgress, TransitionIfStatus, ResultUpdate, ResultStatus, ActiveStatuses, TerminalStatuses

------------------------------------------------------------------------------
(* The steps of the API server's requests.                                 *)

\* What remains to be shown of a request's step that leaves Cloud Run alone.
LEMMA RequestFrame ==
  ASSUME IInv, NEW r \in Requests, OthersStay(r), RemembersRight(r)', DocumentsStayRight,
         UNCHANGED <<execution, trainer>>,
         OnePermission', CancelledMeansStopped', RequestedWasAccepted',
         NothingTrainsForAClosedResult'
  PROVE  Consistent'
<1>1. Monotone
  BY DEF Monotone, DocumentsStayRight, Is, Started
<1>2. RequestsRememberRight'
  BY <1>1, OthersRemember DEF RequestsRememberRight, OthersStay
<1>3. TrainersAreNamed'
  BY <1>1, TrainersStay DEF Is
<1>4. OneExecution'
  BY ExecutionsStay DEF Is
<1>5. QED
  BY <1>2, <1>3, <1>4 DEF Consistent, DocumentsStayRight

\* A step that does not take the permission to call run_job and changes at
\* most the lease or the age of a start time.
LEMMA LeaseFrame ==
  ASSUME IInv, NEW r \in Requests, OthersStay(r), RemembersRight(r)',
         In(r, "run_job")' => In(r, "run_job"),
         UNCHANGED <<execution, trainer>>,
         \/ \E q \in Cancellers :
              ClaimCancellation(q) \/ MarkCancellationRequested(q) \/ ReleaseCancellation(q)
         \/ MarkDispatchAmbiguous
         \/ UNCHANGED docs,
         \A q \in Cancellers : MarkCancellationRequested(q) => In(r, "mark_requested")
  PROVE  Consistent'
<1>1. /\ DocumentsStayRight
      /\ UNCHANGED result
      /\ control'.execution_name = control.execution_name
      /\ control'.dispatch_state \in {control.dispatch_state, "ambiguous"}
      /\ control'.cancellation_state = "requested" =>
           control.cancellation_state = "requested" \/ In(r, "mark_requested")
  BY LeaseTransactions
<1>2. Monotone
  BY <1>1 DEF Monotone, DocumentsStayRight, Is, Started
<1>3. OnePermission'
  <2>1. \A q \in Requests : In(q, "run_job")' => In(q, "run_job")
    BY DEF OthersStay, In
  <2>2. (control.execution_name # NoExecution => Started(control.execution_name))'
    BY <1>1 DEF IInv, Consistent, OnePermission, Started
  <2>3. QED
    BY <1>1, <1>2, <2>1, <2>2, PermissionStays DEF Is
<1>4. CancelledMeansStopped'
  BY <1>1, StoppedStays
<1>5. RequestedWasAccepted'
  <2>1. CASE control'.cancellation_state = "requested" => control.cancellation_state = "requested"
    BY <1>2, <2>1, AcceptedStays
  <2>2. CASE In(r, "mark_requested")
    BY <1>1, <2>2 DEF IInv, Consistent, RequestsRememberRight, RemembersRight, OnNamedExecution, RequestedWasAccepted, In
  <2>3. QED
    BY <1>1, <2>1, <2>2
<1>6. NothingTrainsForAClosedResult'
  BY <1>1, ClosedStays DEF Terminal
<1>7. QED
  BY <1>1, <1>3, <1>4, <1>5, <1>6, RequestFrame

\* The acceptance of a submission.
LEMMA SubmitStep ==
  ASSUME IInv, NEW r \in Submitters, Submit(r), UNCHANGED trainer
  PROVE  Consistent'
<1>1. r \in Requests
  BY DEF Requests
<1>2. OthersStay(r) /\ request'[r].pc = "claim_dispatch"
  BY <1>1, Moves DEF Submit, IInv, TypeOK, RequestPc
<1>3. RemembersRight(r)'
  BY <1>2, NothingToRemember
<1>4. CASE UNCHANGED docs
  BY <1>1, <1>2, <1>3, <1>4, LeaseFrame DEF Submit, In, MarkCancellationRequested, OwnsCancellation, IInv, TypeOK, StoreTypeOK, SubmissionControl
<1>5. CASE ~Accepted /\ Accept
  <2>1. DocumentsStayRight /\ UNCHANGED execution
    BY <1>5, DispatchTransactions DEF Submit
  <2>2. /\ control.dispatch_state = "absent" /\ control'.dispatch_state = "pending"
        /\ control'.execution_name = control.execution_name
        /\ control'.cancellation_state = control.cancellation_state
        /\ result'.status = "queued"
    BY <1>5 DEF Accept, Accepted, IInv, Consistent, DocumentsAreJoint, TypeOK, StoreTypeOK, SubmissionControl, ResultUpdate
  <2>3. Monotone
    BY <2>1 DEF Monotone, DocumentsStayRight, Is, Started
  <2>4. OnePermission'
    BY <1>2, <2>1, <2>2 DEF IInv, Consistent, OnePermission, OthersStay, In, Is, Started
  <2>5. RequestedWasAccepted' /\ CancelledMeansStopped'
    BY <2>1, <2>2, <2>3, AcceptedStays, StoppedStays
  <2>6. NothingTrainsForAClosedResult'
    BY <2>2, ClosedStays DEF Terminal, TerminalStatuses
  <2>7. QED
    BY <1>1, <1>2, <1>3, <2>1, <2>4, <2>5, <2>6, RequestFrame
<1>6. QED
  BY <1>4, <1>5 DEF Submit, Accept

\* The claim of a pending dispatch takes the permission to call run_job.
LEMMA DispatchClaimStep ==
  ASSUME IInv, NEW r \in Requests, DispatchClaim(r), UNCHANGED trainer
  PROVE  Consistent'
<1>1. CASE ~CanClaimDispatch /\ UNCHANGED docs /\ Dispatched(r)
  <2>1. OthersStay(r) /\ request'[r].pc \in {"idle", "refetch"}
    BY <1>1, Moves DEF IInv, TypeOK
  <2>2. RemembersRight(r)'
    BY <2>1, NothingToRemember
  <2>3. QED
    BY <1>1, <2>1, <2>2, LeaseFrame DEF DispatchClaim, In, MarkCancellationRequested, OwnsCancellation, IInv, TypeOK, StoreTypeOK, SubmissionControl
<1>2. CASE ClaimDispatch /\ Goto(r, "run_job")
  <2>1. OthersStay(r) /\ request'[r].pc = "run_job"
    BY <1>2, Moves DEF IInv, TypeOK, RequestPc
  <2>2. RemembersRight(r)'
    BY <2>1, NothingToRemember
  <2>3. DocumentsStayRight /\ UNCHANGED <<execution, result>>
    BY <1>2, DispatchTransactions DEF DispatchClaim, ClaimDispatch
  <2>4. /\ control.dispatch_state = "pending" /\ control'.dispatch_state = "dispatching"
        /\ control.execution_name = NoExecution
        /\ control'.execution_name = NoExecution
        /\ control'.cancellation_state = control.cancellation_state
    BY <1>2 DEF ClaimDispatch, CanClaimDispatch, IInv, TypeOK, StoreTypeOK, SubmissionControl
  <2>5. Monotone
    BY <2>3 DEF Monotone, DocumentsStayRight, Is, Started
  <2>6. OnePermission'
    BY <2>1, <2>3, <2>4 DEF IInv, Consistent, OnePermission, OthersStay, In, Is, Started
  <2>7. RequestedWasAccepted' /\ CancelledMeansStopped' /\ NothingTrainsForAClosedResult'
    BY <2>3, <2>4, <2>5, AcceptedStays, StoppedStays, ClosedStays DEF Terminal
  <2>8. QED
    BY <2>1, <2>2, <2>3, <2>6, <2>7, RequestFrame
<1>3. QED
  BY <1>1, <1>2 DEF DispatchClaim

\* run_job is called with the permission, which the call uses up.
LEMMA RunJobStep ==
  ASSUME IInv, NEW r \in Requests, RunJob(r), UNCHANGED trainer
  PROVE  Consistent'
<1>1. PICK e \in Executions : CallRunJob(e) /\ GotoWith(r, "await_run_job", e)
  BY DEF RunJob
<1>2. OthersStay(r) /\ request'[r].pc = "await_run_job" /\ request'[r].name = e
  BY <1>1, Moves DEF IInv, TypeOK, RequestPc
<1>3. /\ In(r, "run_job")
      /\ \A f \in Executions : Is(f, "unused")
      /\ \A q \in Requests : In(q, "run_job") => q = r
  BY DEF RunJob, IInv, Consistent, OnePermission
<1>4. /\ execution'[e].state = "requested"
      /\ \A f \in Executions : f # e => execution'[f] = execution[f]
      /\ \A f \in Executions : execution'[f].cancelling = execution[f].cancelling
  BY <1>1 DEF CallRunJob, IInv, TypeOK, CloudRunTypeOK, ExecutionRecord
<1>5. UNCHANGED docs
  BY DEF RunJob
<1>6. control.execution_name = NoExecution /\ control.dispatch_state \notin {"absent", "pending", "cancelled"}
  BY <1>3 DEF IInv, Consistent, OnePermission, Is, Started, TypeOK, StoreTypeOK, SubmissionControl, Over
<1>7. Monotone
  BY <1>3, <1>4, <1>5 DEF Monotone, Is, Started, Over
<1>8. RemembersRight(r)'
  BY <1>2, <1>4 DEF RemembersRight, In, Is, OnNamedExecution
<1>9. RequestsRememberRight'
  BY <1>2, <1>7, <1>8, OthersRemember DEF RequestsRememberRight, OthersStay
<1>10. OnePermission'
  BY <1>2, <1>3, <1>5, <1>6 DEF OnePermission, OthersStay, In
<1>11. OneExecution'
  BY <1>3, <1>4 DEF OneExecution, Is
<1>12. TrainersAreNamed'
  BY <1>3, <1>7, TrainersStay DEF Is
<1>13. CancelledMeansStopped'
  BY <1>5, <1>6 DEF IInv, Consistent, DocumentsAreJoint, CancelledMeansStopped
<1>14. RequestedWasAccepted' /\ NothingTrainsForAClosedResult'
  BY <1>5, <1>7, AcceptedStays, ClosedStays DEF Terminal
<1>15. DocumentsAreJoint' /\ DocumentsAgree'
  BY <1>5 DEF IInv, Consistent, DocumentsAreJoint, DocumentsAgree
<1>16. QED
  BY <1>9, <1>10, <1>11, <1>12, <1>13, <1>14, <1>15 DEF Consistent

\* A request that reads, waits or gives up changes only its own place.
LEMMA QuietStep ==
  ASSUME IInv, NEW r \in Requests, OthersStay(r), RemembersRight(r)',
         request'[r].pc # "run_job", UNCHANGED <<docs, execution, trainer>>
  PROVE  Consistent'
BY LeaseFrame DEF In, MarkCancellationRequested, OwnsCancellation, IInv, TypeOK, StoreTypeOK, SubmissionControl

\* The answer of run_job moves its request only.
LEMMA RunJobReturnsStep ==
  ASSUME IInv, NEW r \in Requests, RunJobReturns(r), UNCHANGED trainer
  PROVE  Consistent'
<1> DEFINE e == request[r].name
<1>1. e \in Executions /\ UNCHANGED <<docs, execution>>
  BY DEF RunJobReturns, IInv, Consistent, RequestsRememberRight, RemembersRight
<1>2. CASE Started(e) /\ request' = [request EXCEPT ![r].pc = "persist_name", ![r].tries = PersistAttempts]
  <2>1. request' = [request EXCEPT ![r] = [request[r] EXCEPT !.pc = "persist_name", !.tries = PersistAttempts]]
    BY <1>2 DEF IInv, TypeOK, RequestTypeOK
  <2>2. OthersStay(r) /\ request'[r].pc = "persist_name" /\ request'[r].name = e
    BY <2>1 DEF IInv, TypeOK, RequestTypeOK, Request, OthersStay
  <2>3. RemembersRight(r)'
    BY <1>1, <1>2, <2>2 DEF RemembersRight, In, OnNamedExecution, Started
  <2>4. QED
    BY <1>1, <2>2, <2>3, QuietStep
<1>3. CASE Goto(r, "record_failure") \/ Goto(r, "mark_ambiguous")
  <2>1. OthersStay(r) /\ request'[r].pc \in {"record_failure", "mark_ambiguous"}
    BY <1>3, Moves DEF IInv, TypeOK, RequestPc
  <2>2. QED
    BY <1>1, <2>1, NothingToRemember, QuietStep
<1>4. QED
  BY <1>2, <1>3 DEF RunJobReturns

\* Registering an execution that has started, by whoever does it.
LEMMA MarkDispatchedKeeps ==
  ASSUME IInv, NEW e \in Executions, MarkDispatched(e), Started(e),
         Monotone, \A r \in Requests : In(r, "run_job")' => In(r, "run_job"),
         UNCHANGED execution
  PROVE  /\ OnePermission'
         /\ CancelledMeansStopped'
         /\ RequestedWasAccepted'
<1>1. /\ control'.dispatch_state = "dispatched" /\ control'.execution_name = e
      /\ control'.cancellation_state = control.cancellation_state
      /\ UNCHANGED result
  BY DEF MarkDispatched, IInv, TypeOK, StoreTypeOK, SubmissionControl
<1>2. OnePermission'
  BY <1>1, PermissionStays DEF Started, Is
<1>3. CancelledMeansStopped'
  BY <1>1, StoppedStays
<1>4. RequestedWasAccepted'
  BY <1>1, AcceptedStays
<1>5. QED
  BY <1>2, <1>3, <1>4

\* _persist_execution_name registers the execution of its own call, or gives up.
LEMMA PersistExecutionNameStep ==
  ASSUME IInv, NEW r \in Requests, PersistExecutionName(r), UNCHANGED trainer
  PROVE  Consistent'
<1> DEFINE e == request[r].name
<1>1. e \in Executions /\ Started(e) /\ UNCHANGED execution
  BY DEF PersistExecutionName, IInv, Consistent, RequestsRememberRight, RemembersRight
<1>2. CASE MarkDispatched(e) /\ Dispatched(r)
  <2>1. OthersStay(r) /\ request'[r].pc \in {"idle", "refetch"}
    BY <1>2, Moves DEF IInv, TypeOK
  <2>2. DocumentsStayRight /\ UNCHANGED result
    BY <1>1, <1>2, DispatchTransactions DEF MarkDispatched
  <2>3. Monotone
    BY <1>1, <2>2 DEF Monotone, DocumentsStayRight, Is, Started
  <2>4. \A q \in Requests : In(q, "run_job")' => In(q, "run_job")
    BY <2>1 DEF OthersStay, In
  <2>5. OnePermission' /\ CancelledMeansStopped' /\ RequestedWasAccepted'
    BY <1>1, <1>2, <2>3, <2>4, MarkDispatchedKeeps
  <2>6. RemembersRight(r)' /\ NothingTrainsForAClosedResult'
    BY <2>1, <2>2, NothingToRemember, ClosedStays DEF Terminal
  <2>7. QED
    BY <1>1, <2>1, <2>2, <2>5, <2>6, RequestFrame
<1>3. CASE UNCHANGED docs /\ request' = [request EXCEPT ![r].tries = @ - 1]
  <2>1. OthersStay(r) /\ request'[r].pc = request[r].pc /\ request'[r].name = e
    BY <1>3 DEF IInv, TypeOK, RequestTypeOK, Request, OthersStay
  <2>2. request'[r].pc = "persist_name"
    BY <2>1 DEF PersistExecutionName, In
  <2>3. RemembersRight(r)'
    BY <1>1, <2>1, <2>2 DEF RemembersRight, In, OnNamedExecution, Started
  <2>4. QED
    BY <1>1, <1>3, <2>1, <2>2, <2>3, QuietStep
<1>4. CASE UNCHANGED docs /\ (Dispatched(r) \/ Goto(r, "mark_ambiguous"))
  <2>1. OthersStay(r) /\ request'[r].pc \in {"idle", "refetch", "mark_ambiguous"}
    BY <1>4, Moves DEF IInv, TypeOK, RequestPc
  <2>2. QED
    BY <1>1, <1>4, <2>1, NothingToRemember, QuietStep
<1>5. QED
  BY <1>2, <1>3, <1>4 DEF PersistExecutionName

\* _mark_ambiguous writes an unconfirmed dispatch only, or nothing.
LEMMA MarkAmbiguousStep ==
  ASSUME IInv, NEW r \in Requests, MarkAmbiguous(r), UNCHANGED trainer
  PROVE  Consistent'
<1>1. OthersStay(r) /\ request'[r].pc \in {"idle", "refetch"}
  BY Moves DEF MarkAmbiguous, IInv, TypeOK
<1>2. \A q \in Cancellers : ~MarkCancellationRequested(q)
  BY DEF MarkAmbiguous, MarkDispatchAmbiguous, MarkCancellationRequested, OwnsCancellation, IInv, TypeOK, StoreTypeOK, SubmissionControl
<1>3. QED
  BY <1>1, <1>2, NothingToRemember, LeaseFrame DEF MarkAmbiguous, In

\* A dispatch that is given up closes the result it leaves queued.
LEMMA RecordFailureStep ==
  ASSUME IInv, NEW r \in Requests, RecordFailure(r), UNCHANGED trainer
  PROVE  Consistent'
<1>1. OthersStay(r) /\ request'[r].pc \in {"idle", "refetch"} /\ UNCHANGED execution
  BY Moves DEF RecordFailure, IInv, TypeOK
<1>2. RemembersRight(r)'
  BY <1>1, NothingToRemember
<1>3. CASE UNCHANGED docs
  BY <1>1, <1>2, <1>3, QuietStep
<1>4. CASE FailDispatchIfQueued
  <2>1. DocumentsStayRight
    BY <1>4, DispatchTransactions
  <2>2. /\ control'.dispatch_state = "failed"
        /\ control.dispatch_state \in UnconfirmedDispatch
        /\ control'.execution_name = control.execution_name
        /\ control'.cancellation_state = control.cancellation_state
        /\ result'.status = "failed"
    BY <1>4 DEF FailDispatchIfQueued, CanFailDispatch, ResultUpdate, IInv, TypeOK, StoreTypeOK, SubmissionControl
  <2>3. Monotone
    BY <1>1, <2>1 DEF Monotone, DocumentsStayRight, Is, Started
  <2>4. control'.execution_name = NoExecution
    BY <2>2 DEF UnconfirmedDispatch, IInv, Consistent, DocumentsAreJoint
  <2>5. \A q \in Requests : In(q, "run_job")' => In(q, "run_job")
    BY <1>1 DEF OthersStay, In
  <2>6. OnePermission'
    BY <1>1, <2>2, <2>3, <2>4, <2>5, PermissionStays DEF Is
  <2>7. CancelledMeansStopped' /\ RequestedWasAccepted'
    BY <1>1, <2>2, <2>3, StoppedStays, AcceptedStays
  <2>8. NothingTrainsForAClosedResult'
    BY <2>2, <2>4, NoExecutionAssumption DEF IInv, Consistent, TrainersAreNamed, Working, At, NothingTrainsForAClosedResult
  <2>9. QED
    BY <1>1, <1>2, <2>1, <2>6, <2>7, <2>8, RequestFrame
<1>5. QED
  BY <1>3, <1>4 DEF RecordFailure

\* A request closes a result only once the named execution is over: then
\* nothing runs, and no trainer is at work.
LEMMA ServerTransition ==
  ASSUME IInv, NEW r \in Requests, request[r].pc \in OnNamedExecution,
         NEW expected, NEW status \in {"cancelling", "cancelled", "failed"}, NEW error \in BOOLEAN,
         TransitionPreservingProgress(expected, status, error),
         status # "cancelling" => execution[request[r].name].state \in Over,
         OthersStay(r), RemembersRight(r)', request'[r].pc # "run_job",
         UNCHANGED <<execution, trainer>>
  PROVE  Consistent'
<1> DEFINE e == request[r].name
<1>1. e \in Executions /\ e = control.execution_name /\ control.dispatch_state = "dispatched"
  BY DEF IInv, Consistent, RequestsRememberRight, RemembersRight, DocumentsAreJoint, TypeOK, StoreTypeOK, SubmissionControl
<1>2. DocumentsStayRight /\ UNCHANGED control /\ result'.status = status
  BY <1>1, ResultTransitions DEF ResultStatus, ActiveStatuses, TerminalStatuses
<1>3. Monotone
  BY <1>2 DEF Monotone, Is, Started
<1>4. OnePermission'
  <2>1. \A q \in Requests : In(q, "run_job")' => In(q, "run_job")
    BY DEF OthersStay, In
  <2>2. (control.execution_name # NoExecution => Started(control.execution_name))'
    BY <1>2 DEF IInv, Consistent, OnePermission, Started
  <2>3. QED
    BY <1>2, <1>3, <2>1, <2>2, PermissionStays DEF Is
<1>5. RequestedWasAccepted'
  BY <1>2, <1>3, AcceptedStays
<1>6. CASE status = "cancelling"
  BY <1>2, <1>3, <1>4, <1>5, <1>6, StoppedStays, ClosedStays, RequestFrame DEF Terminal, TerminalStatuses
<1>7. CASE execution[e].state \in Over
  <2>1. \A f \in Executions : f # e => Is(f, "unused")
    BY <1>1, <1>7 DEF IInv, Consistent, OneExecution, Is, Over
  <2>2. \A f \in Executions : execution[f].state \in {"unused"} \union Over
    BY <1>1, <1>7, <2>1 DEF Is
  <2>3. CancelledMeansStopped'
    BY <2>2 DEF CancelledMeansStopped
  <2>4. NothingTrainsForAClosedResult'
    BY <2>2 DEF IInv, Consistent, TrainersAreNamed, At, Is, Over, NothingTrainsForAClosedResult
  <2>5. QED
    BY <1>2, <1>4, <1>5, <2>3, <2>4, RequestFrame
<1>8. QED
  BY <1>6, <1>7

\* A poll reads the documents and the execution, and applies what it read.
LEMMA PollStep ==
  ASSUME IInv, NEW r \in Pollers, PollerStep(r), ~DispatchStep(r), UNCHANGED trainer
  PROVE  Consistent'
<1>1. r \in Requests
  BY DEF Requests
<1>2. CASE GetResult(r) \/ ReconcileDispatch(r) \/ Refetch(r)
  <2>1. /\ OthersStay(r)
        /\ request'[r].pc \in {"idle", "reconcile", "read_control", "claim_dispatch", "mark_ambiguous", "record_failure", "refetch"}
    BY <1>1, <1>2, Moves DEF GetResult, ReconcileDispatch, Refetch, IInv, TypeOK, RequestPc
  <2>2. UNCHANGED <<docs, execution>>
    BY <1>2 DEF GetResult, ReconcileDispatch, Refetch
  <2>3. QED
    BY <1>1, <2>1, <2>2, NothingToRemember, QuietStep
<1>3. CASE ReadControl(r)
  <2>1. UNCHANGED <<docs, execution>>
    BY <1>3 DEF ReadControl
  <2>2. CASE control.execution_name = NoExecution
    <3>1. OthersStay(r) /\ request'[r].pc = "idle"
      BY <1>1, <1>3, <2>2, Moves DEF ReadControl, IInv, TypeOK
    <3>2. QED
      BY <1>1, <2>1, <3>1, NothingToRemember, QuietStep
  <2>3. CASE control.execution_name # NoExecution
    <3>1. control.execution_name \in Executions
      BY <2>3 DEF IInv, TypeOK, StoreTypeOK, SubmissionControl
    <3>2. OthersStay(r) /\ request'[r].pc = "read_outcome" /\ request'[r].name = control.execution_name
      BY <1>1, <1>3, <2>3, <3>1, Moves DEF ReadControl, IInv, TypeOK, RequestPc
    <3>3. RemembersRight(r)'
      BY <2>1, <2>3, <3>2 DEF RemembersRight, In, OnNamedExecution
    <3>4. QED
      BY <1>1, <2>1, <3>2, <3>3, QuietStep
  <2>4. QED
    BY <2>2, <2>3
<1>4. CASE ReadOutcome(r)
  <2>1. UNCHANGED <<docs, execution>>
    BY <1>4 DEF ReadOutcome
  <2>2. /\ OthersStay(r)
        /\ \/ request'[r].pc = "idle"
           \/ /\ request'[r].pc \in {"apply_cancelled", "apply_failed"}
              /\ request'[r].name = request[r].name
              /\ request'[r].pc = "apply_cancelled" => Is(request[r].name, "cancelled")
              /\ request'[r].pc = "apply_failed" => execution[request[r].name].state \in {"failed", "succeeded"}
    BY <1>1, <1>4, Moves DEF ReadOutcome, IInv, TypeOK, RequestPc
  <2>3. request[r].name # NoExecution /\ request[r].name = control.execution_name
    BY <1>1, <1>4 DEF ReadOutcome, In, IInv, Consistent, RequestsRememberRight, RemembersRight, OnNamedExecution
  <2>4. RemembersRight(r)'
    BY <2>1, <2>2, <2>3 DEF RemembersRight, In, Is, OnNamedExecution
  <2>5. QED
    BY <1>1, <2>1, <2>2, <2>4, QuietStep
<1>5. CASE ApplyOutcome(r)
  <2>1. OthersStay(r) /\ request'[r].pc = "idle" /\ RemembersRight(r)' /\ UNCHANGED execution
    BY <1>1, <1>5, Moves, NothingToRemember DEF ApplyOutcome, IInv, TypeOK
  <2>2. CASE UNCHANGED docs
    BY <1>1, <2>1, <2>2, QuietStep
  <2>3. request[r].pc \in OnNamedExecution /\ execution[request[r].name].state \in Over
    BY <1>1, <1>5 DEF ApplyOutcome, In, Is, OnNamedExecution, Over, IInv, Consistent, RequestsRememberRight, RemembersRight
  <2>4. QED
    BY <1>1, <1>5, <2>1, <2>2, <2>3, ServerTransition DEF ApplyOutcome
<1>6. QED
  BY <1>2, <1>3, <1>4, <1>5 DEF PollerStep

\* A cancelling request up to its claim of the lease: it reads two documents,
\* and cancels a dispatch that is still pending.
LEMMA CancelDecisionStep ==
  ASSUME IInv, NEW r \in Cancellers, UNCHANGED trainer,
         CancelReadControl(r) \/ CancelReadResult(r) \/ CancelPending(r) \/ CancellationClaim(r)
  PROVE  Consistent'
<1>1. r \in Requests
  BY DEF Requests
<1>2. CASE CancelReadControl(r)
  <2>1. request' = [request EXCEPT ![r] = [request[r] EXCEPT
          !.pc = "read_result", !.name = control.execution_name,
          !.saw_pending = (control.dispatch_state = "pending")]]
    BY <1>1, <1>2 DEF CancelReadControl, IInv, TypeOK, RequestTypeOK
  <2>2. /\ OthersStay(r) /\ request'[r].pc = "read_result"
        /\ request'[r].name = control.execution_name
    BY <1>1, <2>1 DEF OthersStay, IInv, TypeOK, RequestTypeOK, Request
  <2>3. UNCHANGED <<docs, execution>>
    BY <1>2 DEF CancelReadControl
  <2>4. RemembersRight(r)'
    BY <2>2, <2>3 DEF RemembersRight, In, OnNamedExecution
  <2>5. QED
    BY <1>1, <2>2, <2>3, <2>4, QuietStep
<1>3. CASE CancelReadResult(r)
  <2>1. UNCHANGED <<docs, execution>>
    BY <1>3 DEF CancelReadResult
  <2>2. /\ OthersStay(r)
        /\ \/ request'[r].pc \in {"cancel_pending", "idle"}
           \/ /\ request'[r].pc = "claim_cancellation"
              /\ request'[r].name = request[r].name
              /\ request[r].name # NoExecution
    BY <1>1, <1>3, Moves DEF CancelReadResult, IInv, TypeOK, RequestPc
  <2>3. request[r].name \in {NoExecution, control.execution_name}
    BY <1>1, <1>3 DEF CancelReadResult, IInv, Consistent, RequestsRememberRight, RemembersRight
  <2>4. RemembersRight(r)'
    BY <2>1, <2>2, <2>3 DEF RemembersRight, In, OnNamedExecution
  <2>5. QED
    BY <1>1, <2>1, <2>2, <2>4, QuietStep
<1>4. CASE CancelPending(r)
  <2>1. OthersStay(r) /\ request'[r].pc = "idle" /\ RemembersRight(r)' /\ UNCHANGED execution
    BY <1>1, <1>4, Moves, NothingToRemember DEF CancelPending, IInv, TypeOK
  <2>2. CASE UNCHANGED docs
    BY <1>1, <2>1, <2>2, QuietStep
  <2>3. CASE CancelPendingDispatch
    <3>1. DocumentsStayRight
      BY <2>3, DispatchTransactions
    <3>2. /\ control.dispatch_state = "pending" /\ control'.dispatch_state = "cancelled"
          /\ control'.execution_name = control.execution_name
          /\ control'.cancellation_state = control.cancellation_state
      BY <2>3 DEF CancelPendingDispatch, CanCancelPending, IInv, TypeOK, StoreTypeOK, SubmissionControl
    <3>3. Monotone
      BY <2>1, <3>1 DEF Monotone, DocumentsStayRight, Is, Started
    <3>4. \A e \in Executions : Is(e, "unused")
      BY <3>2 DEF IInv, Consistent, OnePermission
    <3>5. \A q \in Requests : In(q, "run_job")' => In(q, "run_job")
      BY <2>1 DEF OthersStay, In
    <3>6. control'.execution_name = NoExecution
      BY <3>2 DEF IInv, Consistent, DocumentsAreJoint
    <3>7. OnePermission'
      BY <2>1, <3>2, <3>3, <3>5, <3>6, PermissionStays DEF Is
    <3>8. RequestedWasAccepted'
      BY <3>2, <3>3, AcceptedStays
    <3>9. CancelledMeansStopped'
      BY <2>1, <3>4 DEF Is, CancelledMeansStopped
    <3>10. NothingTrainsForAClosedResult'
      BY <2>1, <3>4 DEF IInv, Consistent, TrainersAreNamed, NothingTrainsForAClosedResult, At, Is
    <3>11. QED
      BY <1>1, <2>1, <3>1, <3>7, <3>8, <3>9, <3>10, RequestFrame
  <2>4. QED
    BY <1>4, <2>2, <2>3 DEF CancelPending
<1>5. CASE CancellationClaim(r)
  <2>1. /\ OthersStay(r) /\ UNCHANGED execution
        /\ \/ ClaimCancellation(r) /\ request'[r].pc = "cancel_rpc"
           \/ UNCHANGED docs /\ request'[r].pc = "idle"
        /\ request'[r].pc = "cancel_rpc" => request'[r].name = request[r].name
    BY <1>1, <1>5, Moves DEF CancellationClaim, IInv, TypeOK, RequestPc
  <2>2. request[r].name # NoExecution /\ request[r].name = control.execution_name
    BY <1>1, <1>5 DEF CancellationClaim, In, IInv, Consistent, RequestsRememberRight, RemembersRight, OnNamedExecution
  <2>3. control'.execution_name = control.execution_name
    BY <2>1, LeaseTransactions
  <2>4. RemembersRight(r)'
    BY <2>1, <2>2, <2>3 DEF RemembersRight, In, OnNamedExecution
  <2>5. \A q \in Cancellers : ~MarkCancellationRequested(q)
    BY <2>1 DEF ClaimCancellation, MarkCancellationRequested, OwnsCancellation, IInv, TypeOK, StoreTypeOK, SubmissionControl
  <2>6. QED
    BY <1>1, <2>1, <2>4, <2>5, LeaseFrame DEF In
<1>6. QED
  BY <1>2, <1>3, <1>4, <1>5

\* An event of Cloud Run that starts nothing new and stops no trainer.
LEMMA CloudFrame ==
  ASSUME IInv, UNCHANGED <<docs, trainer>>, Monotone, RequestsRememberRight',
         \A r \in Requests : In(r, "run_job")' => In(r, "run_job"),
         \A e \in Executions :
           /\ Is(e, "unused") => Is(e, "unused")'
           /\ Is(e, "active") => Is(e, "active")'
           /\ execution'[e].state = execution[e].state \/ Is(e, "requested"),
         CancelledMeansStopped'
  PROVE  Consistent'
<1>1. (control.execution_name # NoExecution => Started(control.execution_name))'
  BY DEF IInv, Consistent, OnePermission, Monotone, TypeOK, StoreTypeOK, SubmissionControl
<1>2. OnePermission'
  BY <1>1, PermissionStays
<1>3. OneExecution' /\ TrainersAreNamed' /\ RequestedWasAccepted' /\ NothingTrainsForAClosedResult'
  BY ExecutionsStay, TrainersStay, AcceptedStays, ClosedStays DEF Terminal
<1>4. DocumentsAreJoint' /\ DocumentsAgree'
  BY DEF IInv, Consistent, DocumentsAreJoint, DocumentsAgree
<1>5. QED
  BY <1>2, <1>3, <1>4 DEF Consistent

\* The answer to cancel_execution: accepted, refused, or lost.
LEMMA CancelRpcReturnsStep ==
  ASSUME IInv, NEW r \in Cancellers, CancelRpcReturns(r), UNCHANGED trainer
  PROVE  Consistent'
<1> DEFINE e == request[r].name
<1>1. r \in Requests
  BY DEF Requests
<1>2. e \in Executions /\ e # NoExecution /\ e = control.execution_name
  BY <1>1, NoExecutionAssumption
  DEF CancelRpcReturns, In, OnNamedExecution, IInv, Consistent, RequestsRememberRight, RemembersRight, TypeOK, StoreTypeOK, SubmissionControl
<1>3. UNCHANGED docs
  BY DEF CancelRpcReturns
<1>4. /\ OthersStay(r)
      /\ request'[r].pc \in {"mark_requested", "release", "record_cancelling"}
      /\ request'[r].name = e
      /\ request'[r].pc = "mark_requested" => AcceptCancellation(e)
  BY <1>1, Moves DEF CancelRpcReturns, IInv, TypeOK, RequestPc
<1>5. UNCHANGED execution \/ AcceptCancellation(e) \/ DelayCancellation(e)
  BY DEF CancelRpcReturns
<1>6. \A f \in Executions :
        /\ execution'[f].state = execution[f].state
        /\ execution[f].cancelling => execution'[f].cancelling
  BY <1>2, <1>5 DEF AcceptCancellation, DelayCancellation, IInv, TypeOK, CloudRunTypeOK, ExecutionRecord
<1>7. AcceptCancellation(e) => execution'[e].cancelling
  BY <1>2 DEF AcceptCancellation, IInv, TypeOK, CloudRunTypeOK, ExecutionRecord
<1>8. Monotone
  BY <1>3, <1>6 DEF Monotone, Is, Started
<1>9. RemembersRight(r)'
  BY <1>2, <1>3, <1>4, <1>7 DEF RemembersRight, In, OnNamedExecution
<1>10. RequestsRememberRight'
  BY <1>4, <1>8, <1>9, OthersRemember DEF RequestsRememberRight, OthersStay
<1>11. CancelledMeansStopped'
  BY <1>3, <1>6 DEF IInv, Consistent, CancelledMeansStopped
<1>12. \A q \in Requests : In(q, "run_job")' => In(q, "run_job")
  BY <1>4 DEF OthersStay, In
<1>13. QED
  BY <1>3, <1>6, <1>8, <1>10, <1>11, <1>12, CloudFrame DEF Is

\* A cancelling request from its lease on, but for the answer of Cloud Run.
LEMMA CancellationStep ==
  ASSUME IInv, NEW r \in Cancellers, UNCHANGED trainer,
         \/ RequestCancellation(r) \/ OperationReturns(r)
         \/ ReleaseLease(r) \/ MarkRequested(r)
         \/ RecordCancelling(r) \/ RecordCancelled(r)
  PROVE  Consistent'
<1>1. r \in Requests
  BY DEF Requests
<1>2. request[r].pc \in OnNamedExecution
  BY DEF RequestCancellation, OperationReturns, ReleaseLease, MarkRequested, RecordCancelling, RecordCancelled, In, OnNamedExecution
<1>3. RemembersRight(r) /\ request[r].name # NoExecution /\ request[r].name = control.execution_name
  BY <1>1, <1>2 DEF IInv, Consistent, RequestsRememberRight, RemembersRight
<1>4. CASE RequestCancellation(r) \/ OperationReturns(r)
  <2>1. /\ OthersStay(r) /\ UNCHANGED <<docs, execution>>
        /\ request'[r].pc \in {"await_cancel_rpc", "record_stopped", "record_cancelling"}
        /\ request'[r].name = request[r].name
        /\ request'[r].pc = "record_stopped" => Is(request[r].name, "cancelled")
    BY <1>1, <1>4, Moves DEF RequestCancellation, OperationReturns, IInv, TypeOK, RequestPc
  <2>2. RemembersRight(r)'
    BY <1>3, <2>1 DEF RemembersRight, In, Is, OnNamedExecution
  <2>3. QED
    BY <1>1, <2>1, <2>2, QuietStep
<1>5. CASE ReleaseLease(r)
  <2>1. OthersStay(r) /\ request'[r].pc = "idle" /\ UNCHANGED execution
    BY <1>1, <1>5, Moves DEF ReleaseLease, IInv, TypeOK
  <2>2. \A q \in Cancellers : ~MarkCancellationRequested(q)
    BY <1>5 DEF ReleaseLease, ReleaseCancellation, MarkCancellationRequested, OwnsCancellation, IInv, TypeOK, StoreTypeOK, SubmissionControl
  <2>3. QED
    BY <1>1, <1>5, <2>1, <2>2, NothingToRemember, LeaseFrame DEF ReleaseLease, In
<1>6. CASE MarkRequested(r)
  <2>1. /\ OthersStay(r) /\ UNCHANGED execution
        /\ \/ MarkCancellationRequested(r) /\ request'[r].pc = "await_operation" /\ request'[r].name = request[r].name
           \/ UNCHANGED docs /\ request'[r].pc = "idle"
    BY <1>1, <1>6, Moves DEF MarkRequested, IInv, TypeOK, RequestPc
  <2>2. execution[request[r].name].cancelling
    BY <1>3, <1>6 DEF MarkRequested, RemembersRight, In
  <2>3. control'.execution_name = control.execution_name
    BY <2>1, LeaseTransactions
  <2>4. RemembersRight(r)'
    BY <1>3, <2>1, <2>2, <2>3 DEF RemembersRight, In, OnNamedExecution
  <2>5. QED
    BY <1>1, <1>6, <2>1, <2>4, LeaseFrame DEF MarkRequested, In
<1>7. CASE RecordCancelling(r)
  <2>1. /\ OthersStay(r) /\ UNCHANGED execution
        /\ \/ request'[r].pc = "idle"
           \/ /\ In(r, "record_stopped")
              /\ request'[r].pc = "record_cancelled" /\ request'[r].name = request[r].name
    BY <1>1, <1>7, Moves DEF RecordCancelling, IInv, TypeOK, RequestPc
  <2>2. \/ TransitionPreservingProgress(ActiveStatuses \ {"cancelling"}, "cancelling", FALSE)
        \/ UNCHANGED docs
    BY <1>7 DEF RecordCancelling
  <2>3. control'.execution_name = control.execution_name
    BY <2>2 DEF TransitionPreservingProgress
  <2>4. RemembersRight(r)'
    BY <1>3, <2>1, <2>3 DEF RemembersRight, In, Is, OnNamedExecution
  <2>5. QED
    BY <1>1, <1>2, <2>1, <2>2, <2>4, ServerTransition, QuietStep
<1>8. CASE RecordCancelled(r)
  <2>1. OthersStay(r) /\ request'[r].pc = "idle" /\ RemembersRight(r)' /\ UNCHANGED execution
    BY <1>1, <1>8, Moves, NothingToRemember DEF RecordCancelled, IInv, TypeOK
  <2>2. execution[request[r].name].state \in Over
    BY <1>3, <1>8 DEF RecordCancelled, RemembersRight, In, Is, Over
  <2>3. QED
    BY <1>1, <1>2, <1>8, <2>1, <2>2, ServerTransition, QuietStep DEF RecordCancelled
<1>9. QED
  BY <1>4, <1>5, <1>6, <1>7, <1>8

\* Every step of the API server keeps the invariant.
LEMMA ServerStep ==
  ASSUME IInv, Server
  PROVE  Consistent'
<1>1. UNCHANGED <<trainer, stable>>
  BY DEF Server
<1>2. \A r \in Requests : DispatchStep(r) => Consistent'
  BY <1>1, DispatchClaimStep, RunJobStep, RunJobReturnsStep, PersistExecutionNameStep, MarkAmbiguousStep, RecordFailureStep DEF DispatchStep
<1>3. \A r \in Submitters : Submit(r) => Consistent'
  BY <1>1, SubmitStep
<1>4. \A r \in Pollers : PollerStep(r) => Consistent'
  BY <1>1, <1>2, PollStep DEF Requests
<1>5. \A r \in Cancellers : CancellerStep(r) => Consistent'
  BY <1>1, CancelDecisionStep, CancelRpcReturnsStep, CancellationStep DEF CancellerStep
<1>6. \A r \in Requests : RequestDies(r) => Consistent'
  <2> SUFFICES ASSUME NEW r \in Requests, RequestDies(r)
               PROVE  Consistent'
    OBVIOUS
  <2>1. OthersStay(r) /\ request'[r].pc = "idle" /\ UNCHANGED <<docs, execution>>
    BY Moves DEF RequestDies, IInv, TypeOK
  <2>2. QED
    BY <1>1, <2>1, NothingToRemember, QuietStep
<1>7. QED
  BY <1>2, <1>3, <1>4, <1>5, <1>6 DEF Server, Requests

------------------------------------------------------------------------------
(* The steps of the trainer, of Cloud Run and of time.                     *)

\* Past registering, a trainer is the named one.
Registered == Working \union {"parse", "raising", "raising_unparsed"}

\* Only the process of execution e has moved, to pc.
TrainerMoves(e, pc) ==
  /\ trainer'[e].pc = pc
  /\ \A f \in Executions : f # e => trainer'[f] = trainer[f]

\* A trainer that proceeds leaves every other one where it is.
LEMMA ProceedMoves ==
  ASSUME IInv, NEW e \in Executions, NEW pc \in TrainerPc
  PROVE  /\ Proceed(e, pc) => TrainerMoves(e, pc)
         /\ \A step : trainer' = [trainer EXCEPT ![e] = [pc |-> pc, step |-> step]]
              => TrainerMoves(e, pc)
BY DEF IInv, TypeOK, TrainerTypeOK, Proceed, TrainerMoves

\* What remains to be shown of a trainer's step.
LEMMA TrainerFrame ==
  ASSUME IInv, NEW e \in Executions, NEW pc \in TrainerPc, TrainerMoves(e, pc), Is(e, "active"),
         pc \in Registered => control'.execution_name = e,
         pc \in {"training", "completing"} => ~Terminal',
         DocumentsStayRight, UNCHANGED <<request, execution>>,
         OnePermission', CancelledMeansStopped', RequestedWasAccepted'
  PROVE  Consistent'
<1>1. Monotone
  BY DEF Monotone, DocumentsStayRight, Is, Started
<1>2. RequestsRememberRight'
  BY <1>1, OthersRemember DEF RequestsRememberRight
<1>3. OneExecution'
  BY ExecutionsStay DEF Is
<1>4. \A f \in Executions : f # e => At(f, "off") /\ trainer'[f] = trainer[f]
  BY DEF IInv, Consistent, OneExecution, TrainersAreNamed, Is, TrainerMoves
<1>5. TrainersAreNamed'
  BY <1>4 DEF TrainersAreNamed, TrainerMoves, At, Is, Registered, Working
<1>6. NothingTrainsForAClosedResult'
  BY <1>4 DEF NothingTrainsForAClosedResult, TrainerMoves, At
<1>7. QED
  BY <1>2, <1>3, <1>5, <1>6 DEF Consistent, DocumentsStayRight

\* The documents of a trainer's step that writes neither.
LEMMA TrainerQuiet ==
  ASSUME IInv, NEW e \in Executions, NEW pc \in TrainerPc, TrainerMoves(e, pc), Is(e, "active"),
         pc \in Registered => control.execution_name = e,
         pc \in {"training", "completing"} => ~Terminal,
         UNCHANGED <<docs, request, execution>>
  PROVE  Consistent'
<1>1. DocumentsStayRight /\ OnePermission' /\ CancelledMeansStopped' /\ RequestedWasAccepted'
  BY DEF IInv, Consistent, DocumentsStayRight, DocumentsAreJoint, DocumentsAgree, OnePermission, CancelledMeansStopped, RequestedWasAccepted, In, Is, Started
<1>2. QED
  BY <1>1, TrainerFrame DEF Terminal

\* A trainer's compare-and-set on the result: it never writes CANCELLED, and
\* after a terminal write it is on its way out.
LEMMA TrainerTransition ==
  ASSUME IInv, NEW e \in Executions, NEW pc \in TrainerPc, TrainerMoves(e, pc),
         trainer[e].pc \in Registered,
         NEW expected, NEW status \in {"starting", "running", "completed", "failed"},
         NEW step, NEW error, NEW bundle,
         TransitionIfStatus(expected, status, step, error, bundle),
         pc \in {"training", "completing"} => status \notin TerminalStatuses,
         UNCHANGED <<request, execution>>
  PROVE  Consistent'
<1>1. Is(e, "active") /\ control.execution_name = e /\ control.dispatch_state = "dispatched"
  BY NoExecutionAssumption DEF IInv, Consistent, TrainersAreNamed, DocumentsAreJoint, Registered, Working, At
<1>2. DocumentsStayRight /\ UNCHANGED control /\ result'.status = status
  BY <1>1, ResultTransitions DEF ResultStatus, ActiveStatuses, TerminalStatuses
<1>3. OnePermission' /\ CancelledMeansStopped' /\ RequestedWasAccepted'
  BY <1>2 DEF IInv, Consistent, OnePermission, CancelledMeansStopped, RequestedWasAccepted, In, Is, Started
<1>4. QED
  BY <1>1, <1>2, <1>3, TrainerFrame DEF Terminal

\* A trainer registers its execution, or finds its dispatch closed.
LEMMA TrainerMarkDispatchedStep ==
  ASSUME IInv, NEW e \in Executions, TrainerMarkDispatched(e), UNCHANGED request
  PROVE  Consistent'
<1>1. Is(e, "active") /\ UNCHANGED execution
  BY DEF TrainerMarkDispatched, At, IInv, Consistent, TrainersAreNamed
<1>2. CASE MarkDispatched(e) /\ Proceed(e, "parse")
  <2>1. TrainerMoves(e, "parse")
    BY <1>2, ProceedMoves DEF TrainerPc
  <2>2. DocumentsStayRight /\ control'.execution_name = e
    BY <1>2, DispatchTransactions DEF MarkDispatched, IInv, TypeOK, StoreTypeOK, SubmissionControl
  <2>3. Monotone
    BY <1>1, <2>2 DEF Monotone, DocumentsStayRight, Is, Started
  <2>4. OnePermission' /\ CancelledMeansStopped' /\ RequestedWasAccepted'
    BY <1>1, <1>2, <2>3, MarkDispatchedKeeps DEF In, Is, Started
  <2>5. QED
    BY <1>1, <2>1, <2>2, <2>4, TrainerFrame DEF TrainerPc
<1>3. CASE UNCHANGED docs /\ (Proceed(e, "exit_ok") \/ Proceed(e, "exit_error"))
  BY <1>1, <1>3, ProceedMoves, TrainerQuiet DEF TrainerPc, Registered, Working
<1>4. QED
  BY <1>2, <1>3 DEF TrainerMarkDispatched

\* A trainer's read of the submission or of the status, the end of training,
\* and the death of the container write nothing.
LEMMA TrainerReadStep ==
  ASSUME IInv, NEW e \in Executions, UNCHANGED request,
         \/ StartContainer(e) \/ ParseSubmission(e)
         \/ CheckStarting(e) \/ CheckRunning(e)
         \/ FinishTraining(e) \/ KillTrainer(e)
  PROVE  Consistent'
<1>1. UNCHANGED <<docs, execution>>
  BY DEF StartContainer, ParseSubmission, CheckStarting, CheckRunning, CheckStatus, FinishTraining, KillTrainer
<1>2. /\ Is(e, "active")
      /\ trainer[e].pc \in Registered => control.execution_name = e
      /\ At(e, "training") => ~Terminal
  BY DEF StartContainer, ParseSubmission, CheckStarting, CheckRunning, FinishTraining, KillTrainer, At, Registered, IInv, Consistent, TrainersAreNamed, NothingTrainsForAClosedResult
<1>3. CASE StartContainer(e)
  BY <1>1, <1>2, <1>3, ProceedMoves, TrainerQuiet DEF StartContainer, TrainerPc, Registered, Working
<1>4. CASE ParseSubmission(e)
  <2>1. trainer[e].pc \in Registered
    BY <1>4 DEF ParseSubmission, At, Registered
  <2>2. QED
    BY <1>1, <1>2, <1>4, <2>1, ProceedMoves, TrainerQuiet DEF ParseSubmission, TrainerPc, Working
<1>5. CASE CheckStarting(e) \/ CheckRunning(e)
  <2>1. trainer[e].pc \in Registered
    BY <1>5 DEF CheckStarting, CheckRunning, At, Registered, Working
  <2>2. \/ Proceed(e, "exit_ok") \/ Proceed(e, "raising") \/ Proceed(e, "running")
        \/ Proceed(e, "training") /\ result.status = "cancelling"
    BY <1>5 DEF CheckStarting, CheckRunning, CheckStatus
  <2>3. result.status = "cancelling" => ~Terminal
    BY DEF Terminal, TerminalStatuses
  <2>4. QED
    BY <1>1, <1>2, <2>1, <2>2, <2>3, ProceedMoves, TrainerQuiet DEF TrainerPc, Working
<1>6. CASE FinishTraining(e)
  <2>1. trainer[e].pc \in Registered
    BY <1>6 DEF FinishTraining, At, Registered, Working
  <2>2. At(e, "training") /\ (Proceed(e, "completing") \/ Proceed(e, "raising"))
    BY <1>6 DEF FinishTraining
  <2>3. QED
    BY <1>1, <1>2, <2>1, <2>2, ProceedMoves, TrainerQuiet DEF TrainerPc, Working
<1>7. CASE KillTrainer(e)
  BY <1>1, <1>2, <1>7, ProceedMoves, TrainerQuiet DEF KillTrainer, TrainerPc, Registered, Working
<1>8. QED
  BY <1>3, <1>4, <1>5, <1>6, <1>7

\* The trainer's writes of the result.
LEMMA TrainerWriteStep ==
  ASSUME IInv, NEW e \in Executions, UNCHANGED request,
         \/ WriteStarting(e) \/ WriteRunning(e) \/ ReportProgress(e)
         \/ WriteCompleted(e) \/ WriteFailed(e)
  PROVE  Consistent'
<1>1. UNCHANGED execution
  BY DEF WriteStarting, WriteRunning, ReportProgress, WriteCompleted, WriteFailed
<1>2. trainer[e].pc \in Registered
  BY DEF WriteStarting, WriteRunning, ReportProgress, WriteCompleted, WriteFailed, At, Registered, Working
<1>3. /\ Is(e, "active")
      /\ control.execution_name = e
      /\ At(e, "training") => ~Terminal
  BY <1>2 DEF At, Registered, Working, IInv, Consistent, TrainersAreNamed, NothingTrainsForAClosedResult
<1>4. ASSUME NEW pc \in TrainerPc, TrainerMoves(e, pc), UNCHANGED docs,
             pc \in {"training", "completing"} => At(e, "training")
      PROVE  Consistent'
  BY <1>1, <1>3, <1>4, TrainerQuiet
<1>5. CASE WriteStarting(e) \/ WriteRunning(e)
  <2> DEFINE Open(status) == \E expected : TransitionIfStatus(expected, status, 0, FALSE, "none")
  <2>1. /\ WriteStarting(e) =>
             \/ Open("starting") /\ (Proceed(e, "running") \/ Proceed(e, "raising"))
             \/ UNCHANGED docs /\ (Proceed(e, "check_starting") \/ Proceed(e, "raising"))
        /\ WriteRunning(e) =>
             \/ Open("running") /\ (Proceed(e, "training") \/ Proceed(e, "raising"))
             \/ UNCHANGED docs /\ (Proceed(e, "check_running") \/ Proceed(e, "raising"))
    BY DEF WriteStarting, WriteRunning, Write
  <2>2. ASSUME NEW pc \in {"running", "training", "raising"}, Proceed(e, pc),
               NEW status \in {"starting", "running"}, Open(status)
        PROVE  Consistent'
    BY <1>1, <1>2, <2>2, ProceedMoves, TrainerTransition DEF TrainerPc, Working, TerminalStatuses
  <2>3. ASSUME NEW pc \in {"check_starting", "check_running", "raising"}, Proceed(e, pc), UNCHANGED docs
        PROVE  Consistent'
    BY <1>4, <2>3, ProceedMoves DEF TrainerPc, Working
  <2> HIDE DEF Open
  <2>4. QED
    BY <1>5, <2>1, <2>2, <2>3
<1>6. CASE ReportProgress(e)
  <2>1. PICK pc \in {"training", "raising"} :
             /\ TrainerMoves(e, pc)
             /\ \/ \E expected, step : TransitionIfStatus(expected, "running", step, FALSE, "none")
                \/ UNCHANGED docs
    BY <1>6, ProceedMoves DEF ReportProgress, TrainerPc, Working
  <2>2. At(e, "training") /\ "running" \notin TerminalStatuses
    BY <1>6 DEF ReportProgress, TerminalStatuses
  <2>3. QED
    BY <1>1, <1>2, <1>4, <2>1, <2>2, TrainerTransition DEF TrainerPc, Working
<1>7. CASE WriteCompleted(e) \/ WriteFailed(e)
  <2> DEFINE Writes(status, bundle) ==
               \E expected, step, error : TransitionIfStatus(expected, status, step, error, bundle)
  <2> DEFINE Closed == \E status \in {"completed", "failed"} :
                         \E bundle \in {"completed", "failed", "none"} : Writes(status, bundle)
  <2>1. WriteCompleted(e) =>
          (Closed \/ UNCHANGED docs) /\ (Proceed(e, "exit_ok") \/ Proceed(e, "raising"))
    <3>1. WriteCompleted(e) =>
            /\ Writes("completed", "completed") \/ UNCHANGED docs
            /\ Proceed(e, "exit_ok") \/ Proceed(e, "raising")
      BY DEF WriteCompleted, Write
    <3> HIDE DEF Writes
    <3>2. QED
      BY <3>1
  <2>2. WriteFailed(e) => (Closed \/ UNCHANGED docs) /\ Proceed(e, "exit_error")
    <3>1. WriteFailed(e) =>
            /\ Writes("failed", "failed") \/ Writes("failed", "none") \/ UNCHANGED docs
            /\ Proceed(e, "exit_error")
      BY DEF WriteFailed
    <3> HIDE DEF Writes
    <3>2. QED
      BY <3>1
  <2>3. ASSUME NEW pc \in {"exit_ok", "exit_error", "raising"}, Proceed(e, pc)
        PROVE  TrainerMoves(e, pc)
    BY <2>3, ProceedMoves DEF TrainerPc
  <2>4. ASSUME NEW pc \in {"exit_ok", "exit_error", "raising"}, Proceed(e, pc), Closed
        PROVE  Consistent'
    BY <1>1, <1>2, <2>3, <2>4, TrainerTransition DEF TrainerPc
  <2>5. ASSUME NEW pc \in {"exit_ok", "exit_error", "raising"}, Proceed(e, pc), UNCHANGED docs
        PROVE  Consistent'
    BY <1>4, <2>3, <2>5 DEF TrainerPc
  <2> HIDE DEF Closed
  <2>6. QED
    BY <1>7, <2>1, <2>2, <2>4, <2>5
<1>8. QED
  BY <1>5, <1>6, <1>7

\* The end of a process: the next attempt, or the end of its execution.
LEMMA EndStep ==
  ASSUME IInv, NEW e \in Executions, ExitTrainer(e) \/ StopExecution(e), UNCHANGED request
  PROVE  Consistent'
<1>1. Is(e, "active") /\ UNCHANGED docs
  BY DEF ExitTrainer, StopExecution, TaskSucceeds, TaskFails, CancellationTakesEffect
<1>2. TrainerMoves(e, "off")
  BY DEF ExitTrainer, StopExecution, TrainerOff, TrainerMoves, IInv, TypeOK, TrainerTypeOK
<1>3. /\ execution'[e].state \in {"active"} \union Over
      /\ execution'[e].cancelling = execution[e].cancelling
      /\ \A f \in Executions : f # e => execution'[f] = execution[f] /\ Is(f, "unused") /\ At(f, "off")
  BY <1>1 DEF ExitTrainer, StopExecution, TaskSucceeds, TaskFails, CancellationTakesEffect, IInv, Consistent, OneExecution, TrainersAreNamed, Is, Over, TypeOK, CloudRunTypeOK, ExecutionRecord
<1>4. Monotone
  BY <1>1, <1>3 DEF Monotone, Is, Started, Over
<1>5. RequestsRememberRight'
  BY <1>4, OthersRemember DEF RequestsRememberRight
<1>6. DocumentsAreJoint' /\ DocumentsAgree'
  BY <1>1 DEF IInv, Consistent, DocumentsAreJoint, DocumentsAgree
<1>7. OnePermission'
  <2>1. (control.execution_name # NoExecution => Started(control.execution_name))'
    BY <1>1, <1>4 DEF IInv, Consistent, OnePermission, Monotone, TypeOK, StoreTypeOK, SubmissionControl
  <2>2. \A f \in Executions : Is(f, "unused") => Is(f, "unused")'
    BY <1>1, <1>3 DEF Is
  <2>3. QED
    BY <1>1, <1>4, <2>1, <2>2, PermissionStays DEF In
<1>8. OneExecution'
  BY <1>3 DEF OneExecution, Is
<1>9. TrainersAreNamed' /\ NothingTrainsForAClosedResult'
  BY <1>2, <1>3 DEF TrainersAreNamed, NothingTrainsForAClosedResult, TrainerMoves, At, Working
<1>10. CancelledMeansStopped'
  BY <1>1 DEF IInv, Consistent, CancelledMeansStopped, Is, Over
<1>11. RequestedWasAccepted'
  BY <1>1, <1>4, AcceptedStays
<1>12. QED
  BY <1>5, <1>6, <1>7, <1>8, <1>9, <1>10, <1>11 DEF Consistent

\* A call of run_job or cancel_execution takes effect.
LEMMA CallStep ==
  ASSUME IInv, Calls
  PROVE  Consistent'
<1>1. PICK e \in Executions : AcceptRunJob(e) \/ RejectRunJob(e) \/ LateCancellationArrives(e)
  BY DEF Calls
<1>2. UNCHANGED <<docs, request, trainer>>
  BY DEF Calls
<1>3. /\ \A f \in Executions : f # e => execution'[f] = execution[f]
      /\ \/ execution'[e].state = execution[e].state
         \/ Is(e, "requested") /\ execution'[e].state \in {"active", "rejected"}
      /\ execution[e].cancelling => execution'[e].cancelling
  BY <1>1 DEF AcceptRunJob, RejectRunJob, LateCancellationArrives, Is, IInv, TypeOK, CloudRunTypeOK, ExecutionRecord
<1>4. Monotone
  BY <1>2, <1>3 DEF Monotone, Is, Started, Over
<1>5. RequestsRememberRight'
  BY <1>2, <1>4, OthersRemember DEF RequestsRememberRight
<1>6. CancelledMeansStopped'
  BY <1>2, <1>3 DEF IInv, Consistent, CancelledMeansStopped, Is, Over
<1>7. /\ \A f \in Executions :
           /\ Is(f, "unused") => Is(f, "unused")'
           /\ Is(f, "active") => Is(f, "active")'
           /\ execution'[f].state = execution[f].state \/ Is(f, "requested")
      /\ \A r \in Requests : In(r, "run_job")' => In(r, "run_job")
  BY <1>2, <1>3 DEF Is, In
<1>8. QED
  BY <1>2, <1>4, <1>5, <1>6, <1>7, CloudFrame

\* The age of a start time matters to no property of safety.
LEMMA TimerStep ==
  ASSUME IInv, Timers
  PROVE  Consistent'
<1>1. /\ DocumentsStayRight /\ UNCHANGED <<result, request, execution, trainer>>
      /\ control'.execution_name = control.execution_name
      /\ control'.dispatch_state = control.dispatch_state
      /\ control'.cancellation_state = control.cancellation_state
  BY LeaseTransactions DEF Timers, DispatchTimeoutElapses, CancellationLeaseElapses, IInv, TypeOK, StoreTypeOK, SubmissionControl
<1>2. Monotone
  BY <1>1 DEF Monotone, Is, Started
<1>3. RequestsRememberRight'
  BY <1>1, <1>2, OthersRemember DEF RequestsRememberRight
<1>4. OnePermission' /\ OneExecution' /\ TrainersAreNamed' /\ NothingTrainsForAClosedResult'
  BY <1>1 DEF IInv, Consistent, OnePermission, OneExecution, TrainersAreNamed, NothingTrainsForAClosedResult, In, Is, At, Started, Terminal
<1>5. CancelledMeansStopped' /\ RequestedWasAccepted'
  BY <1>1, <1>2, StoppedStays, AcceptedStays
<1>6. QED
  BY <1>1, <1>3, <1>4, <1>5 DEF Consistent, DocumentsStayRight

------------------------------------------------------------------------------
(* The invariant.                                                          *)

\* It holds before anything is submitted.
LEMMA InitConsistent == Init => IInv
<1> SUFFICES ASSUME Init
             PROVE  IInv
  OBVIOUS
<1>1. TypeOK
  BY InitTypes
<1>2. /\ \A e \in Executions : Is(e, "unused") /\ At(e, "off")
      /\ \A r \in Requests : In(r, "idle")
      /\ control.dispatch_state = "absent" /\ control.execution_name = NoExecution
      /\ control.cancellation_state = "idle"
      /\ result.status = "absent"
  BY DEF Init, CloudRunInit, StoreInit, RequestInit, TrainerInit, TrainerOff, Idle, Is, At, In
<1>3. DocumentsAreJoint /\ DocumentsAgree /\ OnePermission /\ OneExecution
  BY <1>2 DEF DocumentsAreJoint, DocumentsAgree, OnePermission, OneExecution, Is, In
<1>4. RequestsRememberRight
  BY <1>2 DEF RequestsRememberRight, RemembersRight, In, OnNamedExecution
<1>5. TrainersAreNamed /\ CancelledMeansStopped /\ RequestedWasAccepted /\ NothingTrainsForAClosedResult
  BY <1>2 DEF TrainersAreNamed, CancelledMeansStopped, RequestedWasAccepted, NothingTrainsForAClosedResult, At, Working, Terminal, TerminalStatuses
<1>6. QED
  BY <1>1, <1>3, <1>4, <1>5 DEF IInv, Consistent

\* Every step keeps it.
LEMMA StepConsistent == IInv /\ [Next]_vars => IInv'
<1> SUFFICES ASSUME IInv, [Next]_vars
             PROVE  IInv'
  OBVIOUS
<1>1. TypeOK'
  BY StepTypes DEF IInv
<1>2. CASE Server
  BY <1>1, <1>2, ServerStep DEF IInv
<1>3. CASE Training
  BY <1>1, <1>3, TrainerMarkDispatchedStep, TrainerReadStep, TrainerWriteStep, EndStep DEF Training, TrainerStep, IInv
<1>4. CASE Calls
  BY <1>1, <1>4, CallStep DEF IInv
<1>5. CASE Timers
  BY <1>1, <1>5, TimerStep DEF IInv
<1>6. CASE UNCHANGED vars
  BY <1>1, <1>6 DEF IInv, Consistent, DocumentsAreJoint, DocumentsAgree, OnePermission, OneExecution, RequestsRememberRight, RemembersRight, TrainersAreNamed, CancelledMeansStopped, RequestedWasAccepted, NothingTrainsForAClosedResult, Is, In, At, Started, Terminal
<1>7. QED
  BY <1>2, <1>3, <1>4, <1>5, <1>6 DEF Next

\* IInv is an invariant of the specification.
THEOREM Invariance == Spec => []IInv
BY InitConsistent, StepConsistent, PTL DEF Spec
==============================================================================
