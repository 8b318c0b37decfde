------------------------------- MODULE ApiServer -------------------------------
(***************************************************************************)
(* The API server's requests about one submission, each in a thread of its *)
(* own and possibly in another instance of the service:                    *)
(*                                                                         *)
(*   POST /submissions               by Submitters   (SubmissionWorkflow)  *)
(*   GET  /results/{id}              by Pollers      (reconciliation)      *)
(*   POST /submissions/{id}/cancel   by Cancellers   (cancellations.py)    *)
(*                                                                         *)
(* Every read of a document, every transaction and every Cloud Run call is *)
(* a step of its own; request[r] is where request r is and what it         *)
(* remembers of what it read.  A request slot is used again once its       *)
(* request has been answered.  Only requests that bear the right token are *)
(* modelled: any other is refused before it changes anything.  Events are  *)
(* published after the transition is committed and failures to publish are *)
(* swallowed, so they leave no trace here.                                 *)
(***************************************************************************)
EXTENDS SubmissionStore

CONSTANTS
  Submitters, Pollers,
  PersistAttempts   \* EXECUTION_METADATA_WRITE_ATTEMPTS

Requests == Submitters \union Pollers \union Cancellers

ASSUME RequestsAssumption ==
  /\ Submitters \intersect Pollers = {}
  /\ Submitters \intersect Cancellers = {}
  /\ Pollers \intersect Cancellers = {}
ASSUME PersistAttemptsAssumption == PersistAttempts \in Nat \ {0}

VARIABLE request

RequestPc ==
  {"idle",
   "claim_dispatch", "run_job", "await_run_job", "persist_name",
   "mark_ambiguous", "record_failure",
   "reconcile", "refetch", "read_control", "read_outcome", "apply_cancelled",
   "apply_failed",
   "read_result", "cancel_pending", "claim_cancellation", "cancel_rpc",
   "await_cancel_rpc", "release", "mark_requested", "await_operation",
   "record_cancelling", "record_stopped", "record_cancelled"}

Request ==
  [pc          : RequestPc,
   name        : Executions \union {NoExecution},  \* the execution it works on
   saw_pending : BOOLEAN,   \* the control it read was PENDING
   tries       : 0 .. PersistAttempts]

RequestTypeOK == request \in [Requests -> Request]

Idle == [pc |-> "idle", name |-> NoExecution, saw_pending |-> FALSE, tries |-> 0]
RequestInit == request = [r \in Requests |-> Idle]

In(r, pc) == request[r].pc = pc
Goto(r, pc) == request' = [request EXCEPT ![r].pc = pc]
GotoWith(r, pc, e) == request' = [request EXCEPT ![r].pc = pc, ![r].name = e]
Answer(r) == request' = [request EXCEPT ![r] = Idle]

\* Dispatching is part of POST and of the reconciliation of a GET, which
\* goes on to read the result again.
Dispatched(r) == IF r \in Pollers THEN Goto(r, "refetch") ELSE Answer(r)

------------------------------------------------------------------------------
(* POST /submissions and the dispatch both it and GET perform.             *)

Submit(r) ==
  /\ In(r, "idle")
  /\ Accept
  /\ Goto(r, "claim_dispatch")
  /\ UNCHANGED execution

DispatchClaim(r) ==
  /\ In(r, "claim_dispatch")
  /\ \/ ClaimDispatch /\ Goto(r, "run_job")
     \/ ~CanClaimDispatch /\ UNCHANGED docs /\ Dispatched(r)
  /\ UNCHANGED execution

RunJob(r) ==
  /\ In(r, "run_job")
  /\ \E e \in Executions : CallRunJob(e) /\ GotoWith(r, "await_run_job", e)
  /\ UNCHANGED docs

\* A rejection is definitive; a lost or unusable response says nothing about
\* whether the execution exists or will.
RunJobReturns(r) ==
  LET e == request[r].name IN
  /\ In(r, "await_run_job")
  /\ \/ /\ Started(e)
        /\ request' = [request EXCEPT ![r].pc = "persist_name",
                                      ![r].tries = PersistAttempts]
     \/ Is(e, "rejected") /\ Goto(r, "record_failure")
     \/ MayFail("run_job") /\ Goto(r, "mark_ambiguous")
  /\ UNCHANGED <<docs, execution>>

\* Mutant: one try too many.
MutPersistExecutionName(r) ==
  /\ In(r, "persist_name")
  /\ MayFail("firestore")
  /\ UNCHANGED <<docs, execution>>
  /\ IF request[r].tries >= 0
       THEN request' = [request EXCEPT ![r].tries = @ - 1]
       ELSE Goto(r, "mark_ambiguous")

\* _persist_execution_name: an exception costs one try, and after the last
\* one the dispatch is marked ambiguous.
PersistExecutionName(r) ==
  LET e == request[r].name IN
  /\ In(r, "persist_name")
  /\ \/ MarkDispatched(e) /\ Dispatched(r)
     \/ ~CanMarkDispatched(e) /\ UNCHANGED docs /\ Dispatched(r)
     \/ /\ MayFail("firestore")
        /\ UNCHANGED docs
        /\ IF request[r].tries > 1
             THEN request' = [request EXCEPT ![r].tries = @ - 1]
             ELSE Goto(r, "mark_ambiguous")
  /\ UNCHANGED execution

MarkAmbiguous(r) ==
  /\ In(r, "mark_ambiguous")
  /\ \/ MarkDispatchAmbiguous
     \/ control.dispatch_state # "dispatching" /\ UNCHANGED docs
     \/ MayFail("firestore") /\ UNCHANGED docs
  /\ Dispatched(r)
  /\ UNCHANGED execution

RecordFailure(r) ==
  /\ In(r, "record_failure")
  /\ \/ FailDispatchIfQueued
     \/ ~CanFailDispatch /\ UNCHANGED docs
     \/ MayFail("firestore") /\ UNCHANGED docs
  /\ Dispatched(r)
  /\ UNCHANGED execution

------------------------------------------------------------------------------
(* GET /results/{id}: reconcile the dispatch of a queued result, then the  *)
(* result with its execution.                                              *)

GetResult(r) ==
  /\ In(r, "idle")
  /\ \/ result.status = "queued" /\ Goto(r, "reconcile")
     \/ result.status \in ActiveStatuses \ {"queued"} /\ Goto(r, "read_control")
  /\ UNCHANGED <<docs, execution>>

\* Mutant: a dispatch whose confirmation timed out is left alone.
MutReconcileDispatch(r) ==
  /\ In(r, "reconcile")
  /\ Goto(r, IF control.dispatch_state = "pending" THEN "claim_dispatch" ELSE "refetch")
  /\ UNCHANGED <<docs, execution>>

\* SubmissionWorkflow.reconcile, from the control it fetches to the step it
\* chooses.  The timeout is judged on that control: while its dispatch state
\* lasts its start time does not change.
ReconcileDispatch(r) ==
  LET unconfirmed(state) ==
        /\ control.execution_name = NoExecution
        /\ control.dispatch_state = state
      waited == control.dispatch_started # "fresh"
      next == CASE unconfirmed("pending") -> "claim_dispatch"
                [] unconfirmed("dispatching") /\ waited -> "mark_ambiguous"
                [] unconfirmed("ambiguous") /\ waited -> "record_failure"
                [] OTHER -> "refetch"
  IN /\ In(r, "reconcile")
     /\ Goto(r, next)
     /\ UNCHANGED <<docs, execution>>

Refetch(r) ==
  /\ In(r, "refetch")
  /\ IF Active THEN Goto(r, "read_control") ELSE Answer(r)
  /\ UNCHANGED <<docs, execution>>

ReadControl(r) ==
  /\ In(r, "read_control")
  /\ IF control.execution_name = NoExecution
       THEN Answer(r)
       ELSE GotoWith(r, "read_outcome", control.execution_name)
  /\ UNCHANGED <<docs, execution>>

\* Mutant: failure is looked for before cancellation.
MutReadOutcome(r) ==
  /\ In(r, "read_outcome")
  /\ IF execution[request[r].name].state \in Over THEN Goto(r, "apply_failed") ELSE Answer(r)
  /\ UNCHANGED <<docs, execution>>

\* read_execution_outcome: an execution that ended without a terminal result
\* has failed, whatever its exit code.
ReadOutcome(r) ==
  LET e == request[r].name IN
  /\ In(r, "read_outcome")
  /\ \/ Is(e, "cancelled") /\ Goto(r, "apply_cancelled")
     \/ execution[e].state \in {"failed", "succeeded"} /\ Goto(r, "apply_failed")
     \/ execution[e].state \notin Over /\ Answer(r)
  /\ UNCHANGED <<docs, execution>>

ApplyOutcome(r) ==
  /\ \/ /\ In(r, "apply_cancelled")
        /\ TransitionPreservingProgress(ActiveStatuses, "cancelled", FALSE)
     \/ /\ In(r, "apply_failed")
        /\ TransitionPreservingProgress(ActiveStatuses, "failed", TRUE)
     \/ /\ In(r, "apply_cancelled") \/ In(r, "apply_failed")
        /\ ~Active
        /\ UNCHANGED docs
  /\ Answer(r)
  /\ UNCHANGED execution

------------------------------------------------------------------------------
(* POST /submissions/{id}/cancel.                                          *)

\* The control and the result are two reads, and the decision rests on both.
CancelReadControl(r) ==
  /\ In(r, "idle")
  /\ control.dispatch_state # "absent"
  /\ request' = [request EXCEPT
       ![r].pc = "read_result",
       ![r].name = control.execution_name,
       ![r].saw_pending = (control.dispatch_state = "pending")]
  /\ UNCHANGED <<docs, execution>>

CancelReadResult(r) ==
  LET pending == result.status = "queued" /\ request[r].saw_pending
      exact == Active /\ request[r].name # NoExecution
  IN /\ In(r, "read_result")
     /\ \/ pending /\ Goto(r, "cancel_pending")
        \/ ~pending /\ exact /\ Goto(r, "claim_cancellation")
        \/ ~pending /\ ~exact /\ Answer(r)
     /\ UNCHANGED <<docs, execution>>

CancelPending(r) ==
  /\ In(r, "cancel_pending")
  /\ CancelPendingDispatch \/ (~CanCancelPending /\ UNCHANGED docs)
  /\ Answer(r)
  /\ UNCHANGED execution

CancellationClaim(r) ==
  /\ In(r, "claim_cancellation")
  /\ \/ ClaimCancellation(r) /\ Goto(r, "cancel_rpc")
     \/ ~CanClaimCancellation /\ UNCHANGED docs /\ Answer(r)
  /\ UNCHANGED execution

\* The owner of the lease calls Cloud Run; nothing bounds how long the call
\* takes to leave or to return.
RequestCancellation(r) ==
  /\ In(r, "cancel_rpc")
  /\ Goto(r, "await_cancel_rpc")
  /\ UNCHANGED <<docs, execution>>

\* Mutant: a lost answer is taken for an accepted cancellation.
MutCancelRpcReturns(r) ==
  LET e == request[r].name IN
  /\ In(r, "await_cancel_rpc")
  /\ \/ AcceptCancellation(e)
     \/ MayFail("cancel") /\ UNCHANGED execution
  /\ Goto(r, "mark_requested")
  /\ UNCHANGED docs

CancelRpcReturns(r) ==
  LET e == request[r].name IN
  /\ In(r, "await_cancel_rpc")
  /\ \/ AcceptCancellation(e) /\ Goto(r, "mark_requested")
     \/ MayRejectCancellation(e) /\ Goto(r, "release") /\ UNCHANGED execution
     \/ /\ MayFail("cancel")
        /\ Goto(r, "record_cancelling")
        /\ \/ UNCHANGED execution
           \/ AcceptCancellation(e)
           \/ DelayCancellation(e)
  /\ UNCHANGED docs

ReleaseLease(r) ==
  /\ In(r, "release")
  /\ \/ ReleaseCancellation(r)
     \/ ~OwnsCancellation(r, {"requesting", "requested"}) /\ UNCHANGED docs
  /\ Answer(r)
  /\ UNCHANGED execution

MarkRequested(r) ==
  /\ In(r, "mark_requested")
  /\ \/ MarkCancellationRequested(r) /\ Goto(r, "await_operation")
     \/ ~OwnsCancellation(r, {"requesting"}) /\ UNCHANGED docs /\ Answer(r)
  /\ UNCHANGED execution

\* Mutant: a wait that times out counts as a stopped execution.
MutOperationReturns(r) ==
  /\ In(r, "await_operation")
  /\ Goto(r, "record_stopped")
  /\ UNCHANGED <<docs, execution>>

\* operation.result waits CANCELLATION_WAIT_SECONDS for the execution to end.
OperationReturns(r) ==
  /\ In(r, "await_operation")
  /\ \/ Is(request[r].name, "cancelled") /\ Goto(r, "record_stopped")
     \/ Goto(r, "record_cancelling")
  /\ UNCHANGED <<docs, execution>>

\* _record_pending_cancellation.  The operation that succeeded has one more
\* transition to write, unless the result is terminal.
RecordCancelling(r) ==
  /\ In(r, "record_cancelling") \/ In(r, "record_stopped")
  /\ \/ TransitionPreservingProgress(ActiveStatuses \ {"cancelling"}, "cancelling", FALSE)
     \/ result.status \notin ActiveStatuses \ {"cancelling"} /\ UNCHANGED docs
  /\ IF In(r, "record_stopped") /\ Active
       THEN Goto(r, "record_cancelled")
       ELSE Answer(r)
  /\ UNCHANGED execution

RecordCancelled(r) ==
  /\ In(r, "record_cancelled")
  /\ \/ TransitionPreservingProgress({"cancelling"}, "cancelled", FALSE)
     \/ result.status # "cancelling" /\ UNCHANGED docs
  /\ Answer(r)
  /\ UNCHANGED execution

------------------------------------------------------------------------------

\* The instance dies, or an exception ends the request (a 500 or 503).
RequestDies(r) ==
  /\ ~In(r, "idle")
  /\ MayFail("request")
  /\ Answer(r)
  /\ UNCHANGED <<docs, execution>>

DispatchStep(r) ==
  \/ DispatchClaim(r)
  \/ RunJob(r)
  \/ RunJobReturns(r)
  \/ PersistExecutionName(r)
  \/ MarkAmbiguous(r)
  \/ RecordFailure(r)

PollerStep(r) ==
  \/ GetResult(r)
  \/ ReconcileDispatch(r)
  \/ Refetch(r)
  \/ ReadControl(r)
  \/ ReadOutcome(r)
  \/ ApplyOutcome(r)
  \/ DispatchStep(r)

CancellerStep(r) ==
  \/ CancelReadControl(r)
  \/ CancelReadResult(r)
  \/ CancelPending(r)
  \/ CancellationClaim(r)
  \/ RequestCancellation(r)
  \/ CancelRpcReturns(r)
  \/ ReleaseLease(r)
  \/ MarkRequested(r)
  \/ OperationReturns(r)
  \/ RecordCancelling(r)
  \/ RecordCancelled(r)
==============================================================================
