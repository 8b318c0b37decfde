--------------------------- MODULE SubmissionStore ---------------------------
(***************************************************************************)
(* The two Firestore documents of one submission and the transactions the  *)
(* API server and the trainer apply to them.                               *)
(*                                                                         *)
(*   control  the private part of submissions/{id}: who dispatches the     *)
(*            training, under which execution name, and who owns the       *)
(*            cancellation of that execution;                              *)
(*   result   the public document results/{id}.                            *)
(*                                                                         *)
(* A repository method is a guard (what its transaction reads) and an      *)
(* update (what it commits).  A transaction is one atomic step, as         *)
(* _retry_aborted and @firestore.transactional expect of Firestore.        *)
(***************************************************************************)
EXTENDS CloudRun

CONSTANTS
  NoExecution,  \* execution_name is None
  Cancellers,   \* cancelling requests; a lease token is the request it was made for
  NoLease,      \* cancellation_lease_token is None
  TotalSteps    \* training.timesteps, in progress reports

ASSUME NoExecutionAssumption == NoExecution \notin Executions
ASSUME NoLeaseAssumption == NoLease \notin Cancellers
ASSUME TotalStepsAssumption == TotalSteps \in Nat \ {0}

VARIABLES control, result

docs == <<control, result>>

------------------------------------------------------------------------------
(* The documents.  "absent" is a document that has not been created.       *)

ActiveStatuses == {"queued", "starting", "running", "cancelling"}
TerminalStatuses == {"completed", "failed", "cancelled"}
ResultStatus == ActiveStatuses \union TerminalStatuses

DispatchState ==
  {"pending", "dispatching", "ambiguous", "dispatched", "cancelled", "failed"}
UnconfirmedDispatch == {"dispatching", "ambiguous"}

CancellationState == {"idle", "requesting", "requested"}

\* How old a persisted start time is, seen from the only question the code
\* asks of it: has its timeout elapsed since?
Timer == {"unset", "fresh", "expired"}

SubmissionControl ==
  [dispatch_state     : DispatchState \union {"absent"},
   dispatch_started   : Timer,
   execution_name     : Executions \union {NoExecution},
   cancellation_state : CancellationState,
   cancel_started     : Timer,
   lease_token        : Cancellers \union {NoLease}]

\* The bundle is told apart by its status; the error by whether there is one.
ResultDocument ==
  [status        : ResultStatus \union {"absent"},
   current_step  : 0 .. TotalSteps,
   error         : BOOLEAN,
   result_bundle : {"none", "completed", "failed"}]

StoreTypeOK ==
  /\ control \in SubmissionControl
  /\ result \in ResultDocument

StoreInit ==
  /\ control = [dispatch_state     |-> "absent",
                dispatch_started   |-> "unset",
                execution_name     |-> NoExecution,
                cancellation_state |-> "idle",
                cancel_started     |-> "unset",
                lease_token        |-> NoLease]
  /\ result = [status |-> "absent", current_step |-> 0,
               error |-> FALSE, result_bundle |-> "none"]

Accepted == result.status # "absent"
Active == result.status \in ActiveStatuses
Terminal == result.status \in TerminalStatuses

\* build_result_update: an update always writes all four fields, so a null
\* error or bundle clears the stored one.
ResultUpdate(status, step, error, bundle) ==
  [status |-> status, current_step |-> step,
   error |-> error, result_bundle |-> bundle]

------------------------------------------------------------------------------
(* FirestoreSubmissionRepository of the API server.                        *)

\* accept: one batch creates both documents, or finds the ones an earlier
\* request with the same key and content created.
Accept ==
  \/ /\ ~Accepted
     /\ control' = [control EXCEPT !.dispatch_state = "pending"]
     /\ result' = ResultUpdate("queued", 0, FALSE, "none")
  \/ /\ Accepted
     /\ UNCHANGED docs

\* Mutant: the claim forgets to compare the dispatch state.
MutCanClaimDispatch ==
  /\ control.execution_name = NoExecution
  /\ result.status = "queued"

CanClaimDispatch ==
  /\ control.dispatch_state = "pending"
  /\ control.execution_name = NoExecution
  /\ result.status = "queued"

ClaimDispatch ==
  /\ CanClaimDispatch
  /\ control' = [control EXCEPT !.dispatch_state = "dispatching",
                                !.dispatch_started = "fresh"]
  /\ UNCHANGED result

\* Mutant: a dispatch that a request has claimed is cancelled like a pending one.
MutCanCancelPending ==
  /\ control.dispatch_state \in {"pending", "dispatching"}
  /\ result.status = "queued"

CanCancelPending ==
  /\ control.dispatch_state = "pending"
  /\ result.status = "queued"

\* cancel_pending_dispatch closes the dispatch and the result together.
CancelPendingDispatch ==
  /\ CanCancelPending
  /\ control' = [control EXCEPT !.dispatch_state = "cancelled"]
  /\ result' = ResultUpdate("cancelled", result.current_step, FALSE, "none")

\* mark_dispatched, of the server and of the trainer: it never reopens a
\* closed dispatch, and repeating it is a success.
AlreadyDispatchedAs(e) ==
  /\ control.dispatch_state = "dispatched"
  /\ control.execution_name = e

CanMarkDispatched(e) ==
  \/ AlreadyDispatchedAs(e)
  \/ control.dispatch_state \in UnconfirmedDispatch

MarkDispatched(e) ==
  /\ CanMarkDispatched(e)
  /\ control' = [control EXCEPT !.dispatch_state = "dispatched",
                                !.execution_name = e]
  /\ UNCHANGED result

\* mark_dispatch_ambiguous restarts the confirmation timeout.
MarkDispatchAmbiguous ==
  /\ control.dispatch_state = "dispatching"
  /\ control' = [control EXCEPT !.dispatch_state = "ambiguous",
                                !.dispatch_started = "fresh"]
  /\ UNCHANGED result

CanFailDispatch ==
  /\ control.dispatch_state \in UnconfirmedDispatch
  /\ result.status = "queued"

\* Mutant: the result is left to a later transaction.
MutFailDispatchIfQueued ==
  /\ CanFailDispatch
  /\ control' = [control EXCEPT !.dispatch_state = "failed"]
  /\ UNCHANGED result

FailDispatchIfQueued ==
  /\ CanFailDispatch
  /\ control' = [control EXCEPT !.dispatch_state = "failed"]
  /\ result' = ResultUpdate("failed", 0, TRUE, "none")

\* claim_cancellation: an intent that is already REQUESTED is final, one that
\* is REQUESTING can be taken over once its lease has run out.
CanClaimCancellation ==
  /\ control.cancellation_state # "requested"
  /\ control.execution_name # NoExecution
  /\ Active
  /\ ~ /\ control.cancellation_state = "requesting"
       /\ control.cancel_started = "fresh"

ClaimCancellation(token) ==
  /\ CanClaimCancellation
  /\ control' = [control EXCEPT !.cancellation_state = "requesting",
                                !.cancel_started = "fresh",
                                !.lease_token = token]
  /\ UNCHANGED result

\* Mutant: the token is not compared.
MutOwnsCancellation(token, states) == control.cancellation_state \in states

OwnsCancellation(token, states) ==
  /\ control.cancellation_state \in states
  /\ control.lease_token = token

MarkCancellationRequested(token) ==
  /\ OwnsCancellation(token, {"requesting"})
  /\ control' = [control EXCEPT !.cancellation_state = "requested"]
  /\ UNCHANGED result

ReleaseCancellation(token) ==
  /\ OwnsCancellation(token, {"requesting", "requested"})
  /\ control' = [control EXCEPT !.cancellation_state = "idle",
                                !.cancel_started = "unset",
                                !.lease_token = NoLease]
  /\ UNCHANGED result

------------------------------------------------------------------------------
(* FirestoreResultRepository: compare-and-set on the status.               *)

\* transition_if_status, whose caller supplies the whole progress.
TransitionIfStatus(expected, status, step, error, bundle) ==
  /\ result.status \in expected
  /\ result' = ResultUpdate(status, step, error, bundle)
  /\ UNCHANGED control

\* Mutant: the counters start again from zero.
MutTransitionPreservingProgress(expected, status, error) ==
  /\ result.status \in expected
  /\ result' = ResultUpdate(status, 0, error, "none")
  /\ UNCHANGED control

\* transition_status_preserving_progress, which reads the counters it keeps.
TransitionPreservingProgress(expected, status, error) ==
  /\ result.status \in expected
  /\ result' = ResultUpdate(status, result.current_step, error, "none")
  /\ UNCHANGED control

------------------------------------------------------------------------------
(* Time passes for the two persisted start times while the code still      *)
(* compares them with now: DISPATCH_CONFIRMATION_TIMEOUT (five minutes) and *)
(* CANCELLATION_LEASE (two minutes).                                       *)

DispatchTimeoutElapses ==
  /\ control.dispatch_state \in UnconfirmedDispatch
  /\ control.dispatch_started = "fresh"
  /\ control' = [control EXCEPT !.dispatch_started = "expired"]
  /\ UNCHANGED result

CancellationLeaseElapses ==
  /\ control.cancellation_state = "requesting"
  /\ control.cancel_started = "fresh"
  /\ control' = [control EXCEPT !.cancel_started = "expired"]
  /\ UNCHANGED result
==============================================================================
