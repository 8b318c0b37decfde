--------------------------- MODULE TrainingLifecycle ---------------------------
(***************************************************************************)
(* One submission from its acceptance to its terminal result: the API      *)
(* server's requests, Cloud Run and the trainer over the two documents.    *)
(***************************************************************************)
EXTENDS ApiServer, Trainer

vars == <<control, result, request, execution, trainer, stable>>

Init ==
  /\ CloudRunInit
  /\ StoreInit
  /\ RequestInit
  /\ TrainerInit

Server ==
  /\ \/ \E r \in Submitters : Submit(r) \/ DispatchStep(r)
     \/ \E r \in Pollers : PollerStep(r)
     \/ \E r \in Cancellers : CancellerStep(r)
     \/ \E r \in Requests : RequestDies(r)
  /\ UNCHANGED <<trainer, stable>>

Training ==
  /\ \E e \in Executions : TrainerStep(e) \/ KillTrainer(e) \/ StopExecution(e)
  /\ UNCHANGED <<request, stable>>

Calls ==
  /\ \E e \in Executions :
       AcceptRunJob(e) \/ RejectRunJob(e) \/ LateCancellationArrives(e)
  /\ UNCHANGED <<docs, request, trainer, stable>>

Timers ==
  /\ DispatchTimeoutElapses \/ CancellationLeaseElapses
  /\ UNCHANGED <<request, execution, trainer, stable>>

Next == Server \/ Training \/ Calls \/ Timers

Spec == Init /\ [][Next]_vars

------------------------------------------------------------------------------

TypeOK ==
  /\ CloudRunTypeOK
  /\ StoreTypeOK
  /\ RequestTypeOK
  /\ TrainerTypeOK

\* A submission is dispatched to Cloud Run at most once, however its requests
\* fail, repeat and overlap: README.md "never retried as a second Cloud Run
\* execution".
OneExecution ==
  \A e, f \in Executions :
    ~Is(e, "unused") /\ ~Is(f, "unused") => e = f

\* The two documents never contradict each other: a closed dispatch has closed
\* the result, and a result past QUEUED that is still open, or completed,
\* belongs to a dispatch whose execution is known.
DocumentsAgree ==
  /\ control.dispatch_state = "failed" => result.status = "failed"
  /\ control.dispatch_state = "cancelled" => result.status = "cancelled"
  /\ result.status \in {"starting", "running", "cancelling", "completed"} =>
       /\ control.dispatch_state = "dispatched"
       /\ control.execution_name # NoExecution

\* Only the execution that the control names ever trains: one whose dispatch
\* was closed before it could register does not.
OnlyTheNamedExecutionTrains ==
  \A e \in Executions :
    trainer[e].pc \in Working =>
      /\ control.dispatch_state = "dispatched"
      /\ control.execution_name = e

\* A result says CANCELLED only when nothing runs for it and nothing will.
CancelledMeansStopped ==
  result.status = "cancelled" =>
    \A e \in Executions : execution[e].state \in {"unused", "rejected"} \union Over

\* REQUESTED blocks every later cancellation, so it must mean that Cloud Run
\* has accepted one for this execution.
RequestedWasAccepted ==
  control.cancellation_state = "requested" =>
    /\ control.execution_name # NoExecution
    /\ execution[control.execution_name].cancelling

\* A terminal result never changes again, whoever writes last.
TerminalIsFinal == [][Terminal => UNCHANGED result]_vars

\* An unexpired cancellation lease is changed by no request but its owner:
\* README.md "without allowing a stale owner to modify a newer lease".
LeaseIsFenced ==
  [][\A r \in Cancellers :
       /\ control.cancellation_state = "requesting"
       /\ control.lease_token = r
       /\ control.cancel_started = "fresh"
       /\ \/ control'.cancellation_state # "requesting"
          \/ control'.lease_token # r
       => request'[r] # request[r]]_vars

\* The counters of an open result never go back, whoever writes them: the
\* trainer's reports or the server's change of status.
ProgressNeverRollsBack ==
  [][Active /\ Active' => result'.current_step >= result.current_step]_vars

\* Nothing trains for a result that is closed: a retried task that finds its
\* result failed or cancelled ends, and no request closes a result while the
\* trainer is at work.
NothingTrainsForAClosedResult ==
  Terminal => \A e \in Executions : ~At(e, "training") /\ ~At(e, "completing")

\* Claimed by README.md: "Once Cloud Run returns an Operation, the request is
\* reconciled without redispatch".
NoCallAfterAnOperation ==
  [][control.cancellation_state = "requested" =>
       \A r \in Cancellers : ~RequestCancellation(r)]_vars

\* Claimed by README.md: a failed result "also contains a failed result_bundle
\* when the trainer had a validated Scenario Bundle".  A result past QUEUED was
\* written by a trainer that had parsed the scenario.
FailedTrainingHasItsBundle ==
  [][result.status \in {"starting", "running"} /\ result'.status = "failed" =>
       result'.result_bundle = "failed"]_vars

------------------------------------------------------------------------------
(* The inductive invariant behind the safety properties.                   *)

\* Requests past a read of the control that found an execution name.
OnNamedExecution ==
  {"read_outcome", "apply_cancelled", "apply_failed",
   "claim_cancellation", "cancel_rpc", "await_cancel_rpc", "release",
   "mark_requested", "await_operation",
   "record_cancelling", "record_stopped", "record_cancelled"}

\* The documents are created together, and the execution name is there
\* exactly when the dispatch is confirmed.
DocumentsAreJoint ==
  /\ result.status = "absent" <=> control.dispatch_state = "absent"
  /\ control.execution_name # NoExecution <=> control.dispatch_state = "dispatched"
  /\ result.status = "cancelled" => control.dispatch_state \in {"cancelled", "dispatched"}

\* The one permission to call run_job is taken from the pending dispatch by
\* one request and spent by its call.
OnePermission ==
  /\ control.dispatch_state \in {"absent", "pending", "cancelled"} =>
       /\ \A e \in Executions : Is(e, "unused")
       /\ \A r \in Requests : ~In(r, "run_job")
  /\ \A r \in Requests : In(r, "run_job") =>
       /\ \A e \in Executions : Is(e, "unused")
       /\ \A q \in Requests : In(q, "run_job") => q = r
  /\ control.execution_name # NoExecution => Started(control.execution_name)

\* What a request remembers of its execution is still true when it acts on it.
RemembersRight(r) ==
  LET e == request[r].name IN
  /\ In(r, "await_run_job") => e \in Executions /\ ~Is(e, "unused")
  /\ In(r, "persist_name") => e \in Executions /\ Started(e)
  /\ In(r, "read_result") => e \in {NoExecution, control.execution_name}
  /\ request[r].pc \in OnNamedExecution =>
       e # NoExecution /\ e = control.execution_name
  /\ request[r].pc \in {"apply_cancelled", "record_stopped", "record_cancelled"} =>
       Is(e, "cancelled")
  /\ In(r, "apply_failed") => execution[e].state \in {"failed", "succeeded"}
  /\ request[r].pc \in {"mark_requested", "await_operation"} => execution[e].cancelling

RequestsRememberRight == \A r \in Requests : RemembersRight(r)

\* A process runs only for an active execution, and gets past registering
\* only as the named one.
TrainersAreNamed ==
  \A e \in Executions :
    /\ ~At(e, "off") => Is(e, "active")
    /\ trainer[e].pc \in Working \union {"parse", "raising", "raising_unparsed"} =>
         control.execution_name = e

Consistent ==
  /\ DocumentsAreJoint
  /\ DocumentsAgree
  /\ OnePermission
  /\ OneExecution
  /\ RequestsRememberRight
  /\ TrainersAreNamed
  /\ CancelledMeansStopped
  /\ RequestedWasAccepted
  /\ NothingTrainsForAClosedResult

IInv == TypeOK /\ Consistent

\* How far a trainer is tells how far the result has come, and its reports
\* are ahead of the counters of the result it is running.
TrainersAreAhead ==
  \A e \in Executions :
    /\ At(e, "running") => result.status # "queued"
    /\ trainer[e].pc \in {"check_running", "training", "completing"} =>
         result.status \notin {"queued", "starting"}

CountersFollowReports ==
  /\ result.status \in {"queued", "starting"} => result.current_step = 0
  /\ \A e \in Executions :
       At(e, "training") /\ result.status = "running" =>
         result.current_step <= trainer[e].step

PInv == IInv /\ TrainersAreAhead /\ CountersFollowReports

------------------------------------------------------------------------------
(* The lifecycle implements what ResultLifecycle promises.                 *)

Run ==
  IF \E e \in Executions : Is(e, "active") THEN "live"
  ELSE IF \E e \in Executions : execution[e].state \in Over THEN "over"
  ELSE "none"

Promise == INSTANCE ResultLifecycle WITH status <- result.status, run <- Run

\* Every step of the requests, of Cloud Run and of the trainer is a step that
\* the promise to the client allows, or changes nothing the client can see.
KeepsPromise == Promise!Spec

------------------------------------------------------------------------------
(* Liveness.  From some point on the platform does not fail; the container *)
(* runs (Cloud Run's task timeout bounds it), Cloud Run answers run_job,   *)
(* time passes, and a client polls GET /results/{id}.  Nothing is asked of *)
(* the requests that submitted or cancelled: they may stop anywhere.       *)

LiveNext == Next \/ (Stabilise /\ UNCHANGED <<docs, request, trainer>>)

Fairness ==
  /\ WF_vars(Stabilise /\ UNCHANGED <<docs, request, trainer>>)
  /\ \A r \in Pollers : WF_vars(PollerStep(r) /\ UNCHANGED <<trainer, stable>>)
  /\ \A e \in Executions :
       /\ WF_vars(TrainerStep(e) /\ UNCHANGED <<request, stable>>)
       /\ WF_vars(AcceptRunJob(e) /\ UNCHANGED <<docs, request, trainer, stable>>)
  /\ WF_vars(DispatchTimeoutElapses /\ UNCHANGED <<request, execution, trainer, stable>>)

LiveSpec == Init /\ [][LiveNext]_vars /\ Fairness

\* Every accepted submission reaches a terminal result as long as somebody
\* polls it, whatever was lost before.
EventuallyTerminal == Accepted ~> Terminal

\* An execution that Cloud Run has stopped on request is reported CANCELLED,
\* also when the request that stopped it is gone.
StoppedIsReported ==
  (/\ Active
   /\ control.execution_name # NoExecution
   /\ Is(control.execution_name, "cancelled"))
  ~> (result.status = "cancelled")
==============================================================================
