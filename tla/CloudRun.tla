------------------------------- MODULE CloudRun -------------------------------
(***************************************************************************)
(* Cloud Run as the code under src/ uses it (external): run_job creates an *)
(* execution of the training job, cancel_execution asks for its end, and   *)
(* get_execution tells how it ended.  An execution is one task; a task     *)
(* that exits with an error is started again until its attempts are used   *)
(* up, because the deployment keeps Cloud Run's default of retries.        *)
(*                                                                         *)
(* The module also says which parts of the platform may fail.              *)
(***************************************************************************)
EXTENDS Naturals

CONSTANTS
  Executions,   \* names Cloud Run may give to executions of the training job
  MaxAttempts,  \* attempts of a task: the first one and its retries
  Faults        \* the kinds of failure that may happen

FaultKinds ==
  {"request",         \* an API request dies: instance lost, or an exception
                      \* of Firestore that its handler does not catch
   "firestore",       \* a Firestore call raises inside a handler that goes on
   "publish",         \* publishing an event to Pub/Sub raises
   "trainer",         \* the trainer container is killed
   "run_job",         \* run_job is rejected, or its response is lost
   "cancel",          \* the same for cancel_execution
   "long_traceback"}  \* the text of a training error exceeds its field

ASSUME MaxAttemptsAssumption == MaxAttempts \in Nat \ {0}
ASSUME FaultsAssumption == Faults \subseteq FaultKinds

VARIABLES
  execution,  \* Cloud Run's record of each execution
  stable      \* TRUE once the platform has stopped failing

MayFail(kind) == ~stable /\ kind \in Faults

\* "requested" is a run_job call on its way; the last three are final.
ExecutionState ==
  {"unused", "requested", "rejected", "active", "succeeded", "failed", "cancelled"}
Over == {"succeeded", "failed", "cancelled"}

ExecutionRecord ==
  [state       : ExecutionState,
   attempt     : 0 .. MaxAttempts,
   cancelling  : BOOLEAN,   \* Cloud Run accepted a cancellation
   late_cancel : BOOLEAN]   \* a cancel_execution call is on its way, its caller gone

CloudRunTypeOK ==
  /\ execution \in [Executions -> ExecutionRecord]
  /\ stable \in BOOLEAN

CloudRunInit ==
  /\ execution = [e \in Executions |->
       [state |-> "unused", attempt |-> 0, cancelling |-> FALSE, late_cancel |-> FALSE]]
  /\ stable = FALSE

Is(e, state) == execution[e].state = state
Started(e) == execution[e].state \in {"active"} \union Over

\* The server sends run_job; what becomes of the call is decided later.
CallRunJob(e) ==
  /\ Is(e, "unused")
  /\ execution' = [execution EXCEPT ![e].state = "requested"]

AcceptRunJob(e) ==
  /\ Is(e, "requested")
  /\ execution' = [execution EXCEPT ![e].state = "active", ![e].attempt = 1]

RejectRunJob(e) ==
  /\ Is(e, "requested")
  /\ MayFail("run_job")
  /\ execution' = [execution EXCEPT ![e].state = "rejected"]

AcceptCancellation(e) ==
  /\ Is(e, "active")
  /\ execution' = [execution EXCEPT ![e].cancelling = TRUE]

MayRejectCancellation(e) == ~Is(e, "active") \/ MayFail("cancel")

DelayCancellation(e) ==
  execution' = [execution EXCEPT ![e].late_cancel = TRUE]

\* A delayed call arrives; at an execution that is over it changes nothing.
LateCancellationArrives(e) ==
  /\ execution[e].late_cancel
  /\ execution' = [execution EXCEPT ![e].late_cancel = FALSE,
                                    ![e].cancelling = @ \/ Is(e, "active")]

CancellationTakesEffect(e) ==
  /\ Is(e, "active")
  /\ execution[e].cancelling
  /\ execution' = [execution EXCEPT ![e].state = "cancelled"]

TaskSucceeds(e) ==
  /\ Is(e, "active")
  /\ execution' = [execution EXCEPT ![e].state = "succeeded"]

TaskFails(e) ==
  /\ Is(e, "active")
  /\ IF execution[e].attempt < MaxAttempts
       THEN execution' = [execution EXCEPT ![e].attempt = @ + 1]
       ELSE execution' = [execution EXCEPT ![e].state = "failed"]

\* From some point on nothing fails any more.  Only liveness needs it.
Stabilise ==
  /\ ~stable
  /\ stable' = TRUE
  /\ UNCHANGED execution
==============================================================================
