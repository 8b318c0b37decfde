-------------------------------- MODULE Trainer --------------------------------
(***************************************************************************)
(* The trainer: the process that each attempt of a Cloud Run task runs     *)
(* (run_training_job).  trainer[e].pc is where the process of execution e  *)
(* is, "off" while none runs; trainer[e].step is what it reports next.     *)
(***************************************************************************)
EXTENDS SubmissionStore

VARIABLE trainer

\* Inside the try block, from the first write on.
Working == {"starting", "check_starting", "running", "check_running",
            "training", "completing"}
TrainerPc == Working \union
  {"off", "mark_dispatched", "parse", "raising", "raising_unparsed",
   "exit_ok", "exit_error"}

TrainerTypeOK == trainer \in [Executions -> [pc : TrainerPc, step : 0 .. TotalSteps]]

TrainerOff == [pc |-> "off", step |-> 0]
TrainerInit == trainer = [e \in Executions |-> TrainerOff]

At(e, pc) == trainer[e].pc = pc
Proceed(e, pc) == trainer' = [trainer EXCEPT ![e].pc = pc]

StartContainer(e) ==
  /\ Is(e, "active")
  /\ At(e, "off")
  /\ Proceed(e, "mark_dispatched")
  /\ UNCHANGED <<docs, execution>>

\* Mutant: a closed dispatch does not stop the trainer.
MutTrainerMarkDispatched(e) ==
  /\ At(e, "mark_dispatched")
  /\ UNCHANGED execution
  /\ MarkDispatched(e) \/ (~CanMarkDispatched(e) /\ UNCHANGED docs)
  /\ Proceed(e, "parse")

\* A closed dispatch ends the process without an error.  An exception here is
\* outside the try block.
TrainerMarkDispatched(e) ==
  /\ At(e, "mark_dispatched")
  /\ UNCHANGED execution
  /\ \/ MarkDispatched(e) /\ Proceed(e, "parse")
     \/ ~CanMarkDispatched(e) /\ UNCHANGED docs /\ Proceed(e, "exit_ok")
     \/ MayFail("firestore") /\ UNCHANGED docs /\ Proceed(e, "exit_error")

\* Fetch the submission and parse it.  The submission exists: it was just
\* marked.
ParseSubmission(e) ==
  /\ At(e, "parse")
  /\ UNCHANGED <<docs, execution>>
  /\ \/ Proceed(e, "starting")
     \/ Proceed(e, "raising_unparsed")
     \/ MayFail("firestore") /\ Proceed(e, "exit_error")

\* TrainerResultTransitions.write: compare-and-set, then publish.  A failed
\* publication raises although the transition is committed.
Write(e, expected, status, step, bundle, written, closed) ==
  \/ /\ TransitionIfStatus(expected, status, step, FALSE, bundle)
     /\ \/ Proceed(e, written)
        \/ MayFail("publish") /\ Proceed(e, "raising")
  \/ result.status \notin expected /\ UNCHANGED docs /\ Proceed(e, closed)
  \/ MayFail("firestore") /\ UNCHANGED docs /\ Proceed(e, "raising")

\* Mutant: after a refused write training goes on whatever the status is.
MutCheckStatus(e, next) ==
  /\ UNCHANGED docs
  /\ Proceed(e, next)

\* A refused write is followed by a separate read of the status: training
\* goes on only for a result that is being cancelled.
CheckStatus(e, next) ==
  /\ UNCHANGED docs
  /\ \/ Proceed(e, IF result.status = "cancelling" THEN next ELSE "exit_ok")
     \/ MayFail("firestore") /\ Proceed(e, "raising")

WriteStarting(e) ==
  /\ At(e, "starting")
  /\ Write(e, {"queued"}, "starting", 0, "none", "running", "check_starting")
  /\ UNCHANGED execution

CheckStarting(e) ==
  /\ At(e, "check_starting")
  /\ CheckStatus(e, "running")
  /\ UNCHANGED execution

WriteRunning(e) ==
  /\ At(e, "running")
  /\ Write(e, {"starting"}, "running", 0, "none", "training", "check_running")
  /\ UNCHANGED execution

CheckRunning(e) ==
  /\ At(e, "check_running")
  /\ CheckStatus(e, "training")
  /\ UNCHANGED execution

\* report_training_progress: a report that is refused is only dropped.
ReportProgress(e) ==
  /\ At(e, "training")
  /\ trainer[e].step < TotalSteps
  /\ UNCHANGED execution
  /\ LET step == trainer[e].step + 1
         Next(pc) == trainer' = [trainer EXCEPT ![e] = [pc |-> pc, step |-> step]]
     IN \/ /\ TransitionIfStatus({"running"}, "running", step, FALSE, "none")
           /\ \/ Next("training")
              \/ MayFail("publish") /\ Next("raising")
        \/ result.status # "running" /\ UNCHANGED docs /\ Next("training")
        \/ MayFail("firestore") /\ UNCHANGED docs /\ Next("raising")

\* Training and the upload return, or raise.
FinishTraining(e) ==
  /\ At(e, "training")
  /\ \E pc \in {"completing", "raising"} : Proceed(e, pc)
  /\ UNCHANGED <<docs, execution>>

WriteCompleted(e) ==
  /\ At(e, "completing")
  /\ Write(e, {"starting", "running", "cancelling"}, "completed", TotalSteps,
           "completed", "exit_ok", "exit_ok")
  /\ UNCHANGED execution

\* Mutant: the failure is written whatever the status is, so that a failed
\* publication of COMPLETED turns it into FAILED.
MutWriteFailed(e) ==
  /\ At(e, "raising")
  /\ TransitionIfStatus(ResultStatus, "failed", 0, TRUE, "failed")
  /\ Proceed(e, "exit_error")
  /\ UNCHANGED execution

\* The except block: it writes FAILED, with a failed bundle when the scenario
\* was parsed, and raises again whatever becomes of the write.  An error text
\* longer than ErrorReport.message allows makes the block itself raise before
\* it writes.
WriteFailed(e) ==
  /\ \/ /\ At(e, "raising")
        /\ TransitionIfStatus(ActiveStatuses, "failed", 0, TRUE, "failed")
     \/ /\ At(e, "raising_unparsed")
        /\ TransitionIfStatus(ActiveStatuses, "failed", 0, TRUE, "none")
     \/ /\ At(e, "raising") \/ At(e, "raising_unparsed")
        /\ ~Active \/ MayFail("firestore")
        /\ UNCHANGED docs
     \/ /\ At(e, "raising")
        /\ "long_traceback" \in Faults
        /\ UNCHANGED docs
  /\ Proceed(e, "exit_error")
  /\ UNCHANGED execution

\* The container is killed: out of memory, task timeout, lost host.
KillTrainer(e) ==
  /\ ~At(e, "off")
  /\ MayFail("trainer")
  /\ Proceed(e, "exit_error")
  /\ UNCHANGED <<docs, execution>>

ExitTrainer(e) ==
  /\ \/ At(e, "exit_ok") /\ TaskSucceeds(e)
     \/ At(e, "exit_error") /\ TaskFails(e)
  /\ trainer' = [trainer EXCEPT ![e] = TrainerOff]
  /\ UNCHANGED docs

\* Cloud Run stops the container of a cancelled execution.
StopExecution(e) ==
  /\ CancellationTakesEffect(e)
  /\ trainer' = [trainer EXCEPT ![e] = TrainerOff]
  /\ UNCHANGED docs

TrainerStep(e) ==
  \/ StartContainer(e)
  \/ TrainerMarkDispatched(e)
  \/ ParseSubmission(e)
  \/ WriteStarting(e)
  \/ CheckStarting(e)
  \/ WriteRunning(e)
  \/ CheckRunning(e)
  \/ ReportProgress(e)
  \/ FinishTraining(e)
  \/ WriteCompleted(e)
  \/ WriteFailed(e)
  \/ ExitTrainer(e)
==============================================================================
