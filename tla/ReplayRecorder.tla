---------------------------- MODULE ReplayRecorder ----------------------------
(***************************************************************************)
(* One training of the trainer as the Replay Bundle sees it: the callback  *)
(* that SB3 calls on every step of the vectorised environment              *)
(* (TrainingProgressReporter), the writer of the bundle's chunks           *)
(* (ReplayBundleWriter), the validation of the manifest and the preflight  *)
(* that compares the chunks with their manifest before the upload.         *)
(*                                                                         *)
(* A row is told apart by its checkpoint_step only, and a chunk is what    *)
(* its rows amount to: how many they are, the checkpoints of the first and *)
(* of the last, and the least and the greatest checkpoint.  The rows of an *)
(* evaluation all bear its checkpoint.  The steps of an episode are not    *)
(* counted: an episode may end at any of them.                             *)
(***************************************************************************)
EXTENDS Integers, Sequences, FiniteSets, FiniteSetsExt

CONSTANTS
  Trainings,       \* the training specs to choose from
  ReportInterval,  \* PROGRESS_LOG_INTERVAL_STEPS
  MaxChunks,       \* MAX_REPLAY_BUNDLE_CHUNKS
  NoRow            \* an environment has no initial row to be written

Positive == Nat \ {0}

\* What TrainingSpec accepts, among others: n_steps * n_envs need not divide
\* timesteps.
TrainingSpec ==
  [timesteps                  : Positive,
   n_envs                     : Positive,
   n_steps                    : Positive,
   replay_eval_interval_steps : Nat,
   replay_train_chunk_steps   : Positive]

ASSUME TrainingsAssumption == Trainings \subseteq TrainingSpec
ASSUME LimitsAssumption == ReportInterval \in Positive /\ MaxChunks \in Positive
ASSUME NoRowAssumption == NoRow \notin Nat

VARIABLES
  training,       \* the spec of this training
  phase,          \* where the training is
  num_timesteps,  \* SB3's count of environment steps
  env,            \* the environment whose transition is recorded next, 0 for none
  episodes,       \* _episode_indices
  pending,        \* _pending_initial_infos, by checkpoint
  next_eval,      \* _next_eval_step
  last_reported,  \* _last_reported_step
  writer          \* the ReplayBundleWriter

vars == <<training, phase, num_timesteps, env, episodes, pending, next_eval,
          last_reported, writer>>

Envs == 1 .. training.n_envs
Refused == {"manifest_refused", "preflight_refused"}

------------------------------------------------------------------------------
(* ReplayBundleWriter.                                                     *)

NoChunk == [count |-> 0, first |-> 0, last |-> 0, least |-> 0, greatest |-> 0]

NewWriter == [chunks |-> <<>>, open |-> NoChunk, opened |-> 0]

\* The manifest's entry of a chunk, with what its rows really are.
Entry(path, chunk) ==
  [path            |-> path,
   checkpoint_step |-> chunk.last,
   start_step      |-> chunk.first,
   end_step        |-> chunk.last,
   step_count      |-> chunk.count,
   least           |-> chunk.least,
   greatest        |-> chunk.greatest]

\* Mutant: a chunk of one row is taken for an empty one.
MutCloseTrainChunk(w) ==
  IF w.open.count <= 1 THEN [w EXCEPT !.open = NoChunk]
  ELSE [w EXCEPT !.chunks = Append(@, Entry(<<"train", w.opened>>, w.open)),
                 !.open = NoChunk]

CloseTrainChunk(w) ==
  IF w.open.count = 0 THEN w
  ELSE [w EXCEPT !.chunks = Append(@, Entry(<<"train", w.opened>>, w.open)),
                 !.open = NoChunk]

\* A row with this checkpoint opens a chunk if none is open, and closes the
\* one it fills.
RecordTrainStep(w, checkpoint) ==
  LET begin == [count |-> 1, first |-> checkpoint, last |-> checkpoint,
                least |-> checkpoint, greatest |-> checkpoint]
      extend == [w.open EXCEPT !.count = @ + 1,
                               !.last = checkpoint,
                               !.least = Min({@, checkpoint}),
                               !.greatest = Max({@, checkpoint})]
      written == IF w.open.count = 0
                   THEN [w EXCEPT !.open = begin, !.opened = @ + 1]
                   ELSE [w EXCEPT !.open = extend]
  IN IF written.open.count >= training.replay_train_chunk_steps
       THEN CloseTrainChunk(written)
       ELSE written

\* An evaluation is a chunk of its own, named after its checkpoint.
WriteEvalCheckpoint(w, checkpoint) ==
  LET rows == [count |-> 1, first |-> checkpoint, last |-> checkpoint,
               least |-> checkpoint, greatest |-> checkpoint]
  IN [w EXCEPT !.chunks = Append(@, Entry(<<"eval", checkpoint>>, rows))]

------------------------------------------------------------------------------
(* Training.                                                               *)

\* The state that _on_training_start leaves.
Init ==
  /\ training \in Trainings
  /\ phase = "learning"
  /\ num_timesteps = 0
  /\ env = 0
  /\ episodes = [i \in Envs |-> 0]
  /\ pending = [i \in Envs |-> 0]
  /\ next_eval = training.replay_eval_interval_steps
  /\ last_reported = 0
  /\ writer = NewWriter

\* SB3 steps all environments at once and then calls back.
StepEnvironments ==
  /\ phase = "learning"
  /\ env = 0
  /\ num_timesteps' = num_timesteps + training.n_envs
  /\ env' = 1
  /\ UNCHANGED <<training, phase, episodes, pending, next_eval, last_reported, writer>>

\* One turn of the loop of _record_training_replay.  The first transition of
\* an episode is preceded by its initial row, which bears the checkpoint at
\* which the episode before it ended.
RecordTransition(done) ==
  LET begun == IF pending[env] = NoRow THEN writer
               ELSE RecordTrainStep(writer, pending[env])
  IN /\ env \in Envs
     /\ writer' = RecordTrainStep(begun, num_timesteps)
     /\ pending' = [pending EXCEPT ![env] = IF done THEN num_timesteps ELSE NoRow]
     /\ episodes' = [episodes EXCEPT ![env] = IF done THEN @ + 1 ELSE @]
     /\ env' = env + 1
     /\ UNCHANGED <<training, phase, num_timesteps, next_eval, last_reported>>

\* Mutant: an evaluation is also due at the last step.
MutEvalIsDue ==
  /\ training.replay_eval_interval_steps > 0
  /\ num_timesteps >= next_eval

EvalIsDue ==
  /\ training.replay_eval_interval_steps > 0
  /\ num_timesteps >= next_eval
  /\ num_timesteps < training.timesteps

\* Mutant: the next evaluation is an interval after the step that noticed it.
MutRecordCheckpointEval ==
  IF EvalIsDue
    THEN /\ writer' = WriteEvalCheckpoint(writer, num_timesteps)
         /\ next_eval' = num_timesteps + training.replay_eval_interval_steps
    ELSE UNCHANGED <<writer, next_eval>>

RecordCheckpointEval ==
  IF EvalIsDue
    THEN /\ writer' = WriteEvalCheckpoint(writer, num_timesteps)
         /\ next_eval' = next_eval + training.replay_eval_interval_steps
    ELSE UNCHANGED <<writer, next_eval>>

\* Mutant: one rollout too many.
MutLearningEnds ==
  /\ num_timesteps % (training.n_steps * training.n_envs) = 0
  /\ num_timesteps > training.timesteps

\* SB3 asks whether timesteps are reached only between rollouts of n_steps
\* steps of every environment.
LearningEnds ==
  /\ num_timesteps % (training.n_steps * training.n_envs) = 0
  /\ num_timesteps >= training.timesteps

\* The rest of the callback, and SB3's decision to go on.
EndStep ==
  /\ phase = "learning"
  /\ env = training.n_envs + 1
  /\ last_reported' = IF num_timesteps - last_reported >= ReportInterval
                        THEN num_timesteps ELSE last_reported
  /\ RecordCheckpointEval
  /\ env' = 0
  /\ phase' = IF LearningEnds THEN "learned" ELSE "learning"
  /\ UNCHANGED <<training, num_timesteps, episodes, pending>>

FinalEvaluation ==
  /\ phase = "learned"
  /\ writer' = WriteEvalCheckpoint(writer, training.timesteps)
  /\ phase' = "evaluated"
  /\ UNCHANGED <<training, num_timesteps, env, episodes, pending, next_eval, last_reported>>

------------------------------------------------------------------------------
(* The manifest and the preflight of the upload.                           *)

IsTrain(entry) == entry.path[1] = "train"

\* ReplayBundleManifest: limits, ranges, unique paths and checkpoints.
ManifestValid(chunks) ==
  /\ Len(chunks) \in 1 .. MaxChunks
  /\ \A i \in DOMAIN chunks :
       /\ IsTrain(chunks[i]) => chunks[i].start_step <= chunks[i].end_step
       /\ chunks[i].checkpoint_step <= training.timesteps
  /\ \A i, j \in DOMAIN chunks : chunks[i].path = chunks[j].path => i = j

\* _validate_replay_chunk: a train chunk's rows span exactly its range.
RangeMatchesRows(entry) ==
  IsTrain(entry) => entry.start_step = entry.least /\ entry.end_step = entry.greatest

\* finish closes the last chunk and writes the manifest, unless it is invalid.
Finish ==
  /\ phase = "evaluated"
  /\ writer' = CloseTrainChunk(writer)
  /\ phase' = IF ManifestValid(writer'.chunks) THEN "finished" ELSE "manifest_refused"
  /\ UNCHANGED <<training, num_timesteps, env, episodes, pending, next_eval, last_reported>>

PrepareReplayBundle ==
  /\ phase = "finished"
  /\ phase' = IF \A i \in DOMAIN writer.chunks : RangeMatchesRows(writer.chunks[i])
                THEN "prepared" ELSE "preflight_refused"
  /\ UNCHANGED <<training, num_timesteps, env, episodes, pending, next_eval,
                 last_reported, writer>>

Next ==
  \/ StepEnvironments
  \/ \E done \in BOOLEAN : RecordTransition(done)
  \/ EndStep
  \/ FinalEvaluation
  \/ Finish
  \/ PrepareReplayBundle

Spec == Init /\ [][Next]_vars

------------------------------------------------------------------------------

Trains(w) == {i \in DOMAIN w.chunks : IsTrain(w.chunks[i])}
Evals(w) == (DOMAIN w.chunks) \ Trains(w)

\* The sum of the counts of S.
Tally(S, count) == Cardinality(UNION {{i} \X (1 .. count[i]) : i \in S})

\* The rows of training in a writer, and the episodes that environments have
\* begun to record.
RowsWritten(w) == w.open.count + Tally(Trains(w), [i \in Trains(w) |-> w.chunks[i].step_count])
EpisodesBegun == [i \in Envs |-> IF pending[i] = NoRow THEN episodes[i] + 1 ELSE episodes[i]]

\* The transitions that have been recorded.
Transitions ==
  IF env = 0 THEN num_timesteps ELSE num_timesteps - (training.n_envs + 1 - env)

ChunkEntry ==
  [path            : {"train", "eval"} \X Nat,
   checkpoint_step : Nat,
   start_step      : Nat,
   end_step        : Nat,
   step_count      : Positive,
   least           : Nat,
   greatest        : Nat]

\* Learning runs past its timesteps by less than one rollout.
TypeOK ==
  /\ training \in Trainings
  /\ phase \in {"learning", "learned", "evaluated", "finished", "prepared"} \union Refused
  /\ num_timesteps \in 0 .. (training.timesteps + training.n_steps * training.n_envs - 1)
  /\ env \in 0 .. (training.n_envs + 1)
  /\ episodes \in [Envs -> Nat]
  /\ pending \in [Envs -> Nat \union {NoRow}]
  /\ next_eval \in Nat
  /\ last_reported \in 0 .. num_timesteps
  /\ writer \in [chunks : Seq(ChunkEntry),
                 open   : [count : Nat, first : Nat, last : Nat, least : Nat, greatest : Nat],
                 opened : Nat]

\* With one environment there are at most as many initial rows as transitions,
\* and an evaluation for every interval that ends before the training.
FewChunks ==
  LET full == training.replay_train_chunk_steps
      interval == training.replay_eval_interval_steps
      trains == (2 * training.timesteps + full - 1) \div full
      evals == IF interval > 0 THEN (training.timesteps - 1) \div interval ELSE 0
  IN trains + evals + 1 <= MaxChunks

\* A training that has learned keeps its bundle: with one environment and
\* rollouts that end at timesteps, however its episodes end, the only thing that
\* turns the finished run into a failure is that it has more chunks than a
\* manifest may list, and it never has if FewChunks says so beforehand.
BundleIsAccepted ==
  /\ training.n_envs = 1
  /\ training.timesteps % training.n_steps = 0
  /\ phase \in Refused
  => Len(writer.chunks) > MaxChunks /\ ~FewChunks

\* Every transition and every initial row is in exactly one chunk, and a chunk
\* that is closed while training goes on is full.
EveryRowIsInAFullChunk ==
  LET full == training.replay_train_chunk_steps IN
  /\ RowsWritten(writer) = Transitions + Tally(Envs, EpisodesBegun)
  /\ \A i \in Trains(writer) :
       writer.chunks[i].step_count # full =>
         phase # "learning" /\ writer.chunks[i].step_count < full

\* The last step of the environments before timesteps.
LastStepBefore == ((training.timesteps - 1) \div training.n_envs) * training.n_envs

\* There is one evaluation for every interval that has passed before timesteps,
\* and the final one.  Where more environments step at once than an interval has
\* steps the evaluations lag behind the intervals: there is one for every step
\* of the environments then, and none of the missed ones is made up for.
EvaluationsKeepPace ==
  LET interval == training.replay_eval_interval_steps
      stride == Max({interval, training.n_envs})
      passed == Min({num_timesteps, LastStepBefore})
      final == IF phase \in {"learning", "learned"} THEN 0 ELSE 1
  IN env = 0 =>
       Cardinality(Evals(writer))
         = final + (IF interval = 0 THEN 0 ELSE passed \div stride)

\* Required by ReplayBundleManifest: "Replay chunk checkpoint_step must not
\* exceed total_timesteps".
CheckpointsWithinTotal ==
  \A i \in DOMAIN writer.chunks :
    writer.chunks[i].checkpoint_step <= training.timesteps

\* Required of the chunks: a train chunk's start_step and end_step are the
\* least and the greatest checkpoint of its rows.
RangesMatchRows ==
  \A i \in DOMAIN writer.chunks : RangeMatchesRows(writer.chunks[i])
==============================================================================
