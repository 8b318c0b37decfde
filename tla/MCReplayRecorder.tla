---------------------------- MODULE MCReplayRecorder ----------------------------
(* Instances of ReplayRecorder for TLC.                                      *)
EXTENDS ReplayRecorder

Specs(timesteps, envs, steps, intervals, sizes) ==
  [timesteps : timesteps, n_envs : envs, n_steps : steps,
   replay_eval_interval_steps : intervals, replay_train_chunk_steps : sizes]

\* One environment whose rollouts end exactly at timesteps.
Aligned ==
  {t \in Specs(1 .. 8, {1}, 1 .. 4, 0 .. 4, {1, 2, 3, 5, 20}) : t.timesteps % t.n_steps = 0}

\* Any number of environments, rollouts and intervals.
Mixed == Specs({4, 7}, 1 .. 3, {1, 2}, {0, 1, 3, 4}, {1, 3, 4})

Proportions == Aligned \union Mixed

\* The proportions of the fixture: 32 does not divide 5000.
Overshooting == Specs({5}, {1}, {2}, {0}, {20})

\* Two environments whose rollouts end exactly at timesteps.
Parallel == Specs({8}, {2}, {2}, {0}, {3})
==============================================================================
