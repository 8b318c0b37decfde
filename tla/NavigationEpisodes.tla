--------------------------- MODULE NavigationEpisodes ---------------------------
(***************************************************************************)
(* A scenario from the body of POST /submissions to the rows of its        *)
(* evaluation: the validators of ScenarioBundle and TrainingSpec, the      *)
(* server's check that a random start has room, the trainer's conversion   *)
(* of what it finds in Firestore, and evaluate_continuous_policy, which    *)
(* drives ContinuousNavigationEnv through its episodes.                    *)
(*                                                                         *)
(* The policy may take any action.  Headings are quarter turns, and a move *)
(* is of whole units.  Observations, and the reward components that do not *)
(* tell how an episode ended, are left out; so are the bounds of single    *)
(* fields.                                                                 *)
(***************************************************************************)
EXTENDS NavigationWorld, Sequences

CONSTANTS
  Names,         \* identifiers in scenarios
  Bundles,       \* the scenarios clients send
  MaxChunkSteps  \* MAX_REPLAY_CHUNK_STEPS

SensorType == {"forward_camera", "distance_sensor", "goal_vector"}

\* The reward components the runtime knows, and the type of each.
RewardTypes ==
  [goal_reached       |-> "terminal_reward",
   goal_progress      |-> "distance_delta",
   collision_penalty  |-> "collision",
   step_penalty       |-> "per_step",
   wide_angle_penalty |-> "minimum_absolute_angle",
   rear_angle_penalty |-> "minimum_absolute_angle",
   inactive_penalty   |-> "maximum_absolute_forward"]

RewardComponentType == {RewardTypes[name] : name \in DOMAIN RewardTypes}

Robot == [x : Int, z : Int, heading : 0 .. 3]

ScenarioBundle ==
  [world    : World,
   goal_id  : Names,
   start    : Robot,
   forward_step_meters : Positive,
   sensors  : Seq([type : SensorType, id : Names, observation_name : Names, target : Names]),
   reward   : Seq([name : STRING, type : RewardComponentType, target : Names]),
   training : [max_episode_steps : Positive, eval_episodes : Positive,
               randomize_start : BOOLEAN]]

ASSUME BundlesAssumption == Bundles \subseteq ScenarioBundle
ASSUME MaxChunkStepsAssumption == MaxChunkSteps \in Positive

VARIABLES
  bundle,     \* the scenario
  phase,      \* how far it has come
  robot,      \* robot_pos and robot_rotation_y_degrees
  steps,      \* the environment's count of steps
  episode,    \* episodes begun
  done,       \* the current episode is over
  row,        \* the last replay row
  rows,       \* how many there are
  successes,  \* as evaluate_continuous_policy counts them
  goals       \* rows that say the goal was reached

scene == <<robot, steps, episode, done, row, rows, successes, goals>>
vars == <<bundle, phase, scene>>

training == bundle.training
world == bundle.world

------------------------------------------------------------------------------
(* What the server accepts.                                                *)

Inside(bounds, point) ==
  /\ point.x \in bounds.min_x .. bounds.max_x
  /\ point.z \in bounds.min_z .. bounds.max_z

WorldValid(b) ==
  LET bounds == b.world.bounds IN
  /\ bounds.min_x < bounds.max_x /\ bounds.min_z < bounds.max_z
  /\ Inside(bounds, b.world.goal)
  /\ \A box \in b.world.boxes : Inside(bounds, box)
  /\ Inside(bounds, b.start)

OfType(b, type) == {i \in DOMAIN b.sensors : b.sensors[i].type = type}

\* Mutant: a second sensor of a type is refused, a missing one is not.
MutSensorsValid(b) ==
  \A type \in SensorType : Cardinality(OfType(b, type)) <= 1

SensorsValid(b) ==
  /\ Len(b.sensors) \in 1 .. 3
  /\ \A i, j \in DOMAIN b.sensors : b.sensors[i].id = b.sensors[j].id => i = j
  /\ Cardinality(OfType(b, "forward_camera")) = 1
  /\ Cardinality(OfType(b, "goal_vector")) = 1
  /\ Cardinality(OfType(b, "distance_sensor")) <= 1
  /\ \A i \in OfType(b, "goal_vector") :
       /\ b.sensors[i].target = b.goal_id
       /\ \A j \in OfType(b, "forward_camera") :
            b.sensors[i].observation_name # b.sensors[j].observation_name

RewardValid(b) ==
  /\ Len(b.reward) = 7
  /\ \A i, j \in DOMAIN b.reward : b.reward[i].name = b.reward[j].name => i = j
  /\ {b.reward[i].name : i \in DOMAIN b.reward} = DOMAIN RewardTypes
  /\ \A i \in DOMAIN b.reward :
       /\ b.reward[i].type = RewardTypes[b.reward[i].name]
       /\ b.reward[i].type = "distance_delta" => b.reward[i].target = b.goal_id

\* Mutant: the rows are counted as the documentation counts them.
MutEvalReplayFits(t) == t.eval_episodes * t.max_episode_steps <= MaxChunkSteps

EvalReplayFits(t) == t.eval_episodes * (t.max_episode_steps + 1) <= MaxChunkSteps

BundleValid(b) ==
  WorldValid(b) /\ SensorsValid(b) /\ RewardValid(b) /\ EvalReplayFits(b.training)

------------------------------------------------------------------------------
(* convert_scenario_to_spec raises unless it finds a sensor of either type *)
(* and, in the dictionary of the components, whose last entry of a name    *)
(* counts, seven names and four types.                                     *)

Named(b, name) == {i \in DOMAIN b.reward : b.reward[i].name = name}

Converts(b) ==
  /\ OfType(b, "forward_camera") # {} /\ OfType(b, "goal_vector") # {}
  /\ \A name \in DOMAIN RewardTypes : \E i \in Named(b, name) :
       /\ \A j \in Named(b, name) : j <= i
       /\ name \in {"goal_progress", "wide_angle_penalty", "rear_angle_penalty",
                    "inactive_penalty"}
            => b.reward[i].type = RewardTypes[name]

\* Both environments can be constructed.
EnvironmentBuilds(b) == b.training.randomize_start => HasRandomStartArea(b.world)

------------------------------------------------------------------------------

NoRow == [step_index |-> 0, collision |-> FALSE, goal_rewarded |-> FALSE, reason |-> "none"]

Init ==
  /\ bundle \in Bundles
  /\ phase = "submitted"
  /\ robot = bundle.start
  /\ steps = 0 /\ episode = 0 /\ done = TRUE
  /\ row = NoRow /\ rows = 0
  /\ successes = 0 /\ goals = 0

\* The body of the request is validated before the handler runs.
Validate ==
  /\ phase = "submitted"
  /\ phase' = IF BundleValid(bundle) THEN "valid" ELSE "invalid"
  /\ UNCHANGED <<bundle, scene>>

\* submit looks for room before it stores anything.
Submit ==
  /\ phase = "valid"
  /\ phase' = IF training.randomize_start
                THEN IF ~Converts(bundle) THEN "error"
                     ELSE IF HasRandomStartArea(world) THEN "accepted" ELSE "no_room"
                ELSE "accepted"
  /\ UNCHANGED <<bundle, scene>>

\* The trainer converts the stored scenario and builds its environments.
BuildEnvironment ==
  /\ phase = "accepted"
  /\ phase' = IF Converts(bundle) /\ EnvironmentBuilds(bundle) THEN "evaluating" ELSE "failed"
  /\ UNCHANGED <<bundle, scene>>

\* reset, and the initial row of the episode.
Reset ==
  /\ phase = "evaluating"
  /\ done
  /\ episode < training.eval_episodes
  /\ \/ /\ training.randomize_start
        /\ \E p \in RandomStarts(world), h \in 0 .. 3 :
             robot' = [x |-> p[1], z |-> p[2], heading |-> h]
     \/ ~training.randomize_start /\ robot' = bundle.start
  /\ steps' = 0
  /\ episode' = episode + 1
  /\ done' = FALSE
  /\ row' = NoRow
  /\ rows' = rows + 1
  /\ UNCHANGED <<bundle, phase, successes, goals>>

\* Mutant: a heading is not normalised.
MutTurned(turn) == robot.heading + turn

Turned(turn) == (robot.heading + turn) % 4

Reason(terminated, truncated, collision) ==
  CASE terminated /\ collision -> "collision"
    [] terminated /\ ~collision -> "goal_reached"
    [] ~terminated /\ truncated -> "max_steps"
    [] OTHER -> "none"

\* The robot turns, then moves unless the way is blocked, and a row is
\* written.
Step(turn, forward) ==
  LET heading == Turned(turn)
      dx == forward * Sin(heading)
      dz == forward * Cos(heading)
      collision == SegmentCollides(world, robot.x, robot.z, dx, dz)
      x == IF collision THEN robot.x ELSE robot.x + dx
      z == IF collision THEN robot.z ELSE robot.z + dz
      goal_reached == InGoal(world, x, z)
      terminated == goal_reached \/ collision
      truncated == steps + 1 >= training.max_episode_steps
      success == terminated /\ ~collision
  IN /\ phase = "evaluating"
     /\ ~done
     /\ steps' = steps + 1
     /\ robot' = [x |-> x, z |-> z, heading |-> heading]
     /\ done' = (terminated \/ truncated)
     /\ row' = [step_index |-> steps + 1, collision |-> collision,
                goal_rewarded |-> goal_reached,
                reason |-> Reason(terminated, truncated, collision)]
     /\ rows' = rows + 1
     /\ successes' = IF success THEN successes + 1 ELSE successes
     /\ goals' = IF row'.reason = "goal_reached" THEN goals + 1 ELSE goals
     /\ UNCHANGED <<bundle, phase, episode>>

WriteEvalCheckpoint ==
  /\ phase = "evaluating"
  /\ done
  /\ episode = training.eval_episodes
  /\ phase' = "evaluated"
  /\ UNCHANGED <<bundle, scene>>

Ends == {"invalid", "no_room", "error", "failed", "evaluated"}

Ended == phase \in Ends /\ UNCHANGED vars

Next ==
  \/ Validate \/ Submit \/ BuildEnvironment \/ Reset
  \/ \E turn \in -1 .. 1, forward \in 1 .. bundle.forward_step_meters : Step(turn, forward)
  \/ WriteEvalCheckpoint
  \/ Ended

Spec == Init /\ [][Next]_vars

------------------------------------------------------------------------------

TypeOK ==
  /\ bundle \in Bundles
  /\ phase \in {"submitted", "valid", "accepted", "evaluating"} \union Ends
  /\ robot \in Robot
  /\ steps \in 0 .. training.max_episode_steps
  /\ episode \in 0 .. training.eval_episodes
  /\ done \in BOOLEAN
  /\ row \in [step_index    : Nat,
              collision     : BOOLEAN,
              goal_rewarded : BOOLEAN,
              reason        : {"none", "collision", "goal_reached", "max_steps"}]
  /\ rows \in Nat /\ successes \in Nat /\ goals \in Nat

\* Wherever a randomised start puts the robot, also the fallback position after
\* the last attempt, and wherever it drives: it never stands in a box or
\* beyond the bounds.  The code asks no more of a radius than that it is
\* positive; the boundary inset covers radii up to its own length.
RobotStaysClear ==
  /\ training.randomize_start
  /\ world.robot_radius <= BoundaryInset
  /\ phase = "evaluating" /\ episode > 0
  => ~Collides(world, robot.x, robot.z)

\* With a randomised start, the reward for the goal is paid in exactly the rows
\* that say the goal was reached, and those are the successes of the summary: a
\* robot that hits something has not been in the goal already.
GoalRewardIsSuccess ==
  training.randomize_start =>
    /\ row.goal_rewarded <=> row.reason = "goal_reached"
    /\ successes = goals

\* The rows of one evaluation, its initial rows included, fit the one chunk
\* they become.
EvaluationFitsItsChunk == phase \in {"evaluating", "evaluated"} => rows <= MaxChunkSteps

\* A scenario the server accepts is one the trainer can build: neither the
\* request nor the training job fails of a scenario that was found valid.
AcceptedIsTrainable == phase \notin {"error", "failed"}

\* The robot's way through a box, seen along one of the box's sides.
Through(from, to, half) == (from < -half /\ to > half) \/ (from > half /\ to < -half)

Crosses(box, from, to) ==
  LET x == box.size_x + 2 * world.robot_radius
      z == box.size_z + 2 * world.robot_radius
      fx == 2 * LocalX(box, from.x, from.z)
      fz == 2 * LocalZ(box, from.x, from.z)
      tx == 2 * LocalX(box, to.x, to.z)
      tz == 2 * LocalZ(box, to.x, to.z)
  IN \/ x >= ProbeStep /\ Abs(fz) <= z /\ Through(fx, tx, x)
     \/ z >= ProbeStep /\ Abs(fx) <= x /\ Through(fz, tz, z)

\* No step, however long, takes the robot to the other side of a box which,
\* grown by the radius, is at least as thick as the distance between probes.
NothingIsDrivenThrough ==
  [][steps' = steps + 1 => \A box \in world.boxes : ~Crosses(box, robot, robot')]_vars
==============================================================================
