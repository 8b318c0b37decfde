-------------------------- MODULE MCNavigationEpisodes --------------------------
(***************************************************************************)
(* Scenarios for TLC.  Each world comes with a fixed and with a randomised *)
(* start: four with room, in the last of which the robot is wider than the *)
(* inset, one without room, one too small for any and an invalid one.  In  *)
(* the plain world clients also get sensors, rewards and sizes wrong.      *)
(***************************************************************************)
EXTENDS NavigationEpisodes

Square(n) == [min_x |-> 0, min_z |-> 0, max_x |-> n, max_z |-> n]
Block(x, z, size_x, size_z, rotation) ==
  [x |-> x, z |-> z, size_x |-> size_x, size_z |-> size_z, rotation |-> rotation]
MkWorld(n, boxes, x, z, radius) ==
  [bounds |-> Square(n), boxes |-> boxes, goal |-> [x |-> x, z |-> z, radius |-> 1],
   robot_radius |-> radius]

Plain == MkWorld(8, {}, 6, 6, 1)
Walled == MkWorld(12, {Block(6, 5, 1, 6, 1)}, 9, 9, 1)
Wide == MkWorld(12, {Block(5, 6, 2, 3, 3), Block(11, 1, 1, 1, 0)}, 2, 9, 2)
Bulky == MkWorld(12, {}, 8, 8, 3)
Crowded == MkWorld(8, {Block(4, 4, 4, 4, 2)}, 7, 7, 1)
Tiny == MkWorld(4, {}, 2, 2, 1)
Outside == MkWorld(8, {Block(9, 4, 1, 1, 0)}, 6, 6, 1)

Camera == [type |-> "forward_camera", id |-> "a", observation_name |-> "a", target |-> "a"]
Ray == [type |-> "distance_sensor", id |-> "b", observation_name |-> "b", target |-> "a"]
Vector == [type |-> "goal_vector", id |-> "c", observation_name |-> "b", target |-> "goal"]

GoodSensors == <<Camera, Ray, Vector>>
BadSensors ==
  {<<>>, <<Camera>>, <<Vector, Ray>>, <<Camera, Vector, [Camera EXCEPT !.id = "b"]>>,
   <<Camera, [Vector EXCEPT !.id = "a"]>>, <<Camera, [Vector EXCEPT !.target = "a"]>>,
   <<Camera, [Vector EXCEPT !.observation_name = "a"]>>}

Component(name) == [name |-> name, type |-> RewardTypes[name], target |-> "goal"]
GoodReward ==
  <<Component("goal_reached"), Component("goal_progress"), Component("collision_penalty"),
    Component("step_penalty"), Component("wide_angle_penalty"),
    Component("rear_angle_penalty"), Component("inactive_penalty")>>
BadRewards ==
  {Tail(GoodReward),
   [GoodReward EXCEPT ![1] = GoodReward[2]],
   [GoodReward EXCEPT ![1].name = "bonus"],
   [GoodReward EXCEPT ![2].type = "per_step"],
   [GoodReward EXCEPT ![2].target = "a"]}

MkBundle(w, start, sensors, reward, episode_steps, episodes, randomize) ==
  [world |-> w, goal_id |-> "goal", start |-> start, forward_step_meters |-> 5,
   sensors |-> sensors, reward |-> reward,
   training |-> [max_episode_steps |-> episode_steps, eval_episodes |-> episodes,
                 randomize_start |-> randomize]]

Corner == [x |-> 2, z |-> 2, heading |-> 0]
InTheGoal == [x |-> 6, z |-> 6, heading |-> 1]

MCBundles ==
  {MkBundle(w, Corner, GoodSensors, GoodReward, 3, 2, r) :
     w \in {Plain, Walled, Wide, Bulky, Crowded, Tiny, Outside}, r \in BOOLEAN}
  \union {MkBundle(Plain, s, GoodSensors, GoodReward, 3, 1, FALSE) :
            s \in {InTheGoal, [Corner EXCEPT !.x = 9]}}
  \union {MkBundle(Plain, Corner, s, GoodReward, 1, 1, r) : s \in BadSensors, r \in BOOLEAN}
  \union {MkBundle(Plain, Corner, GoodSensors, c, 1, 1, r) : c \in BadRewards, r \in BOOLEAN}
  \union {MkBundle(Plain, Corner, GoodSensors, GoodReward, 1, n, TRUE) : n \in 3 .. 8}

MCNames == {"a", "b", "c", "goal"}
==============================================================================
