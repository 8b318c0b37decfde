----------------------------- MODULE NavigationWorld -----------------------------
(***************************************************************************)
(* Where a robot may be.  Two parts of the code decide it, each with its   *)
(* own formula, and have to agree: random_start.py picks the starts of     *)
(* randomised episodes, ContinuousNavigationEnv tells a collision.         *)
(*                                                                         *)
(* Lengths are whole units and rotations quarter turns; squares of lengths *)
(* are compared where the code takes a root.                               *)
(***************************************************************************)
EXTENDS Integers, FiniteSets

CONSTANTS
  BoundaryInset,    \* RANDOM_START_BOUNDARY_INSET_METERS
  Clearance,        \* RANDOM_START_CLEARANCE_RADIUS_METERS
  GridSize,         \* RANDOM_START_VALIDATION_GRID_SIZE
  MinValidPercent,  \* MIN_RANDOM_START_VALID_AREA_RATIO
  ProbeStep         \* MOVEMENT_COLLISION_STEP_METERS

Positive == Nat \ {0}

ASSUME DistancesAssumption == BoundaryInset \in Nat /\ Clearance \in Nat
ASSUME GridAssumption == GridSize \in Positive /\ MinValidPercent \in 1 .. 100
ASSUME ProbeAssumption == ProbeStep \in Positive

Bounds == [min_x : Int, min_z : Int, max_x : Int, max_z : Int]
Box == [x : Int, z : Int, size_x : Positive, size_z : Positive, rotation : 0 .. 3]
Goal == [x : Int, z : Int, radius : Positive]

\* What of a ContinuousNavigationSpec tells where the robot may be.  Walls
\* and obstacles are boxes alike; which one is hit is left out.
World == [bounds : Bounds, boxes : SUBSET Box, goal : Goal, robot_radius : Positive]

Abs(n) == IF n < 0 THEN -n ELSE n
Sq(n) == n * n
Over(n) == IF n > 0 THEN n ELSE 0

Cos(rotation) == CASE rotation = 0 -> 1 [] rotation = 2 -> -1 [] OTHER -> 0
Sin(rotation) == CASE rotation = 1 -> 1 [] rotation = 3 -> -1 [] OTHER -> 0

\* A point relative to a box and along its sides.
LocalX(box, x, z) == (x - box.x) * Cos(box.rotation) + (z - box.z) * Sin(box.rotation)
LocalZ(box, x, z) == (z - box.z) * Cos(box.rotation) - (x - box.x) * Sin(box.rotation)

------------------------------------------------------------------------------
(* Collisions of the environment.                                          *)

OutOfBounds(w, x, z) ==
  \/ x < w.bounds.min_x + w.robot_radius \/ x > w.bounds.max_x - w.robot_radius
  \/ z < w.bounds.min_z + w.robot_radius \/ z > w.bounds.max_z - w.robot_radius

\* The box grown by the robot's radius, edges included.
Hits(w, box, x, z) ==
  /\ 2 * Abs(LocalX(box, x, z)) <= box.size_x + 2 * w.robot_radius
  /\ 2 * Abs(LocalZ(box, x, z)) <= box.size_z + 2 * w.robot_radius

Collides(w, x, z) ==
  OutOfBounds(w, x, z) \/ \E box \in w.boxes : Hits(w, box, x, z)

\* The world with n units for one, where the n-th parts of a unit are whole.
Magnify(w, n) ==
  [bounds |-> [min_x |-> n * w.bounds.min_x, min_z |-> n * w.bounds.min_z,
               max_x |-> n * w.bounds.max_x, max_z |-> n * w.bounds.max_z],
   boxes  |-> {[x |-> n * box.x, z |-> n * box.z, size_x |-> n * box.size_x,
                size_z |-> n * box.size_z, rotation |-> box.rotation] : box \in w.boxes},
   goal   |-> w.goal,
   robot_radius |-> n * w.robot_radius]

\* Mutant: rounded down.
MutSampleCount(distance) ==
  IF distance < ProbeStep THEN 1 ELSE distance \div ProbeStep

SampleCount(distance) == (distance + ProbeStep - 1) \div ProbeStep

\* Mutant: the probes begin at the start and leave out the end.
MutSegmentCollides(w, x, z, dx, dz) ==
  LET n == SampleCount(Abs(dx) + Abs(dz)) IN
  \E i \in 0 .. (n - 1) : Collides(Magnify(w, n), n * x + i * dx, n * z + i * dz)

\* A move along an axis is probed at equal distances of at most ProbeStep,
\* the last time at its end.
SegmentCollides(w, x, z, dx, dz) ==
  LET n == SampleCount(Abs(dx) + Abs(dz)) IN
  \E i \in 1 .. n : Collides(Magnify(w, n), n * x + i * dx, n * z + i * dz)

InGoal(w, x, z) == Sq(x - w.goal.x) + Sq(z - w.goal.z) <= Sq(w.goal.radius)

------------------------------------------------------------------------------
(* Random starts.                                                          *)

\* Mutant: a start in the goal will do.
MutClearOfGoal(w, x, z) == TRUE

ClearOfGoal(w, x, z) ==
  Sq(x - w.goal.x) + Sq(z - w.goal.z) > Sq(w.goal.radius + Clearance)

\* The distances to the sides of the grown box, in half units.
ClearOf(w, box, x, z) ==
  Sq(Over(2 * Abs(LocalX(box, x, z)) - (box.size_x + 2 * w.robot_radius)))
    + Sq(Over(2 * Abs(LocalZ(box, x, z)) - (box.size_z + 2 * w.robot_radius)))
    > Sq(2 * Clearance)

IsValidRandomStart(w, x, z) ==
  ClearOfGoal(w, x, z) /\ \A box \in w.boxes : ClearOf(w, box, x, z)

MinX(w) == w.bounds.min_x + BoundaryInset
MaxX(w) == w.bounds.max_x - BoundaryInset
MinZ(w) == w.bounds.min_z + BoundaryInset
MaxZ(w) == w.bounds.max_z - BoundaryInset

\* The middles of the cells of the grid, in whole units.
GridAxis(minimum, maximum) ==
  [index \in 0 .. (GridSize - 1) |->
     minimum + ((2 * index + 1) * (maximum - minimum)) \div (2 * GridSize)]

GridX(w) == GridAxis(MinX(w), MaxX(w))
GridZ(w) == GridAxis(MinZ(w), MaxZ(w))

ValidCells(w) ==
  {c \in (0 .. (GridSize - 1)) \X (0 .. (GridSize - 1)) :
     IsValidRandomStart(w, GridX(w)[c[1]], GridZ(w)[c[2]])}

\* build_random_start_area returns an area and does not raise.
HasRandomStartArea(w) ==
  /\ MinX(w) < MaxX(w) /\ MinZ(w) < MaxZ(w)
  /\ 100 * Cardinality(ValidCells(w)) >= MinValidPercent * Sq(GridSize)

\* Four times the square of the distance to the centre of the area.
FromCentre(w, c) ==
  Sq(2 * GridX(w)[c[1]] - (MinX(w) + MaxX(w))) + Sq(2 * GridZ(w)[c[2]] - (MinZ(w) + MaxZ(w)))

\* The valid grid positions nearest to the centre.  Of those at the same
\* distance the code takes one, here it is any.
SafePositions(w) ==
  {<<GridX(w)[c[1]], GridZ(w)[c[2]]>> :
     c \in {c \in ValidCells(w) : \A d \in ValidCells(w) : FromCentre(w, c) <= FromCentre(w, d)}}

Area(w) == (MinX(w) .. MaxX(w)) \X (MinZ(w) .. MaxZ(w))

\* Where _sample_random_start may put the robot: at the first valid position
\* drawn, or at the safe one when each of the attempts drew another.
RandomStarts(w) ==
  LET valid == {p \in Area(w) : IsValidRandomStart(w, p[1], p[2])} IN
  valid \union (IF valid = Area(w) THEN {} ELSE SafePositions(w))
==============================================================================
