---------------------------- MODULE NavigationProofs ----------------------------
(***************************************************************************)
(* Theorems of NavigationEpisodes for every set of scenarios, every inset, *)
(* clearance, grid and distance between probes.                            *)
(***************************************************************************)
EXTENDS NavigationEpisodes, FiniteSetTheorems, TLAPS

------------------------------------------------------------------------------
(* Geometry: a valid random start is clear, a way that is clear ends clear. *)

\* A longer unit changes no comparison.
LEMMA Scaling ==
  ASSUME NEW n \in Positive, NEW a \in Int, NEW b \in Int
  PROVE  /\ n * (a + b) = n * a + n * b
         /\ n * (a - b) = n * a - n * b
         /\ a < b => n * a < n * b
         /\ a <= b => n * a <= n * b
         /\ n * a \in Int
BY DEF Positive

LEMMA OrderScales ==
  ASSUME NEW n \in Positive, NEW a \in Int, NEW low \in Int, NEW high \in Int, NEW r \in Int
  PROVE  /\ a < low + r => n * a < n * low + n * r
         /\ a > high - r => n * a > n * high - n * r
<1>1. n * (low + r) = n * low + n * r /\ n * (high - r) = n * high - n * r
  BY Scaling
<1>2. a < low + r => n * a < n * (low + r)
  BY Scaling
<1>3. high - r < a => n * (high - r) < n * a
  BY Scaling
<1> QED
  BY <1>1, <1>2, <1>3, Scaling

LEMMA LocalType ==
  ASSUME NEW box \in Box, NEW x \in Int, NEW z \in Int
  PROVE  LocalX(box, x, z) \in Int /\ LocalZ(box, x, z) \in Int
BY DEF LocalX, LocalZ, Box, Cos, Sin

\* A point relative to a magnified box is the magnified relative point.
LEMMA LocalScales ==
  ASSUME NEW n \in Positive, NEW box \in Box, NEW big,
         big.x = n * box.x, big.z = n * box.z, big.rotation = box.rotation,
         NEW x \in Int, NEW z \in Int
  PROVE  /\ LocalX(big, n * x, n * z) = n * LocalX(box, x, z)
         /\ LocalZ(big, n * x, n * z) = n * LocalZ(box, x, z)
<1>1. box.x \in Int /\ box.z \in Int /\ box.rotation \in 0 .. 3
  BY DEF Box
<1>2. /\ x - box.x \in Int /\ n * x - n * box.x = n * (x - box.x)
      /\ z - box.z \in Int /\ n * z - n * box.z = n * (z - box.z)
  <2>1. \A a, b \in Int : a - b \in Int /\ n * a - n * b = n * (a - b)
    BY Scaling
  <2> QED
    BY <1>1, <2>1
<1> DEFINE dx == x - box.x
           dz == z - box.z
           c == Cos(box.rotation)
           s == Sin(box.rotation)
<1>3. dx \in Int /\ dz \in Int /\ c \in {-1, 0, 1} /\ s \in {-1, 0, 1}
  BY <1>2 DEF Cos, Sin
<1>4. /\ LocalX(box, x, z) = dx * c + dz * s
      /\ LocalZ(box, x, z) = dz * c - dx * s
      /\ LocalX(big, n * x, n * z) = (n * dx) * c + (n * dz) * s
      /\ LocalZ(big, n * x, n * z) = (n * dz) * c - (n * dx) * s
  BY <1>2 DEF LocalX, LocalZ
<1> HIDE DEF dx, dz, c, s
<1>5. (n * dx) * c = n * (dx * c) /\ (n * dz) * s = n * (dz * s)
      /\ (n * dz) * c = n * (dz * c) /\ (n * dx) * s = n * (dx * s)
  BY <1>3 DEF Positive
<1>6. dx * c \in Int /\ dz * s \in Int /\ dz * c \in Int /\ dx * s \in Int
  BY <1>3
<1>7. /\ n * (dx * c) + n * (dz * s) = n * (dx * c + dz * s)
      /\ n * (dz * c) - n * (dx * s) = n * (dz * c - dx * s)
  BY <1>6, Scaling
<1> QED
  BY <1>4, <1>5, <1>7

LEMMA AbsScales ==
  ASSUME NEW n \in Positive, NEW a \in Int, NEW size \in Int, NEW r \in Int,
         2 * Abs(a) <= size + 2 * r
  PROVE  2 * Abs(n * a) <= n * size + 2 * (n * r)
<1>1. Abs(n * a) = n * Abs(a) /\ Abs(a) \in Int
  BY Scaling DEF Abs, Positive
<1>2. n * (2 * Abs(a)) <= n * (size + 2 * r)
  BY <1>1, Scaling
<1>3. n * (2 * Abs(a)) = 2 * (n * Abs(a)) /\ n * (size + 2 * r) = n * size + 2 * (n * r)
  BY <1>1, Scaling DEF Positive
<1> QED
  BY <1>1, <1>2, <1>3

\* What collides still does when its units are divided.
LEMMA CollisionScales ==
  ASSUME NEW w \in World, NEW n \in Positive, NEW x \in Int, NEW z \in Int,
         Collides(w, x, z)
  PROVE  Collides(Magnify(w, n), n * x, n * z)
<1>1. CASE OutOfBounds(w, x, z)
  <2>1. /\ w.bounds.min_x \in Int /\ w.bounds.max_x \in Int
        /\ w.bounds.min_z \in Int /\ w.bounds.max_z \in Int /\ w.robot_radius \in Int
    BY DEF World, Bounds, Positive
  <2>2. /\ x < w.bounds.min_x + w.robot_radius =>
             n * x < n * w.bounds.min_x + n * w.robot_radius
        /\ x > w.bounds.max_x - w.robot_radius =>
             n * x > n * w.bounds.max_x - n * w.robot_radius
    BY <2>1, OrderScales
  <2>4. /\ z < w.bounds.min_z + w.robot_radius =>
             n * z < n * w.bounds.min_z + n * w.robot_radius
        /\ z > w.bounds.max_z - w.robot_radius =>
             n * z > n * w.bounds.max_z - n * w.robot_radius
    BY <2>1, OrderScales
  <2>3. \/ n * x < n * w.bounds.min_x + n * w.robot_radius
        \/ n * x > n * w.bounds.max_x - n * w.robot_radius
        \/ n * z < n * w.bounds.min_z + n * w.robot_radius
        \/ n * z > n * w.bounds.max_z - n * w.robot_radius
    BY <1>1, <2>2, <2>4 DEF OutOfBounds
  <2> QED
    BY <2>3 DEF OutOfBounds, Collides, Magnify
<1>2. ASSUME NEW box \in w.boxes, Hits(w, box, x, z)
      PROVE  Collides(Magnify(w, n), n * x, n * z)
  <2> DEFINE big == [x |-> n * box.x, z |-> n * box.z, size_x |-> n * box.size_x,
                     size_z |-> n * box.size_z, rotation |-> box.rotation]
  <2>1. box \in Box /\ box.size_x \in Int /\ box.size_z \in Int /\ w.robot_radius \in Int
    BY DEF World, Box, Positive
  <2>2. /\ LocalX(big, n * x, n * z) = n * LocalX(box, x, z)
        /\ LocalZ(big, n * x, n * z) = n * LocalZ(box, x, z)
    BY <2>1, LocalScales
  <2>3. LocalX(box, x, z) \in Int /\ LocalZ(box, x, z) \in Int
    BY <2>1, LocalType
  <2>4. /\ 2 * Abs(n * LocalX(box, x, z)) <= n * box.size_x + 2 * (n * w.robot_radius)
        /\ 2 * Abs(n * LocalZ(box, x, z)) <= n * box.size_z + 2 * (n * w.robot_radius)
    BY <1>2, <2>1, <2>3, AbsScales DEF Hits
  <2>5. Hits(Magnify(w, n), big, n * x, n * z)
    BY <2>2, <2>4 DEF Hits, Magnify
  <2>6. big \in Magnify(w, n).boxes
    BY DEF Magnify
  <2> HIDE DEF big
  <2> QED
    BY <2>5, <2>6 DEF Collides
<1> QED
  BY <1>1, <1>2 DEF Collides

\* A way that is found clear ends at a clear position.
LEMMA WayEndsClear ==
  ASSUME NEW w \in World, NEW x \in Int, NEW z \in Int, NEW dx \in Int, NEW dz \in Int,
         dx # 0 \/ dz # 0,
         ~SegmentCollides(w, x, z, dx, dz)
  PROVE  ~Collides(w, x + dx, z + dz)
<1> DEFINE distance == Abs(dx) + Abs(dz)
           n == SampleCount(distance)
<1>1. distance \in Positive
  BY DEF Abs, Positive
<1>2. n \in Positive
  BY <1>1, ProbeAssumption DEF SampleCount, Positive
<1>3. n \in 1 .. n
  BY <1>2 DEF Positive
<1> HIDE DEF n
<1>4. ~Collides(Magnify(w, n), n * x + n * dx, n * z + n * dz)
  BY <1>3 DEF SegmentCollides, n
<1>5. n * x + n * dx = n * (x + dx) /\ n * z + n * dz = n * (z + dz)
  BY <1>2, Scaling
<1> QED
  BY <1>2, <1>4, <1>5, CollisionScales

------------------------------------------------------------------------------
(* Probes: a way through a box that is thick enough has one inside.        *)

\* There is a multiple of e from m on, before m + e.
LEMMA MultipleFrom ==
  ASSUME NEW m \in Positive, NEW e \in Positive, NEW n \in Nat, m <= n * e
  PROVE  \E i \in 1 .. n : m <= i * e /\ i * e < m + e
<1> DEFINE i == (m + e - 1) \div e
<1>1. i \in Nat /\ m <= i * e /\ i * e < m + e
  BY DEF Positive
<1> HIDE DEF i
<1>2. i # 0
  BY <1>1 DEF Positive
<1>3. ASSUME n < i
      PROVE  FALSE
  <2>1. n * e + e <= i * e
    <3>1. n + 1 <= i
      BY <1>1, <1>3
    <3>2. (n + 1) * e <= i * e
      BY <1>1, <3>1 DEF Positive
    <3> QED
      BY <3>2 DEF Positive
  <2>2. n * e \in Nat /\ i * e \in Nat
    BY <1>1 DEF Positive
  <2> QED
    BY <1>1, <2>1, <2>2 DEF Positive
<1> QED
  BY <1>1, <1>2, <1>3

\* Of n probes on the way from a to b one is within n times the half of the
\* box, if they are not farther apart than its sides.
LEMMA ProbeInside ==
  ASSUME NEW n \in Positive, NEW a \in Int, NEW b \in Int, NEW half \in Nat,
         a < -half, b > half, b - a <= 2 * (n * half)
  PROVE  \E i \in 1 .. n : /\ -(n * half) <= n * a + i * (b - a)
                           /\ n * a + i * (b - a) <= n * half
<1> DEFINE m == n * (-half - a)
           e == b - a
<1>1. e \in Positive /\ -half - a \in Positive
  BY DEF Positive
<1>2. m \in Positive
  BY <1>1 DEF Positive
<1>3. m = -(n * half) - n * a /\ n * half \in Nat /\ n * a \in Int
  BY DEF Positive
<1>4. m <= n * e
  BY <1>1, Scaling DEF Positive
<1>5. PICK i \in 1 .. n : m <= i * e /\ i * e < m + e
  <2> HIDE DEF m, e
  <2>1. n \in Nat
    BY DEF Positive
  <2> QED
    BY <1>1, <1>2, <1>4, <2>1, MultipleFrom
<1>6. i * e \in Int
  BY <1>1 DEF Positive
<1> HIDE DEF m
<1>7. /\ -(n * half) <= n * a + i * e
      /\ n * a + i * e <= n * half
  BY <1>2, <1>3, <1>5, <1>6 DEF Positive
<1> QED
  BY <1>7

\* The same from either side.
LEMMA ProbeWithin ==
  ASSUME NEW n \in Positive, NEW a \in Int, NEW b \in Int, NEW half \in Nat,
         Through(a, b, half), Abs(b - a) <= 2 * (n * half)
  PROVE  \E i \in 1 .. n : Abs(n * a + i * (b - a)) <= n * half
<1>1. n * half \in Nat /\ \A i \in 1 .. n : n * a + i * (b - a) \in Int
  BY DEF Positive
<1>2. CASE a < -half /\ b > half
  <2>1. b - a <= 2 * (n * half)
    BY <1>1, <1>2 DEF Abs
  <2>2. PICK i \in 1 .. n : /\ -(n * half) <= n * a + i * (b - a)
                            /\ n * a + i * (b - a) <= n * half
    BY <1>2, <2>1, ProbeInside
  <2> QED
    BY <1>1, <2>2 DEF Abs
<1>3. CASE a > half /\ b < -half
  <2>1. /\ -a \in Int /\ -b \in Int /\ -a < -half /\ -b > half
        /\ (-b) - (-a) <= 2 * (n * half)
    BY <1>1, <1>3 DEF Abs
  <2>2. PICK i \in 1 .. n : /\ -(n * half) <= n * (-a) + i * ((-b) - (-a))
                            /\ n * (-a) + i * ((-b) - (-a)) <= n * half
    BY <2>1, ProbeInside
  <2>3. n * (-a) + i * ((-b) - (-a)) = -(n * a + i * (b - a))
    BY DEF Positive
  <2> QED
    BY <1>1, <2>2, <2>3 DEF Abs
<1> QED
  BY <1>2, <1>3 DEF Through

\* What a quarter turn makes of coordinates.
LEMMA LocalAxes ==
  ASSUME NEW box, box.x \in Int, box.z \in Int, NEW x \in Int, NEW z \in Int
  PROVE  /\ box.rotation = 0 => LocalX(box, x, z) = x - box.x /\ LocalZ(box, x, z) = z - box.z
         /\ box.rotation = 1 => LocalX(box, x, z) = z - box.z /\ LocalZ(box, x, z) = box.x - x
         /\ box.rotation = 2 => LocalX(box, x, z) = box.x - x /\ LocalZ(box, x, z) = box.z - z
         /\ box.rotation = 3 => LocalX(box, x, z) = box.z - z /\ LocalZ(box, x, z) = x - box.x
BY DEF LocalX, LocalZ, Cos, Sin

\* The i-th of n probes, and a magnified box.
Probe(n, i, from, way) == n * from + i * way
MagnifiedBox(n, box) ==
  [x |-> n * box.x, z |-> n * box.z, size_x |-> n * box.size_x, size_z |-> n * box.size_z,
   rotation |-> box.rotation]

\* Relative to the magnified box, a probe of a way is one of the relative way.
ProbeIsRelative(n, i, box, x, z, dx, dz) ==
  /\ LocalX(MagnifiedBox(n, box), Probe(n, i, x, dx), Probe(n, i, z, dz))
       = Probe(n, i, LocalX(box, x, z), LocalX(box, x + dx, z + dz) - LocalX(box, x, z))
  /\ LocalZ(MagnifiedBox(n, box), Probe(n, i, x, dx), Probe(n, i, z, dz))
       = Probe(n, i, LocalZ(box, x, z), LocalZ(box, x + dx, z + dz) - LocalZ(box, x, z))

LEMMA ProbeLocal ==
  ASSUME NEW n \in Positive, NEW i \in Nat, NEW box \in Box,
         NEW x \in Int, NEW z \in Int, NEW dx \in Int, NEW dz \in Int
  PROVE  ProbeIsRelative(n, i, box, x, z, dx, dz)
<1> DEFINE big == MagnifiedBox(n, box)
           px == Probe(n, i, x, dx)
           pz == Probe(n, i, z, dz)
<1>0. big.x = n * box.x /\ big.z = n * box.z /\ big.rotation = box.rotation
  BY DEF MagnifiedBox
<1>1. box.x \in Int /\ box.z \in Int /\ box.rotation \in 0 .. 3
  BY DEF Box
<1>2. big.x \in Int /\ big.z \in Int /\ px \in Int /\ pz \in Int
  BY <1>0, <1>1 DEF Positive, Probe
<1>3. /\ px - big.x = n * (x - box.x) + i * dx /\ big.x - px = n * (box.x - x) + i * (-dx)
      /\ pz - big.z = n * (z - box.z) + i * dz /\ big.z - pz = n * (box.z - z) + i * (-dz)
  BY <1>0, <1>1 DEF Positive, Probe
<1> HIDE DEF px, pz, big
<1>4. CASE box.rotation = 0
  <2>1. LocalX(big, px, pz) = px - big.x /\ LocalZ(big, px, pz) = pz - big.z
    BY <1>0, <1>2, <1>4, LocalAxes
  <2>2. /\ LocalX(box, x, z) = x - box.x /\ LocalX(box, x + dx, z + dz) - LocalX(box, x, z) = dx
        /\ LocalZ(box, x, z) = z - box.z /\ LocalZ(box, x + dx, z + dz) - LocalZ(box, x, z) = dz
    BY <1>1, <1>4, LocalAxes
  <2> QED
    BY <1>3, <2>1, <2>2 DEF ProbeIsRelative, px, pz, big, Probe
<1>5. CASE box.rotation = 1
  <2>1. LocalX(big, px, pz) = pz - big.z /\ LocalZ(big, px, pz) = big.x - px
    BY <1>0, <1>2, <1>5, LocalAxes
  <2>2. /\ LocalX(box, x, z) = z - box.z /\ LocalX(box, x + dx, z + dz) - LocalX(box, x, z) = dz
        /\ LocalZ(box, x, z) = box.x - x /\ LocalZ(box, x + dx, z + dz) - LocalZ(box, x, z) = -dx
    BY <1>1, <1>5, LocalAxes
  <2> QED
    BY <1>3, <2>1, <2>2 DEF ProbeIsRelative, px, pz, big, Probe
<1>6. CASE box.rotation = 2
  <2>1. LocalX(big, px, pz) = big.x - px /\ LocalZ(big, px, pz) = big.z - pz
    BY <1>0, <1>2, <1>6, LocalAxes
  <2>2. /\ LocalX(box, x, z) = box.x - x /\ LocalX(box, x + dx, z + dz) - LocalX(box, x, z) = -dx
        /\ LocalZ(box, x, z) = box.z - z /\ LocalZ(box, x + dx, z + dz) - LocalZ(box, x, z) = -dz
    BY <1>1, <1>6, LocalAxes
  <2> QED
    BY <1>3, <2>1, <2>2 DEF ProbeIsRelative, px, pz, big, Probe
<1>7. CASE box.rotation = 3
  <2>1. LocalX(big, px, pz) = big.z - pz /\ LocalZ(big, px, pz) = px - big.x
    BY <1>0, <1>2, <1>7, LocalAxes
  <2>2. /\ LocalX(box, x, z) = box.z - z /\ LocalX(box, x + dx, z + dz) - LocalX(box, x, z) = -dz
        /\ LocalZ(box, x, z) = x - box.x /\ LocalZ(box, x + dx, z + dz) - LocalZ(box, x, z) = dx
    BY <1>1, <1>7, LocalAxes
  <2> QED
    BY <1>3, <2>1, <2>2 DEF ProbeIsRelative, px, pz, big, Probe
<1> QED
  BY <1>1, <1>4, <1>5, <1>6, <1>7

\* A move along one axis is one along a side of the box, and as long.
LEMMA MoveLocal ==
  ASSUME NEW box \in Box, NEW x \in Int, NEW z \in Int, NEW dx \in Int, NEW dz \in Int,
         dx = 0 \/ dz = 0
  PROVE  LET du == LocalX(box, x + dx, z + dz) - LocalX(box, x, z)
             dv == LocalZ(box, x + dx, z + dz) - LocalZ(box, x, z)
         IN  /\ du \in Int /\ dv \in Int
             /\ du = 0 \/ dv = 0
             /\ Abs(du) <= Abs(dx) + Abs(dz) /\ Abs(dv) <= Abs(dx) + Abs(dz)
<1>1. box.x \in Int /\ box.z \in Int /\ box.rotation \in 0 .. 3
  BY DEF Box
<1> QED
  BY <1>1, LocalAxes DEF Abs

\* From p the way is dp long along one side of a box, and leads from beyond one
\* end of it beyond the other; along the other side it is at q, in the box.
WayThrough(p, dp, size, q, other) ==
  /\ size >= ProbeStep
  /\ Abs(2 * q) <= other
  /\ Through(2 * p, 2 * (p + dp), size)

\* Such a way has a probe within the box, if the probes are at most ProbeStep
\* apart.
LEMMA ProbeOnTheWay ==
  ASSUME NEW n \in Positive, NEW distance \in Positive, distance <= n * ProbeStep,
         NEW p \in Int, NEW dp \in Int, NEW size \in Nat, NEW q \in Int, NEW other \in Int,
         Abs(dp) <= distance, WayThrough(p, dp, size, q, other)
  PROVE  /\ dp # 0
         /\ \E i \in 1 .. n : 2 * Abs(Probe(n, i, p, dp)) <= n * size
         /\ 2 * Abs(n * q) <= n * other
<1> USE DEF WayThrough, Probe
<1>1. dp # 0
  BY DEF Through
<1>2. n * ProbeStep <= n * size
  BY ProbeAssumption, Scaling DEF Positive
<1>3. Abs(2 * (p + dp) - 2 * p) <= 2 * (n * size)
  <2>1. n * ProbeStep \in Int /\ n * size \in Int
    BY ProbeAssumption DEF Positive
  <2>2. Abs(2 * (p + dp) - 2 * p) = 2 * Abs(dp) /\ Abs(dp) \in Int
    BY DEF Abs
  <2> QED
    BY <1>2, <2>1, <2>2 DEF Positive
<1>4. PICK i \in 1 .. n : Abs(n * (2 * p) + i * (2 * (p + dp) - 2 * p)) <= n * size
  <2>1. 2 * p \in Int /\ 2 * (p + dp) \in Int
    OBVIOUS
  <2> QED
    BY <1>3, <2>1, ProbeWithin
<1>5. n * (2 * p) + i * (2 * (p + dp) - 2 * p) = 2 * (n * p + i * dp)
      /\ n * p + i * dp \in Int
  BY DEF Positive
<1>6. 2 * Abs(n * p + i * dp) <= n * size
  BY <1>4, <1>5 DEF Abs
<1>7. 2 * Abs(n * q) <= n * other
  <2>1. 2 * Abs(q) <= other + 2 * 0
    BY DEF Abs
  <2>2. 2 * Abs(n * q) <= n * other + 2 * (n * 0)
    BY <2>1, AbsScales
  <2>3. n * other \in Int
    BY DEF Positive
  <2> QED
    BY <2>2, <2>3 DEF Positive
<1> QED
  BY <1>1, <1>6, <1>7

\* No way that is found clear leads through a box.
LEMMA WayIsNotThrough ==
  ASSUME NEW w \in World, NEW box \in w.boxes,
         NEW x \in Int, NEW z \in Int, NEW dx \in Int, NEW dz \in Int,
         dx = 0 \/ dz = 0, dx # 0 \/ dz # 0,
         ~SegmentCollides(w, x, z, dx, dz)
  PROVE  LET sx == box.size_x + 2 * w.robot_radius
             sz == box.size_z + 2 * w.robot_radius
             fx == 2 * LocalX(box, x, z)
             fz == 2 * LocalZ(box, x, z)
             tx == 2 * LocalX(box, x + dx, z + dz)
             tz == 2 * LocalZ(box, x + dx, z + dz)
         IN  /\ ~(sx >= ProbeStep /\ Abs(fz) <= sz /\ Through(fx, tx, sx))
             /\ ~(sz >= ProbeStep /\ Abs(fx) <= sx /\ Through(fz, tz, sz))
<1> DEFINE u == LocalX(box, x, z)
           v == LocalZ(box, x, z)
           du == LocalX(box, x + dx, z + dz) - u
           dv == LocalZ(box, x + dx, z + dz) - v
           distance == Abs(dx) + Abs(dz)
           n == SampleCount(distance)
           r == w.robot_radius
           sx == box.size_x + 2 * r
           sz == box.size_z + 2 * r
           big == MagnifiedBox(n, box)
<1>1. box \in Box /\ r \in Positive /\ box.size_x \in Positive /\ box.size_z \in Positive
  BY DEF World, Box
<1>2. /\ u \in Int /\ v \in Int /\ du \in Int /\ dv \in Int
      /\ du = 0 \/ dv = 0
      /\ Abs(du) <= distance /\ Abs(dv) <= distance
  <2>1. u \in Int /\ v \in Int
    BY <1>1, LocalType
  <2>2. /\ du \in Int /\ dv \in Int
        /\ du = 0 \/ dv = 0
        /\ Abs(du) <= distance /\ Abs(dv) <= distance
    BY <1>1, MoveLocal, ZenonT(30)
  <2> QED
    BY <2>1, <2>2
<1>3. LocalX(box, x + dx, z + dz) = u + du /\ LocalZ(box, x + dx, z + dz) = v + dv
  BY <1>1, <1>2, LocalType
<1>4. distance \in Positive
  BY DEF Abs, Positive
<1>5. n \in Positive /\ distance <= n * ProbeStep
  BY <1>4, ProbeAssumption DEF SampleCount, Positive
<1>6. sx \in Nat /\ sz \in Nat
  BY <1>1 DEF Positive
<1>7. \A i \in 1 .. n : ~Hits(Magnify(w, n), big, Probe(n, i, x, dx), Probe(n, i, z, dz))
  <2>1. big \in Magnify(w, n).boxes
    BY DEF Magnify, MagnifiedBox
  <2> QED
    BY <2>1 DEF SegmentCollides, Collides, Probe
<1>8. \A i \in 1 .. n :
        /\ LocalX(big, Probe(n, i, x, dx), Probe(n, i, z, dz)) = Probe(n, i, u, du)
        /\ LocalZ(big, Probe(n, i, x, dx), Probe(n, i, z, dz)) = Probe(n, i, v, dv)
  <2> HIDE DEF n
  <2>1. SUFFICES ASSUME NEW i \in 1 .. n
                 PROVE  /\ LocalX(big, Probe(n, i, x, dx), Probe(n, i, z, dz)) = Probe(n, i, u, du)
                        /\ LocalZ(big, Probe(n, i, x, dx), Probe(n, i, z, dz)) = Probe(n, i, v, dv)
    OBVIOUS
  <2>2. i \in Nat /\ box \in Box /\ n \in Positive
    BY <1>1, <1>5 DEF Positive
  <2>3. ProbeIsRelative(n, i, box, x, z, dx, dz)
    BY <2>2, ProbeLocal
  <2> QED
    BY <2>3 DEF ProbeIsRelative
<1>9. big.size_x = n * box.size_x /\ big.size_z = n * box.size_z /\ Magnify(w, n).robot_radius = n * r
  BY DEF Magnify, MagnifiedBox
<1>10. n * sx = n * box.size_x + 2 * (n * r) /\ n * sz = n * box.size_z + 2 * (n * r)
  BY <1>1, <1>5 DEF Positive
<1> HIDE DEF u, v, du, dv, distance, n, r, sx, sz, big
<1>11. ASSUME WayThrough(u, du, sx, v, sz)
       PROVE  FALSE
  <2>1. /\ du # 0
        /\ \E i \in 1 .. n : 2 * Abs(Probe(n, i, u, du)) <= n * sx
        /\ 2 * Abs(n * v) <= n * sz
    <3>1. /\ n \in Positive /\ distance \in Positive /\ distance <= n * ProbeStep
          /\ u \in Int /\ du \in Int /\ sx \in Nat /\ v \in Int /\ sz \in Int
          /\ Abs(du) <= distance
      BY <1>2, <1>4, <1>5, <1>6
    <3> QED
      BY <1>11, <3>1, ProbeOnTheWay, ZenonT(30)
  <2>2. PICK i \in 1 .. n : 2 * Abs(Probe(n, i, u, du)) <= n * sx
    BY <2>1
  <2>3. Probe(n, i, v, dv) = n * v
    BY <1>2, <1>5, <2>1 DEF Positive, Probe
  <2>4. Hits(Magnify(w, n), big, Probe(n, i, x, dx), Probe(n, i, z, dz))
    BY <1>8, <1>9, <1>10, <2>1, <2>2, <2>3 DEF Hits
  <2> QED
    BY <1>7, <2>4
<1>12. ASSUME WayThrough(v, dv, sz, u, sx)
       PROVE  FALSE
  <2>1. /\ dv # 0
        /\ \E i \in 1 .. n : 2 * Abs(Probe(n, i, v, dv)) <= n * sz
        /\ 2 * Abs(n * u) <= n * sx
    <3>1. /\ n \in Positive /\ distance \in Positive /\ distance <= n * ProbeStep
          /\ v \in Int /\ dv \in Int /\ sz \in Nat /\ u \in Int /\ sx \in Int
          /\ Abs(dv) <= distance
      BY <1>2, <1>4, <1>5, <1>6
    <3> QED
      BY <1>12, <3>1, ProbeOnTheWay, ZenonT(30)
  <2>2. PICK i \in 1 .. n : 2 * Abs(Probe(n, i, v, dv)) <= n * sz
    BY <2>1
  <2>3. Probe(n, i, u, du) = n * u
    BY <1>2, <1>5, <2>1 DEF Positive, Probe
  <2>4. Hits(Magnify(w, n), big, Probe(n, i, x, dx), Probe(n, i, z, dz))
    BY <1>8, <1>9, <1>10, <2>1, <2>2, <2>3 DEF Hits
  <2> QED
    BY <1>7, <2>4
<1> QED
  BY <1>3, <1>11, <1>12 DEF WayThrough, u, v, sx, sz, r

------------------------------------------------------------------------------
(* Random starts.                                                          *)

LEMMA ClearStart ==
  ASSUME NEW w \in World, NEW x \in Int, NEW z \in Int, IsValidRandomStart(w, x, z)
  PROVE  /\ ~InGoal(w, x, z)
         /\ \A box \in w.boxes : ~Hits(w, box, x, z)
<1>1. ~InGoal(w, x, z)
  <2>1. w.goal.radius \in Nat /\ w.goal.x \in Int /\ w.goal.z \in Int
    BY DEF World, Goal, Positive
  <2>2. Sq(w.goal.radius) <= Sq(w.goal.radius + Clearance)
    BY <2>1, DistancesAssumption DEF Sq
  <2>3. Sq(x - w.goal.x) + Sq(z - w.goal.z) > Sq(w.goal.radius + Clearance)
    BY DEF IsValidRandomStart, ClearOfGoal
  <2>4. Sq(x - w.goal.x) \in Int /\ Sq(z - w.goal.z) \in Int
        /\ Sq(w.goal.radius) \in Int /\ Sq(w.goal.radius + Clearance) \in Int
    BY <2>1, DistancesAssumption DEF Sq
  <2> QED
    BY <2>2, <2>3, <2>4 DEF InGoal
<1>2. ASSUME NEW box \in w.boxes, Hits(w, box, x, z)
      PROVE  FALSE
  <2>1. box \in Box /\ w.robot_radius \in Int
    BY DEF World, Positive
  <2> DEFINE gx == 2 * Abs(LocalX(box, x, z)) - (box.size_x + 2 * w.robot_radius)
             gz == 2 * Abs(LocalZ(box, x, z)) - (box.size_z + 2 * w.robot_radius)
  <2>2. gx \in Int /\ gz \in Int
    BY <2>1, LocalType DEF Abs, Box, Positive
  <2>3. gx <= 0 /\ gz <= 0
    <3>1. /\ Abs(LocalX(box, x, z)) \in Int /\ Abs(LocalZ(box, x, z)) \in Int
          /\ box.size_x \in Int /\ box.size_z \in Int
      BY <2>1, LocalType DEF Abs, Box, Positive
    <3> QED
      BY <1>2, <2>1, <3>1 DEF Hits
  <2>4. Sq(Over(gx)) + Sq(Over(gz)) > Sq(2 * Clearance)
    BY DEF IsValidRandomStart, ClearOf
  <2> HIDE DEF gx, gz
  <2>5. Over(gx) = 0 /\ Over(gz) = 0
    BY <2>2, <2>3 DEF Over
  <2>6. Sq(2 * Clearance) >= 0
    BY DistancesAssumption DEF Sq
  <2> QED
    BY <2>4, <2>5, <2>6, DistancesAssumption DEF Sq
<1> QED
  BY <1>1, <1>2

\* A share of a length, rounded down, is a part of it.
LEMMA Share ==
  ASSUME NEW w \in Nat, NEW k \in Nat, NEW d \in Positive, k <= d
  PROVE  (k * w) \div d \in 0 .. w
<1>1. k * w \in Nat /\ k * w <= d * w
  BY DEF Positive
<1>2. (k * w) \div d \in Nat
  BY <1>1 DEF Positive
<1>3. ASSUME (k * w) \div d > w
      PROVE  FALSE
  <2> DEFINE q == (k * w) \div d
  <2>1. d * q <= k * w
    BY <1>1 DEF Positive
  <2>2. d * (w + 1) <= d * q
    BY <1>2, <1>3, Scaling DEF Positive
  <2>3. d * (w + 1) = d * w + d
    BY DEF Positive
  <2> QED
    BY <1>1, <1>2, <2>1, <2>2, <2>3 DEF Positive
<1> QED
  BY <1>2, <1>3

LEMMA GridAxisInside ==
  ASSUME NEW minimum \in Int, NEW maximum \in Int, minimum <= maximum,
         NEW index \in 0 .. (GridSize - 1)
  PROVE  GridAxis(minimum, maximum)[index] \in minimum .. maximum
<1> DEFINE k == 2 * index + 1
           w == maximum - minimum
           d == 2 * GridSize
<1>1. k \in Nat /\ w \in Nat /\ d \in Positive /\ k <= d
  BY GridAssumption DEF Positive
<1> HIDE DEF k, w, d
<1>2. (k * w) \div d \in 0 .. w
  BY <1>1, Share
<1> QED
  BY <1>2 DEF GridAxis, k, w, d

\* Every random start, drawn or safe, is a valid one inside the area.
LEMMA RandomStartsAreValid ==
  ASSUME NEW w \in World, HasRandomStartArea(w), NEW p \in RandomStarts(w)
  PROVE  p \in Area(w) /\ IsValidRandomStart(w, p[1], p[2])
<1>1. CASE p \in Area(w) /\ IsValidRandomStart(w, p[1], p[2])
  BY <1>1
<1>2. CASE p \in SafePositions(w)
  <2>1. PICK c \in ValidCells(w) : p = <<GridX(w)[c[1]], GridZ(w)[c[2]]>>
    BY <1>2 DEF SafePositions
  <2>2. c[1] \in 0 .. (GridSize - 1) /\ c[2] \in 0 .. (GridSize - 1)
        /\ IsValidRandomStart(w, p[1], p[2])
    BY <2>1 DEF ValidCells
  <2>3. /\ MinX(w) \in Int /\ MaxX(w) \in Int /\ MinX(w) <= MaxX(w)
        /\ MinZ(w) \in Int /\ MaxZ(w) \in Int /\ MinZ(w) <= MaxZ(w)
    BY DistancesAssumption DEF MinX, MaxX, MinZ, MaxZ, World, Bounds, HasRandomStartArea
  <2>4. GridX(w)[c[1]] \in MinX(w) .. MaxX(w) /\ GridZ(w)[c[2]] \in MinZ(w) .. MaxZ(w)
    BY <2>2, <2>3, GridAxisInside DEF GridX, GridZ
  <2> QED
    BY <2>1, <2>2, <2>4 DEF Area
<1> QED
  BY <1>1, <1>2 DEF RandomStarts

LEMMA RandomStartsAreClear ==
  ASSUME NEW w \in World, HasRandomStartArea(w), NEW p \in RandomStarts(w)
  PROVE  /\ p[1] \in Int /\ p[2] \in Int
         /\ ~InGoal(w, p[1], p[2])
         /\ w.robot_radius <= BoundaryInset => ~Collides(w, p[1], p[2])
<1>1. p \in Area(w) /\ IsValidRandomStart(w, p[1], p[2])
  BY RandomStartsAreValid
<1>2. /\ w.bounds.min_x \in Int /\ w.bounds.max_x \in Int
      /\ w.bounds.min_z \in Int /\ w.bounds.max_z \in Int /\ w.robot_radius \in Int
  BY DEF World, Bounds, Positive
<1>3. /\ p[1] \in Int /\ p[1] >= MinX(w) /\ p[1] <= MaxX(w)
      /\ p[2] \in Int /\ p[2] >= MinZ(w) /\ p[2] <= MaxZ(w)
  BY <1>1, <1>2, DistancesAssumption DEF Area, MinX, MaxX, MinZ, MaxZ
<1>4. ~InGoal(w, p[1], p[2]) /\ \A box \in w.boxes : ~Hits(w, box, p[1], p[2])
  BY <1>1, <1>3, ClearStart
<1>5. w.robot_radius <= BoundaryInset => ~OutOfBounds(w, p[1], p[2])
  BY <1>2, <1>3, DistancesAssumption DEF OutOfBounds, MinX, MaxX, MinZ, MaxZ
<1> QED
  BY <1>3, <1>4, <1>5 DEF Collides

------------------------------------------------------------------------------
(* What the server accepts the trainer converts.                           *)

LEMMA ValidConverts ==
  ASSUME NEW b \in ScenarioBundle, BundleValid(b)
  PROVE  Converts(b)
<1>1. OfType(b, "forward_camera") # {} /\ OfType(b, "goal_vector") # {}
  BY FS_EmptySet DEF BundleValid, SensorsValid
<1>2. ASSUME NEW name \in DOMAIN RewardTypes
      PROVE  \E i \in Named(b, name) :
               /\ \A j \in Named(b, name) : j <= i
               /\ b.reward[i].type = RewardTypes[name]
  <2>1. PICK i \in DOMAIN b.reward : b.reward[i].name = name
    BY DEF BundleValid, RewardValid
  <2>2. i \in Named(b, name) /\ \A j \in Named(b, name) : j = i
    BY <2>1 DEF Named, BundleValid, RewardValid
  <2>3. b.reward[i].type = RewardTypes[name]
    BY <2>1 DEF BundleValid, RewardValid
  <2>4. i \in Int
    BY DEF ScenarioBundle
  <2> QED
    BY <2>2, <2>3, <2>4
<1> QED
  BY <1>1, <1>2 DEF Converts

------------------------------------------------------------------------------
(* The inductive invariant.                                                *)

\* Each phase implies what the ones before it found out.
PhasesInOrder ==
  /\ phase \in {"valid", "accepted", "evaluating", "evaluated"} => BundleValid(bundle)
  /\ phase \in {"accepted", "evaluating"} => EnvironmentBuilds(bundle)
  /\ phase \notin {"evaluating", "evaluated"} =>
       episode = 0 /\ done /\ row = NoRow /\ rows = 0 /\ successes = 0 /\ goals = 0

\* Every episode that is over has at most a row a step and its initial row.
RowsPerEpisode ==
  /\ ~done => /\ episode > 0
              /\ steps < training.max_episode_steps
              /\ rows <= (episode - 1) * (training.max_episode_steps + 1) + steps + 1
  /\ done => rows <= episode * (training.max_episode_steps + 1)

\* A robot with a random start is outside the goal until its episode ends.
OutsideTheGoal ==
  training.randomize_start /\ phase = "evaluating" /\ ~done => ~InGoal(world, robot.x, robot.z)

IInv ==
  /\ TypeOK
  /\ PhasesInOrder
  /\ RowsPerEpisode
  /\ OutsideTheGoal
  /\ RobotStaysClear
  /\ GoalRewardIsSuccess
  /\ AcceptedIsTrainable

LEMMA BundleType ==
  ASSUME TypeOK
  PROVE  /\ bundle \in ScenarioBundle
         /\ world \in World
         /\ training.max_episode_steps \in Positive
         /\ training.eval_episodes \in Positive
         /\ training.randomize_start \in BOOLEAN
BY BundlesAssumption DEF TypeOK, ScenarioBundle, world, training

LEMMA InitInv == Init => IInv
<1> SUFFICES ASSUME Init PROVE IInv
  OBVIOUS
<1>1. bundle \in ScenarioBundle
  BY BundlesAssumption DEF Init
<1>2. TypeOK
  BY <1>1 DEF Init, TypeOK, NoRow, ScenarioBundle, training, Positive
<1>3. training.max_episode_steps \in Nat
  BY <1>1 DEF ScenarioBundle, training, Positive
<1>4. RowsPerEpisode
  BY <1>3 DEF Init, RowsPerEpisode
<1> QED
  BY <1>2, <1>4 DEF Init, IInv, PhasesInOrder, OutsideTheGoal, RobotStaysClear,
     GoalRewardIsSuccess, AcceptedIsTrainable, NoRow

LEMMA ValidateKeeps == IInv /\ Validate => IInv'
BY DEF IInv, Validate, scene, TypeOK, Ends, PhasesInOrder, RowsPerEpisode, OutsideTheGoal,
   RobotStaysClear, GoalRewardIsSuccess, AcceptedIsTrainable, training, world

LEMMA SubmitKeeps == IInv /\ Submit => IInv'
<1> SUFFICES ASSUME IInv, Submit PROVE IInv'
  OBVIOUS
<1>1. Converts(bundle)
  BY ValidConverts, BundleType DEF IInv, Submit, PhasesInOrder
<1>2. phase' \in {"accepted", "no_room"}
      /\ (phase' = "accepted" => EnvironmentBuilds(bundle))
  BY <1>1 DEF Submit, EnvironmentBuilds, training, world
<1> QED
  BY <1>2 DEF IInv, Submit, scene, TypeOK, Ends, PhasesInOrder, RowsPerEpisode,
     OutsideTheGoal, RobotStaysClear, GoalRewardIsSuccess, AcceptedIsTrainable, training, world

LEMMA BuildKeeps == IInv /\ BuildEnvironment => IInv'
<1> SUFFICES ASSUME IInv, BuildEnvironment PROVE IInv'
  OBVIOUS
<1>1. Converts(bundle)
  BY ValidConverts, BundleType DEF IInv, BuildEnvironment, PhasesInOrder
<1>2. phase' = "evaluating"
  BY <1>1 DEF IInv, BuildEnvironment, PhasesInOrder
<1> QED
  BY <1>2 DEF IInv, BuildEnvironment, scene, TypeOK, Ends, PhasesInOrder, RowsPerEpisode,
     OutsideTheGoal, RobotStaysClear, GoalRewardIsSuccess, AcceptedIsTrainable, training, world

LEMMA ResetKeeps == IInv /\ Reset => IInv'
<1> SUFFICES ASSUME IInv, Reset PROVE IInv'
  OBVIOUS
<1> DEFINE T == training.max_episode_steps
<1>0. /\ bundle \in ScenarioBundle /\ world \in World
      /\ T \in Positive /\ training.eval_episodes \in Positive
      /\ training.randomize_start \in BOOLEAN
  BY BundleType DEF IInv
<1>1. training.randomize_start =>
        /\ robot' \in Robot
        /\ ~InGoal(world, robot'.x, robot'.z)
        /\ world.robot_radius <= BoundaryInset => ~Collides(world, robot'.x, robot'.z)
  <2> SUFFICES ASSUME training.randomize_start
               PROVE  /\ robot' \in Robot
                      /\ ~InGoal(world, robot'.x, robot'.z)
                      /\ world.robot_radius <= BoundaryInset =>
                           ~Collides(world, robot'.x, robot'.z)
    OBVIOUS
  <2>1. HasRandomStartArea(world)
    BY DEF IInv, PhasesInOrder, EnvironmentBuilds, Reset, training, world
  <2>2. PICK p \in RandomStarts(world), h \in 0 .. 3 :
          robot' = [x |-> p[1], z |-> p[2], heading |-> h]
    BY DEF Reset
  <2> QED
    BY <1>0, <2>1, <2>2, RandomStartsAreClear DEF Robot
<1>2. robot' \in Robot
  BY <1>0, <1>1 DEF Reset, ScenarioBundle
<1>3. TypeOK'
  <2>1. /\ steps' = 0 /\ row' = NoRow /\ done' = FALSE
        /\ UNCHANGED <<bundle, phase, successes, goals>>
        /\ episode' = episode + 1 /\ episode < training.eval_episodes /\ rows' = rows + 1
    BY DEF Reset
  <2>2. training' = training
    BY <2>1 DEF training
  <2>3. /\ bundle \in Bundles /\ phase \in {"submitted", "valid", "accepted", "evaluating"} \union Ends
        /\ episode \in 0 .. training.eval_episodes
        /\ rows \in Nat /\ successes \in Nat /\ goals \in Nat
    BY DEF IInv, TypeOK
  <2>4. /\ steps' \in 0 .. T /\ episode' \in 0 .. training.eval_episodes /\ rows' \in Nat
    BY <1>0, <2>1, <2>3 DEF Positive
  <2>5. row' \in [step_index : Nat, collision : BOOLEAN, goal_rewarded : BOOLEAN,
                  reason : {"none", "collision", "goal_reached", "max_steps"}]
    BY <2>1 DEF NoRow
  <2> QED
    BY <1>2, <2>1, <2>2, <2>3, <2>4, <2>5 DEF TypeOK
<1>4. RowsPerEpisode'
  <2>1. rows \in Nat /\ episode \in Nat /\ rows <= episode * (T + 1)
    BY DEF IInv, RowsPerEpisode, Reset, TypeOK
  <2>2. episode' - 1 = episode /\ T' = T /\ steps' = 0 /\ rows' = rows + 1 /\ ~done'
    BY <2>1 DEF Reset, training
  <2>3. episode * (T + 1) \in Int /\ 0 < T /\ episode' > 0
    BY <1>0, <2>1 DEF Positive, Reset
  <2>4. rows' <= (episode' - 1) * (T' + 1) + steps' + 1
    BY <2>1, <2>2, <2>3
  <2> QED
    BY <2>2, <2>3, <2>4 DEF RowsPerEpisode, training
<1>5. OutsideTheGoal' /\ RobotStaysClear'
  BY <1>1 DEF Reset, OutsideTheGoal, RobotStaysClear, training, world
<1> QED
  BY <1>3, <1>4, <1>5 DEF IInv, Reset, PhasesInOrder, GoalRewardIsSuccess, AcceptedIsTrainable,
     training, world, NoRow, EnvironmentBuilds

LEMMA StepKeeps ==
  ASSUME IInv, NEW turn \in -1 .. 1, NEW forward \in 1 .. bundle.forward_step_meters,
         Step(turn, forward)
  PROVE  IInv'
<1> DEFINE T == training.max_episode_steps
           heading == Turned(turn)
           dx == forward * Sin(heading)
           dz == forward * Cos(heading)
           collision == SegmentCollides(world, robot.x, robot.z, dx, dz)
           reached == InGoal(world, robot'.x, robot'.z)
<1>0. /\ bundle \in ScenarioBundle /\ world \in World
      /\ T \in Positive /\ training.eval_episodes \in Positive
      /\ training.randomize_start \in BOOLEAN
  BY BundleType DEF IInv
<1>1. heading \in 0 .. 3 /\ robot.x \in Int /\ robot.z \in Int
  BY DEF IInv, TypeOK, Robot, Turned
<1>2. forward \in Int /\ forward > 0
  BY <1>0 DEF ScenarioBundle, Positive
<1>3. dx \in Int /\ dz \in Int /\ (dx # 0 \/ dz # 0)
  BY <1>1, <1>2 DEF Sin, Cos
<1>4. /\ robot' \in Robot
      /\ collision => robot'.x = robot.x /\ robot'.z = robot.z
      /\ ~collision => robot'.x = robot.x + dx /\ robot'.z = robot.z + dz
  BY <1>1, <1>3 DEF Step, Robot
<1>5. /\ done' = (reached \/ collision \/ steps + 1 >= T)
      /\ row' = [step_index |-> steps + 1, collision |-> collision,
                 goal_rewarded |-> reached,
                 reason |-> Reason(reached \/ collision, steps + 1 >= T, collision)]
      /\ successes' = IF (reached \/ collision) /\ ~collision THEN successes + 1 ELSE successes
      /\ goals' = IF row'.reason = "goal_reached" THEN goals + 1 ELSE goals
      /\ phase = "evaluating" /\ ~done /\ steps' = steps + 1 /\ rows' = rows + 1
      /\ UNCHANGED <<bundle, phase, episode>>
  BY DEF Step
<1>6. training' = training /\ world' = world
  BY <1>5 DEF training, world
<1> HIDE DEF heading, dx, dz, collision, reached
<1>7. steps \in Nat /\ rows \in Nat /\ episode \in Nat /\ successes \in Nat /\ goals \in Nat
      /\ steps < T /\ episode > 0
      /\ rows <= (episode - 1) * (T + 1) + steps + 1
  BY <1>5 DEF IInv, TypeOK, RowsPerEpisode
<1>8. row'.reason \in {"none", "collision", "goal_reached", "max_steps"}
      /\ (row'.reason = "goal_reached" <=> reached /\ ~collision)
      /\ (row'.goal_rewarded <=> reached)
  BY <1>5 DEF Reason
<1>9. reached \in BOOLEAN /\ collision \in BOOLEAN
  BY DEF reached, collision, InGoal, SegmentCollides
<1>10. TypeOK'
  <2>1. row' \in [step_index : Nat, collision : BOOLEAN, goal_rewarded : BOOLEAN,
                  reason : {"none", "collision", "goal_reached", "max_steps"}]
    BY <1>5, <1>7, <1>8, <1>9
  <2>2. steps' \in 0 .. T /\ rows' \in Nat /\ successes' \in Nat /\ goals' \in Nat
        /\ done' \in BOOLEAN
    BY <1>0, <1>5, <1>7 DEF Positive
  <2> QED
    BY <1>4, <1>5, <1>6, <2>1, <2>2 DEF IInv, TypeOK
<1>11. RowsPerEpisode'
  <2>1. (episode - 1) * (T + 1) \in Int /\ (episode - 1) * (T + 1) + (T + 1) = episode * (T + 1)
    BY <1>0, <1>7 DEF Positive
  <2>2. rows' <= (episode - 1) * (T + 1) + steps' + 1
    BY <1>5, <1>7, <2>1
  <2>3. rows' <= episode * (T + 1)
    BY <1>0, <1>5, <1>7, <2>1 DEF Positive
  <2>4. ~done' => steps' < T
    <3>1. T \in Int
      BY <1>0 DEF Positive
    <3>2. ~done' => ~(steps + 1 >= T)
      BY <1>5
    <3> HIDE DEF T
    <3> QED
      BY <1>5, <1>7, <3>1, <3>2
  <2> QED
    BY <1>5, <1>6, <1>7, <2>2, <2>3, <2>4 DEF RowsPerEpisode
<1>12. OutsideTheGoal'
  BY <1>5, <1>6 DEF OutsideTheGoal, reached
<1>13. RobotStaysClear'
  <2> SUFFICES ASSUME training.randomize_start, world.robot_radius <= BoundaryInset
               PROVE  ~Collides(world, robot'.x, robot'.z)
    BY <1>6 DEF RobotStaysClear
  <2>1. ~Collides(world, robot.x, robot.z)
    BY <1>5, <1>7 DEF IInv, RobotStaysClear
  <2>2. CASE collision
    BY <1>4, <2>1, <2>2
  <2>3. CASE ~collision
    BY <1>0, <1>1, <1>3, <1>4, <2>3, WayEndsClear DEF collision
  <2> QED
    BY <2>2, <2>3
<1>14. GoalRewardIsSuccess'
  <2> SUFFICES ASSUME training.randomize_start
               PROVE  (row'.goal_rewarded <=> row'.reason = "goal_reached")
                      /\ successes' = goals'
    BY <1>6 DEF GoalRewardIsSuccess
  <2>1. ~InGoal(world, robot.x, robot.z) /\ successes = goals
    BY <1>5 DEF IInv, OutsideTheGoal, GoalRewardIsSuccess
  <2>2. collision => ~reached
    BY <1>4, <2>1 DEF reached
  <2> QED
    BY <1>5, <1>8, <2>1, <2>2
<1> QED
  BY <1>5, <1>6, <1>10, <1>11, <1>12, <1>13, <1>14
     DEF IInv, PhasesInOrder, AcceptedIsTrainable, EnvironmentBuilds

LEMMA WriteKeeps == IInv /\ WriteEvalCheckpoint => IInv'
BY DEF IInv, WriteEvalCheckpoint, scene, TypeOK, Ends, PhasesInOrder, RowsPerEpisode,
   OutsideTheGoal, RobotStaysClear, GoalRewardIsSuccess, AcceptedIsTrainable, training, world

LEMMA StutterKeeps == IInv /\ UNCHANGED vars => IInv'
BY DEF IInv, vars, scene, TypeOK, Ends, PhasesInOrder, RowsPerEpisode, OutsideTheGoal,
   RobotStaysClear, GoalRewardIsSuccess, AcceptedIsTrainable, EnvironmentBuilds, training, world

LEMMA Inductive == Spec => []IInv
<1>1. IInv /\ [Next]_vars => IInv'
  <2> SUFFICES ASSUME IInv, [Next]_vars PROVE IInv'
    OBVIOUS
  <2>1. CASE Validate
    BY <2>1, ValidateKeeps
  <2>2. CASE Submit
    BY <2>2, SubmitKeeps
  <2>3. CASE BuildEnvironment
    BY <2>3, BuildKeeps
  <2>4. CASE Reset
    BY <2>4, ResetKeeps
  <2>5. ASSUME NEW turn \in -1 .. 1, NEW forward \in 1 .. bundle.forward_step_meters,
               Step(turn, forward)
        PROVE  IInv'
    BY <2>5, StepKeeps
  <2>6. CASE WriteEvalCheckpoint
    BY <2>6, WriteKeeps
  <2>7. CASE Ended \/ UNCHANGED vars
    BY <2>7, StutterKeeps DEF Ended
  <2> QED
    BY <2>1, <2>2, <2>3, <2>4, <2>5, <2>6, <2>7 DEF Next
<1> QED
  BY <1>1, InitInv, PTL DEF Spec

------------------------------------------------------------------------------
(* The theorems.                                                           *)

\* The state of the environment and of the evaluation has its types.
THEOREM TypeCorrect == Spec => []TypeOK
BY Inductive, PTL DEF IInv

\* ContinuousNavigationEnv: with a random start and a radius of at most the
\* boundary inset, the robot never stands where its own collision test fails.
THEOREM StaysClear == Spec => []RobotStaysClear
BY Inductive, PTL DEF IInv

\* evaluate_continuous_policy: with a random start, the rows rewarded for the
\* goal are those that say it was reached, and as many as the successes.
THEOREM RewardIsSuccess == Spec => []GoalRewardIsSuccess
BY Inductive, PTL DEF IInv

\* ScenarioBundle's validators admit nothing the trainer's conversion and its
\* environment would raise at.
THEOREM AcceptedTrains == Spec => []AcceptedIsTrainable
BY Inductive, PTL DEF IInv

LEMMA RowsFit == IInv => EvaluationFitsItsChunk
<1> SUFFICES ASSUME IInv, phase \in {"evaluating", "evaluated"}
             PROVE  rows <= MaxChunkSteps
  BY DEF EvaluationFitsItsChunk
<1> DEFINE T == training.max_episode_steps
           E == training.eval_episodes
<1>1. T \in Positive /\ E \in Positive /\ rows \in Nat /\ episode \in 0 .. E /\ steps \in Nat
  BY BundleType DEF IInv, TypeOK
<1>2. E * (T + 1) <= MaxChunkSteps
  BY DEF IInv, PhasesInOrder, BundleValid, EvalReplayFits, training
<1> HIDE DEF T, E
<1>3. episode * (T + 1) <= E * (T + 1)
  BY <1>1 DEF Positive
<1>4. rows <= episode * (T + 1)
  <2>1. CASE done
    BY <2>1 DEF IInv, RowsPerEpisode, T
  <2>2. CASE ~done
    <3>1. steps < T /\ rows <= (episode - 1) * (T + 1) + steps + 1
      BY <2>2 DEF IInv, RowsPerEpisode, T
    <3>2. (episode - 1) * (T + 1) + (T + 1) = episode * (T + 1)
          /\ (episode - 1) * (T + 1) \in Int
      BY <1>1 DEF Positive
    <3> QED
      BY <1>1, <3>1, <3>2 DEF Positive
  <2> QED
    BY <2>1, <2>2
<1> QED
  BY <1>1, <1>2, <1>3, <1>4, MaxChunkStepsAssumption DEF Positive

\* TrainingSpec's check of eval_episodes bounds the rows, initial ones included,
\* of an evaluation's chunk.
THEOREM EvaluationFits == Spec => []EvaluationFitsItsChunk
BY Inductive, RowsFit, PTL
LEMMA StepLeadsThroughNothing ==
  ASSUME IInv, NEW turn \in -1 .. 1, NEW forward \in 1 .. bundle.forward_step_meters,
         Step(turn, forward), NEW box \in world.boxes
  PROVE  ~Crosses(box, robot, robot')
<1> DEFINE heading == Turned(turn)
           dx == forward * Sin(heading)
           dz == forward * Cos(heading)
           collision == SegmentCollides(world, robot.x, robot.z, dx, dz)
<1>1. bundle \in ScenarioBundle /\ world \in World
  BY BundleType DEF IInv
<1>2. heading \in 0 .. 3 /\ robot.x \in Int /\ robot.z \in Int /\ forward \in Int /\ forward > 0
  <2>1. heading \in 0 .. 3 /\ robot.x \in Int /\ robot.z \in Int
    BY DEF IInv, TypeOK, Robot, Turned
  <2>2. bundle.forward_step_meters \in Nat
    BY <1>1 DEF ScenarioBundle, Positive
  <2> QED
    BY <2>1, <2>2
<1>3. dx \in Int /\ dz \in Int /\ (dx = 0 \/ dz = 0) /\ (dx # 0 \/ dz # 0)
  BY <1>2 DEF Sin, Cos
<1>4. /\ collision => robot'.x = robot.x /\ robot'.z = robot.z
      /\ ~collision => robot'.x = robot.x + dx /\ robot'.z = robot.z + dz
  BY DEF Step
<1> HIDE DEF heading, dx, dz
<1>5. CASE collision
  <2>1. box \in Box /\ world.robot_radius \in Positive
    BY <1>1 DEF World
  <2>2. /\ LocalX(box, robot.x, robot.z) \in Int /\ LocalZ(box, robot.x, robot.z) \in Int
        /\ box.size_x + 2 * world.robot_radius \in Nat
        /\ box.size_z + 2 * world.robot_radius \in Nat
    BY <1>2, <2>1, LocalType DEF Box, Positive
  <2>3. \A p \in Int, size \in Nat : ~Through(2 * p, 2 * p, size)
    BY DEF Through
  <2> QED
    BY <1>4, <1>5, <2>2, <2>3 DEF Crosses
<1>6. CASE ~collision
  BY <1>1, <1>2, <1>3, <1>4, <1>6, WayIsNotThrough DEF Crosses, collision
<1> QED
  BY <1>5, <1>6

\* ContinuousNavigationEnv: however long a step, however the boxes stand and
\* whatever the distance between probes, the robot never gets to the other side
\* of a box that is, grown by its radius, as thick as that distance.
THEOREM DrivesThroughNothing == Spec => NothingIsDrivenThrough
<1>1. IInv /\ [Next]_vars
        => [steps' = steps + 1 => \A box \in world.boxes : ~Crosses(box, robot, robot')]_vars
  <2> SUFFICES ASSUME IInv, Next, steps' = steps + 1, NEW box \in world.boxes
               PROVE  ~Crosses(box, robot, robot')
    OBVIOUS
  <2>1. steps \in Nat
    BY DEF IInv, TypeOK
  <2>2. CASE Validate \/ Submit \/ BuildEnvironment \/ WriteEvalCheckpoint \/ Ended
    BY <2>1, <2>2 DEF Validate, Submit, BuildEnvironment, WriteEvalCheckpoint, Ended, scene, vars
  <2>3. CASE Reset
    BY <2>1, <2>3 DEF Reset
  <2>4. ASSUME NEW turn \in -1 .. 1, NEW forward \in 1 .. bundle.forward_step_meters,
               Step(turn, forward)
        PROVE  ~Crosses(box, robot, robot')
    BY <2>4, StepLeadsThroughNothing
  <2> QED
    BY <2>2, <2>3, <2>4 DEF Next
<1> QED
  BY <1>1, Inductive, PTL DEF Spec, NothingIsDrivenThrough
==============================================================================
