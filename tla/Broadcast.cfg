\* Two events, published in any order, are pushed, some of them twice, while
\* connections come, one of them goes, and the instance is replaced.
SPECIFICATION FairSpec
CONSTANTS
  Writers = {w1, w2}
  LastVersion = 2
  Conns = {c1, c2}
  Leavers = {c2}
  Pushes = {p1, p2}
  NoSnapshot = NoSnapshot
INVARIANTS TypeOK RegistryFollowsHandlers NothingMissed
PROPERTIES PublishedIsTold
CHECK_DEADLOCK FALSE
