SPECIFICATION FairSpec
CONSTANTS
  Nodes = {n1, n2, n3, n4}
  Faulty = {n4}
  Results = {r1, r2, nack}
  MaxVersion = 1
  Threshold = 0
  number_read_nodes = 2
  Periods <- PeriodsUpToNow
  Orders <- FaultyPlaces
  Unknown = unknown
  NodeLists <- DistinctLists
INVARIANTS
  OkIsHonest
  ImpossibleIsTrue
  ReadIsReal
  ReadIsFresh
  StateProofsDecide
  ReplyIsComplete
PROPERTIES
  ImplementsHandler
CHECK_DEADLOCK FALSE
