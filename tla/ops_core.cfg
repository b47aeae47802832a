\* Every operator over every child stream of up to three tuples of
\* {-4, 1, 3} x {"a", "ab"}, int64 kept as 3-bit two's complement so that
\* sums wrap both ways.  A query ends: the state where the stream has ended
\* has no successor.
CONSTANTS
  IntWidth = 3
  IntVals <- MCIntVals
  StrVals <- MCStrVals
  MaxRows = 3
  StringLength = 2
  LimitArgs = {0, 2}
  SelectLists <- MCSelectLists
  OrderLists <- MCOrderLists
  Aliases = {"t", "u"}
  ResolveLists <- MCResolveLists
SPECIFICATION Spec
CHECK_DEADLOCK FALSE
INVARIANTS
  TypeOK
  LimitYieldsFirstN
  ProjectYieldsFirstOccurrences
  JoinYieldsLeftMajorMatches
  ChildErrorsPropagate
  OrderByIsStableSort
  AggregatesAgreeWithFolds
  ProjectResolvesAsSpecified
  StoredTuplesReadBack
