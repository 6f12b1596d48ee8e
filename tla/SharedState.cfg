\* Two keys, so that a lost diff shows; two publications, so that one can be
\* missed and the other go wrong or right.
CONSTANTS
  Subscribers = {"s"}
  Others = {"o"}
  Key = {"x", "y"}
  Val = {"u"}
  Documents <- MCDocuments
  Kinds = {"Full", "Diff"}
  MaxPublishes = 2
  MaxStops = 1
SPECIFICATION FairSpec
INVARIANTS
  DriftsOnlyOverAGap
  VersionsAddUp

  
CHECK_DEADLOCK FALSE
