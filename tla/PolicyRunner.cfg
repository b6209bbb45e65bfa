\* Two policies, two worker slots, one update request; only instant 1 is paid
\* for, of the instants 0, 1 and 2.
SPECIFICATION FairSpec
CONSTANTS
  Policies = {p1, p2}
  Workers = {w1, w2}
  MaxTime = 2
  BoughtFrom = 1
  BoughtUntil = 1
  limitbuy = p1
  Tolerance <- MCTolerance
  MaxEdits = 1
  NoRow = NoRow
  NoPolicy = NoPolicy
INVARIANTS
  TypeOK
  OneTaskPerPolicy
  StoppedMeansIdle
  RunMeansWorked
  DecidedInWindow
PROPERTIES
  LifeSpec
  EveryTaskEnds
  EveryPolicyStarts
