SPECIFICATION Spec
CONSTANTS
  Containers = {web, db}
  Kinds <- KindsAB
  Rules <- Rules2
  Steps <- StepsOfPair
  Window <- ShortWindow
  Rank <- RankOfPair
  AppliesTo <- Everywhere
  PolicySets <- AllRules
  SeqIdle = 3
  SeqMaxContainers = 1
  MaxSkew = 1
  MaxReplaced = 1
  MaxTime = 4
  MaxEvents = 4
INVARIANTS TypeOK HitsAreSequences OnePolicySet TrackedBounded
PROPERTY FiresExactly
CHECK_DEADLOCK FALSE
SYMMETRY Alike
