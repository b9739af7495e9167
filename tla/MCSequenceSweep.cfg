SPECIFICATION Spec
CONSTANTS
  Containers <- One
  Kinds <- KindsAB
  Rules <- Rules1
  Steps <- StepsOfOne
  Window <- LongWindow
  Rank <- RankOfOne
  AppliesTo <- Everywhere
  PolicySets <- AllRules
  SeqIdle = 2
  SeqMaxContainers = 2
  MaxSkew = 1
  MaxReplaced = 0
  MaxTime = 4
  MaxEvents = 4
INVARIANT SweepDropsOnlyExpired
CHECK_DEADLOCK FALSE
