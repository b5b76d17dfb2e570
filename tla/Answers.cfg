CONSTANTS
  Calls <- MCCalls  Truths <- MCTruths  Samples <- MCSamples
  LevelKeys <- MCLevelKeys  Junk <- MCJunk
  Unit = 100  Fine = 6  SumTolerance = 2  ScoreTolerance = 5
  MaxChoices = 3  MaxLevels = 3
  MaxFaults = 2
SPECIFICATION Spec
CHECK_DEADLOCK FALSE
INVARIANTS ReadsSucceed WholeJudgment ScoreIsExpected HonestAccepted
