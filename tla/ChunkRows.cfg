CONSTANTS
  k1 = k1  k2 = k2  m1 = m1  m2 = m2  Null = Null
  Keys = {k1, k2}  Models = {m1, m2}
  Input <- MCInput  Questions <- MCQuestions
  BatchSize = 2  MaxFaults = 1
SPECIFICATION Spec
CHECK_DEADLOCK FALSE
INVARIANTS PublishedComplete
PROPERTIES ImplementsJudged
