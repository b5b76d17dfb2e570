CONSTANTS
  k1 = k1  k2 = k2  k3 = k3  m1 = m1  m2 = m2  Null = Null
  Keys = {k1, k2, k3}  Models = {m1, m2}
  Input <- MCInput  Ends <- MCEnds
  Questions <- MCQuestions  KeyBytes <- MCKeyBytes  WireBytes <- MCWireBytes
  AnswerBytes = {1, 2}
  BatchSize = 2  PackBytes = 3
  Concurrency = 1  VectorSize = 2
  MaxRows = 3  MaxRetained = 6  MaxResult = 5  SizeMax = 7
  MaxFaults = 1
SPECIFICATION FairSpec
INVARIANTS EachQuestionOnce BudgetsExact
PROPERTIES ImplementsJudged EverythingReturned
