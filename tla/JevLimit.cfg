\* Two streams; either may be closed early by a LIMIT.
SPECIFICATION JevSpec
CONSTANTS
  k1 = k1
  k2 = k2
  ra = ra
  rb = rb
  rc = rc
  rd = rd
  re = re
  t1 = t1
  t2 = t2
  scopeA = scopeA
  None = None
  NoScope = NoScope
  Open = Open
  Broken = Broken
  Threads = {t1, t2}
  Claims = {ra, rb, rc, rd, re}
  Calls <- StreamCalls
  RowKey <- StreamKeys
  Keys = {k1, k2}
  KeySize <- OneByte
  AnswerSizes = {1}
  Settings <- AmpleSetting
  MaxAnswers = 4
  MaxFlights = 4
  MaxSession = 4
  FlightBytes = 8
  SizeMax = 1000
  MaxTime = 0
  BatchSize = 2
  Concurrency = 1
  MaxRows = 2
  VectorSize = 1
  MaxFaults = 0
INVARIANTS
  OnlyFailuresBreak
