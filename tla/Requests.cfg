\* Two requests of one query.  The backoff is 4, then 8 with a jitter of 0 or 1;
\* a Retry-After of 6 is more than Cap, and one of 17 overflows below zero.
CONSTANTS
  r1 = r1  r2 = r2
  Requests = {r1, r2}
  Questions <- MCQuestions
  Payload <- MCPayload
  Retries = 2  Base = 4  Cap = 10
  Second = 2  HeaderMax = 11  IntMax = 32  PollEvery = 10
  Headers = {6, 17}
  Statuses = {200, 500}
  BodyMax = 1  Chunks = {1}  Tokens = {0}
SPECIFICATION RecordingFairSpec
INVARIANTS MetricsExact
PROPERTIES DelayOfThisAttempt ImplementsLogicalCall ImplementsMaxRegister EveryRequestRecords
