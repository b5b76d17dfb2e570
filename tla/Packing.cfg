\* Three questions of length 1 make a full pack of 12 bytes; one of 9 is too
\* long alone; four of 4 are too much.
CONSTANTS
  Sizes = {1, 2, 4, 9}
  IdBytes <- MCIdBytes
  PrefixBytes = 1  BatchSize = 3  Bytes = 12
  MaxTotal = 30  MaxQuestions = 7
SPECIFICATION Spec
CHECK_DEADLOCK FALSE
INVARIANTS AllSendable BytesExact SamePacks
