\* Up to seven texts: two full batches of three and a remainder of one.
SPECIFICATION Spec
CONSTANTS
  MaxTexts = 7
  BatchSizes <- MCBatchSizes
  Faithful = TRUE
INVARIANTS
  TypeOK
  VectorsAligned
  EachTextSentOnce
CHECK_DEADLOCK FALSE
