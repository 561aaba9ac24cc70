\* Three tokens (a first, a middle and a last one), a wire that holds two lines,
\* and two lines without a token, so that [DONE] and one other can both be sent.
SPECIFICATION Spec
CONSTANTS
  Tokens = 3
  MaxNoise = 2
  MaxWire = 2
INVARIANTS
  TokensInOrder
  DoneIsComplete
PROPERTY
  ConnectionReturned
CHECK_DEADLOCK FALSE
