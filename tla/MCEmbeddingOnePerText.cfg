\* Every batch size that does not raise, and a provider that may leave items out.
SPECIFICATION Spec
CONSTANTS
  MaxTexts = 3
  BatchSizes <- MCReturningSizes
  Faithful = FALSE
INVARIANT
  OnePerText
CHECK_DEADLOCK FALSE
