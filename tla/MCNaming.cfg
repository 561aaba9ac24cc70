\* Two names at a time, of any of the three stores; ids of different lengths,
\* with and without hyphens; up to two parts, with and without separators.
SPECIFICATION Spec
CONSTANTS
  Chars <- MCChars
  IdChars <- MCIdChars
  Ids <- MCIds
  PartLists <- MCPartLists
  Join <- MCJoin
  MaxUses = 2
INVARIANTS
  NamespacesApart
  PartsApart
CHECK_DEADLOCK FALSE
