SPECIFICATION Spec
CONSTANTS
  Totals <- MCTotals
  Epoch = 1025
  Credential <- MCCredential
  F = 17
  U64 = 16
  RANGE = 4
  Widths <- MCWidths
  Ids <- MCIds
  Rands <- MCRands
  EXPIRY_TS = 19
INVARIANTS OnlyHit AcceptsStrictlyInside PartsAsClaimed RangeStatementExact
PROPERTY UpdateSucceeds
CHECK_DEADLOCK FALSE
