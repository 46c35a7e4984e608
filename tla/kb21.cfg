SPECIFICATION Spec
CONSTANTS
  R = 2003
  Alpha = 611
  Elements <- MCElements
  Prf <- MCPrf
  InitialValue = 5
  MaxRemovals = 2
  MaxSlips = 1
INVARIANTS UpdatedVerifies OnlyRevokedRefused ProofsExact
PROPERTY ImplementsLifecycle
CHECK_DEADLOCK FALSE
