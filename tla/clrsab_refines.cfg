SPECIFICATION Spec
CONSTANTS
  PP = 23
  QQ = 359
  Elements <- MCMoreElements
  InitialValues <- MCInitialValues
  DebugAssertions = FALSE
  MemberOnly = TRUE
  MaxRemovals = 3
  MaxSlips = 1
CONSTRAINT OneHolder
INVARIANT VerifyDetectsBadUpdate
PROPERTY ImplementsLifecycle
CHECK_DEADLOCK FALSE
