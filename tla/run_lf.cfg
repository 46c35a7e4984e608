SPECIFICATION Spec
CONSTANTS
  NumBenches = 2
  RepsGiven <- MCReps
INVARIANTS OwnOrLeftOver MergeMatchesReport AbortsOnlySilently
PROPERTY Ends
CHECK_DEADLOCK FALSE
