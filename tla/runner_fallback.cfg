SPECIFICATION Spec
CONSTANTS
  CaseNames = {"update", "prove"}
  Outcomes <- MCOutcomes
  U32 = 16
  Jobs <- MCJobs
  Zones = {1}
  RawReadings <- MCRaw
  Unreadable = 0
PROPERTY FallsBackToPause
CHECK_DEADLOCK FALSE
