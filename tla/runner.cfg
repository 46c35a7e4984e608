SPECIFICATION Spec
CONSTANTS
  CaseNames = {"update", "prove"}
  Outcomes <- MCOutcomes
  U32 = 16
  Jobs <- MCJobs
  Zones = {1}
  RawReadings <- MCRaw
  Unreadable = 0
INVARIANTS RunTypeOK ResultsFaithful StatsDescribeSamples NoIdleGate PausesAddUp
PROPERTY EndsUnlessHot
CHECK_DEADLOCK FALSE
