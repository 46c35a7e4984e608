SPECIFICATION MainSpec
CONSTANTS
  Arguments <- MCArguments
  NoFlag = NoFlag
  QuickDefaults <- MCQuick
  FullDefaults <- MCFull
  DefaultLimit = 45000
  CaseNames <- MCCaseNames
  Jobs = {}
  Outcomes <- MCOutcomes
  U32 = 16
  Zones = {1}
  RawReadings <- MCRaw
  Unreadable = 0
INVARIANTS SetupOnlySelected ReportsTheSelection OneSectionEach CsvStdoutClean EmptyFilterFails
PROPERTIES QuickAlwaysEnds FullEndsOnceCool
CHECK_DEADLOCK FALSE
