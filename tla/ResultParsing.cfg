SPECIFICATION Spec
CONSTANTS
  Patterns = {"number", "string", "serving", "intrafreq"}
  Addresses = {a1, a2}
  Null = Null
  SliceSize = 10
  Columns = 2
  MaxText = 4
  MaxRows = 2
  MaxCalls = 2
INVARIANTS TypeOK CachesSound TableTells TableReleased
  CrashesForAReason ResultOfThisAnswer
CHECK_DEADLOCK FALSE
