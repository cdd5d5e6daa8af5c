SPECIFICATION FairSpec
CONSTANTS
  Repeats = 1
  MaxFaults = 1
  Objects = {o1, o2}
  None = None
  Faults = {"modem"}
PROPERTY NothingLeftEnds
