SPECIFICATION Spec
CONSTANTS
  Repeats = 1
  MaxFaults = 1
  Objects = {o1, o2}
  None = None
  Faults = {}
PROPERTY CtrlCQuits
