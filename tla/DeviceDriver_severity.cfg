SPECIFICATION Spec
CONSTANTS
  Drivers = {"mc7455"}
  Quantities = {"status"}
  Drifting = {"status"}
  Values = {v1, v2}
  Disabled = v1
  NoValue = NoValue
  MaxCalls = 1
  MaxUnasked = 1
PROPERTY SeverityKept
CHECK_DEADLOCK FALSE
