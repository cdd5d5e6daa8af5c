SPECIFICATION Spec
CONSTANTS
  Ports = {p1, p2}
  Drivers = {"em7565", "mc7455"}
  Null = Null
  MaxPlugs = 3
  MaxInits = 2
INVARIANTS ListExact OpensItsDevice OnlyFailedOpensLeak
CHECK_DEADLOCK FALSE
