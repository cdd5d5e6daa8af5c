SPECIFICATION Spec
CONSTANTS
  Drivers = {"em7565", "mc7455"}
  Quantities = {"protected", "rat", "gpsloc"}
  Drifting = {"gpsloc"}
  Values = {v1, v2}
  Disabled = v1
  NoValue = NoValue
  MaxCalls = 2
  MaxUnasked = 1
INVARIANT TypeOK
INVARIANT SettersEffective
INVARIANT ReadingsTrue
INVARIANT OwnsWhatItReturned
PROPERTY UsesAtInterface
CHECK_DEADLOCK FALSE
