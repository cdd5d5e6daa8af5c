SPECIFICATION Spec
CONSTANTS
  MaxSize = 4
  MaxChunk = 3
  MaxBytes = 7
INVARIANT TypeOK
INVARIANT Accounted
INVARIANT ReportsAddUp
INVARIANT ResultIsTrue
PROPERTY FollowsProtocol
