SPECIFICATION Spec
CONSTANTS
  MaxClients = 2
  FailLimit = 1
INVARIANT TypeOK
INVARIANT NewsOnTheWay
INVARIANT DropNeedsFailures
PROPERTY OnlyOwnExit
PROPERTY Served
