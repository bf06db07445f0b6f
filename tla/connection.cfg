SPECIFICATION FairSpec
CONSTANTS
  MaxConnections = 3
  MaxEvents = 1
  MaxRevokes = 2
  MaxInterval = 3
INVARIANTS
  OldConnectionsAreOver
  ScreenIsCurrent
  RevokeMatches
  WaitsGrow
PROPERTIES
  RevokeEnds
  ComesBack
CHECK_DEADLOCK FALSE
