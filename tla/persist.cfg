SPECIFICATION FairPersistSpec
CONSTANTS
  Tokens = {t1}
  Conns = {}
  Browsers = {b1, b2}
  NoToken = NoToken
  NoConn = NoConn
  Stalling = {}
  NoBrowser = NoBrowser
  MaxWsConnections = 1
  MaxEpoch = 1
  Capacity = 3
  MaxRestarts = 1
INVARIANTS
  OneSessionOnDisk
PROPERTIES
  RestartKeepsEpoch
  LeftoverIsSwept
CHECK_DEADLOCK FALSE
