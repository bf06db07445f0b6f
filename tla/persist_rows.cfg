SPECIFICATION PersistSpec
CONSTANTS
  Tokens = {t1, t2}
  Conns = {}
  Browsers = {b1}
  NoToken = NoToken
  NoConn = NoConn
  Stalling = {}
  NoBrowser = NoBrowser
  MaxWsConnections = 1
  MaxEpoch = 1
  Capacity = 3
  MaxRestarts = 0
SYMMETRY Symmetry
INVARIANTS
  RowFollowsEntry
  RelayTypeOK
  OfflineWhenGone
CHECK_DEADLOCK FALSE
