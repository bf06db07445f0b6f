SPECIFICATION Spec
CONSTANTS
  Tokens = {t1, t2}
  Conns = {c1}
  Browsers = {b1}
  NoToken = NoToken
  NoConn = NoConn
  Stalling = {}
  NoBrowser = NoBrowser
  MaxWsConnections = 1
  MaxEpoch = 1
SYMMETRY Symmetry
INVARIANT OnlineWhenConnected
CHECK_DEADLOCK FALSE
