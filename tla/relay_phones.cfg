SPECIFICATION Spec
CONSTANTS
  Tokens = {t1}
  Conns = {c1, c2}
  Browsers = {b1, b2}
  NoToken = NoToken
  NoConn = NoConn
  Stalling = {}
  NoBrowser = NoBrowser
  MaxWsConnections = 2
  MaxEpoch = 1
SYMMETRY Symmetry
INVARIANTS
  NoOrphanedPhone
  OnePhoneAtATime
  SlotHolderAlive
CHECK_DEADLOCK FALSE
