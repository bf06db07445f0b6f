SPECIFICATION FairSpec
CONSTANTS
  Tokens = {t1}
  Conns = {c1}
  Browsers = {b1, b2}
  NoToken = NoToken
  NoConn = NoConn
  Stalling = {t1, c1}
  NoBrowser = NoBrowser
  MaxWsConnections = 1
  MaxEpoch = 1
PROPERTIES
  OrderedPhoneLeaves
  RevokedPhoneLeaves
  AbandonedPairingIsReclaimed
CHECK_DEADLOCK FALSE
