SPECIFICATION Spec
CONSTANTS
  Files = {f1, f2}
  Pairings = {p1}
  Nil = Nil
  NoFile = NoFile
  MaxUploadSize = 1
  MaxPerPairing = 2
  MaxFiles = 2
  MaxBytes = 1
  MaxStreams = 1
  MaxExpired = 1
  MaxDrops = 0
  MaxRestarts = 0
SYMMETRY Symmetry
INVARIANTS
  CountsAgree
  QuotaFollowsEntries
  BytesAgree
  StreamsWithinLimit
  DiskWithinLimit
CHECK_DEADLOCK FALSE
