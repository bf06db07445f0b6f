SPECIFICATION FairSpec
CONSTANTS
  Files = {f1}
  Pairings = {p1}
  Nil = Nil
  NoFile = NoFile
  MaxUploadSize = 1
  MaxPerPairing = 2
  MaxFiles = 2
  MaxBytes = 1
  MaxStreams = 1
  MaxExpired = 1
  MaxDrops = 1
  MaxRestarts = 1
INVARIANTS
  StoredIsOnDisk
  NoOrphanOnDisk
PROPERTIES
  KeepsAccount
  ToldFilesAreKept
  StoredFilesLeave
CHECK_DEADLOCK FALSE
