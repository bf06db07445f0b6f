SPECIFICATION FairSpec
CONSTANTS
  Capacity = 4
  MaxChunks = 6
INVARIANTS
  OnlyWholeCopies
  NothingLostInHandOver
  GoodTransferArrives
PROPERTIES
  SlowPcNeverBlocksPhone
  DownloadEnds
  ChannelIsClosed
  KeepsPromise
CHECK_DEADLOCK FALSE
