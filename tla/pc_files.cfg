SPECIFICATION FairSpec
CONSTANTS
  Texts = {t1, t2}
  Files = {f1, f2}
  Copies = {}
  Pictures = {}
  MaxFailures = 1
  HttpStreamed = {}
  Streamed = {f2}
  TextRoom = 1
  AutoPaste = FALSE
  Restoring = TRUE
  KeyAfter = FALSE
  Workers = {w1, w2}
  FileRoom = 1
  MaxAttempts = 2
  MaxSuffix = 1
INVARIANTS
  AckedFilesAreKept
PROPERTIES
  FolderIsKept
  JobsAreHandled
CHECK_DEADLOCK FALSE
