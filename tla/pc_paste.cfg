SPECIFICATION Spec
CONSTANTS
  Texts = {t1}
  Files = {f1, f2}
  Copies = {c1}
  Pictures = {}
  MaxFailures = 1
  HttpStreamed = {}
  Streamed = {}
  TextRoom = 1
  AutoPaste = TRUE
  Restoring = TRUE
  KeyAfter = TRUE
  Workers = {w1, w2}
  FileRoom = 1
  MaxAttempts = 1
  MaxSuffix = 0
SYMMETRY Symmetry
INVARIANTS
  PastesAreOwn
  ClipboardComesBack
CHECK_DEADLOCK FALSE
