SPECIFICATION Spec
CONSTANTS
  Threads = {w1, w2}
INVARIANT NoCircularWait
CHECK_DEADLOCK FALSE
