SPECIFICATION Spec
CHECK_DEADLOCK FALSE
CONSTANTS
  Clients = {c1, c2}
  Threads = {t1, t2}
  Pieces = 2
  Bounds <- MCBounds
INVARIANT CancelIsFinal
