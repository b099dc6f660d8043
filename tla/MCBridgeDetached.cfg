SPECIFICATION Spec
CHECK_DEADLOCK FALSE
CONSTANTS
  exit = exit
  again = again
  drop = drop
  Callers <- MCOneThread
  Dropper = drop
  MaxSpawns = 1
  MaxAttempts = 1
INVARIANTS DetachedIsRunning
