SPECIFICATION FairSpec
CHECK_DEADLOCK FALSE
CONSTANTS
  exit = exit
  again = again
  drop = drop
  Callers <- MCOneThread
  Dropper = drop
  MaxSpawns = 2
  MaxAttempts = 1
INVARIANTS RuntimeIsTracked
PROPERTIES ActorEnds DeadRuntimeIsStopped
