SPECIFICATION Spec
SYMMETRY MCSymmetry
CHECK_DEADLOCK FALSE
CONSTANTS
  exit = exit
  again = again
  drop = drop
  Callers <- MCCallers
  Dropper = drop
  MaxSpawns = 1
  MaxAttempts = 3
INVARIANTS ExitIsAccounted OwnerIsRecoverable
