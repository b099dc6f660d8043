CONSTANTS
  a = a
  b = b
  shutdown = shutdown
  Calls <- MCCalls
  Gated <- MCGated
  Handlers <- MCHandlers
  ControlCalls <- MCControlCalls
  MaxActive = 2
  MaxTombstones = 1
  MaxLedger = 2
  MaxAnswers = 1
SYMMETRY ClientSymmetry
SPECIFICATION Spec
INVARIANTS NoStrandedWaiter RegistryAgrees
PROPERTIES NoAdmissionAfterStop
CHECK_DEADLOCK FALSE
