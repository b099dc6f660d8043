CONSTANTS
  a = a
  shutdown = shutdown
  Calls <- MCCalls
  Gated <- MCGated
  Handlers <- MCShutdown
  ControlCalls <- MCShutdown
  MaxActive = 2
  MaxTombstones = 1
  MaxLedger = 2
  MaxAnswers = 1
SPECIFICATION FairSpec
PROPERTIES CloseWakesCallers
CHECK_DEADLOCK FALSE
