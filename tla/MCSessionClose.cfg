CONSTANTS
  Holders = {"supervisor", "monitor", "client"}
  First = "supervisor"
SPECIFICATION HandleSpec
INVARIANT CloseWaitsForWriter
CHECK_DEADLOCK FALSE
