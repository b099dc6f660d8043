CONSTANTS
  Ids = {1, 2, 3}
  Size <- MCSize
  ControlCap = 2
  DataCap = 1
  MaxControlBytes = 3
  MaxDataBytes = 1
  MaxBurst = 1
  MaxInbound = 2
  MaxLedger = 2
  MaxPushes = 4
SPECIFICATION Spec
INVARIANTS
  QueuesAgree
  NothingLostSilently
  AnsweredOnce
CHECK_DEADLOCK FALSE
