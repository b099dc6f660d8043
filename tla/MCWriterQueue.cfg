CONSTANTS
  c1 = c1
  c2 = c2
  d1 = d1
  d2 = d2
  Sends <- MCSends
  LaneOf <- MCLaneOf
  Size <- MCSize
  Capacity <- MCCapacity
  MaxBytes <- MCMaxBytes
  MaxBurst = 1
SPECIFICATION FairSpec
INVARIANTS
  NoLostWakeup
  LanesAgree
  BurstFair
PROPERTIES FramesDrain CloseEndsWriter
CHECK_DEADLOCK FALSE
