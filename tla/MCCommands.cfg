CONSTANTS
  ApprovalIds = {"a", "b"}
  MaxRequests = 2
  IdOf <- MCIdOf
  TurnOf <- MCTurnOf
  ReplaySteps = 1
  LaneCap = 1
  MaxPending = 1
  MaxRetired = 1
  MaxGen = 2
SPECIFICATION CommandsFairSpec
INVARIANTS
  ApprovalsAgree
PROPERTIES
  RequestIsSettled
CHECK_DEADLOCK FALSE
