SPECIFICATION AdminSpec
CONSTANTS
  Undefined = Undefined
  NoState = NoState
  Agents = {"agent-1", "agent-2"}
  Strangers = {}
  Nonces = {"1"}
  Requests <- SpendRequests
  ActionTypes = {"PROVISION", "PAYMENT"}
  Assets = {"gpu", "coin"}
  Targets = {"eu", "us"}
  Tools = {"search"}
  PolicyVersions = {"v1", "v2"}
  PolicyVersion = "v1"
  AllowedActions = {"PROVISION"}
  AllowedAssets = {"gpu"}
  AllowedTargets = {"eu"}
  ReplayWindow = 1
  MaxNonces = 0
  MaxDepth <- One
  ToolWindow = 1
  MaxCalls <- Two
  MaxCallsByTool <- SearchOnce
  MaxAmount <- Two
  BudgetLimit <- Two
  VelocityWindow = 1
  MaxActions = 1
  MaxConcurrent <- Two
  IntentTypes = {"EXECUTE", "RELEASE"}
  Entries <- BothModes
  CheckpointEvery = 2
  Skew = 0
  Switches = {}
  CanSign = TRUE
  MaxCredit = 1
  MaxTime = 0
  LimitValues = {0, 2}
INVARIANTS InternalErrorExplained
PROPERTIES OverLimitStopsEveryAgent
