SPECIFICATION Spec
CONSTANTS
  Undefined = Undefined
  NoState = NoState
  Agents = {"agent-1"}
  Strangers = {}
  Nonces = {"1", "2"}
  Requests <- SpendRequests
  ActionTypes = {"PROVISION", "PAYMENT"}
  Assets = {"gpu", "coin"}
  Targets = {"eu", "us"}
  Tools = {"search"}
  PolicyVersions = {"v1", "v2"}
  PolicyVersion = "v1"
  AllowedActions = {"PROVISION"}
  AllowedAssets = {"gpu"}
  AllowedTargets = {"eu"}
  ReplayWindow = 2
  MaxNonces = 1
  MaxDepth <- One
  ToolWindow = 1
  MaxCalls <- Two
  MaxCallsByTool <- SearchOnce
  MaxAmount <- Two
  BudgetLimit <- Nine
  VelocityWindow = 2
  MaxActions = 3
  MaxConcurrent <- Nine
  IntentTypes = {"EXECUTE"}
  Entries <- PureFailFast
  CheckpointEvery = 0
  Skew = 1
  Switches = {"agent-1"}
  CanSign = TRUE
  MaxCredit = 1
  MaxTime = 3
  LimitValues = {}
INVARIANTS VelocityBound
PROPERTIES NoReplay FreshAuthorization
