SPECIFICATION Spec
CONSTANTS
  Undefined = Undefined
  NoState = NoState
  Agents = {"agent-1"}
  Strangers = {}
  Nonces = {"1", "2", "3"}
  Requests <- SpendRequests
  ActionTypes = {"PROVISION", "PAYMENT"}
  Assets = {"gpu", "coin"}
  Targets = {"eu", "us"}
  Tools = {"search"}
  PolicyVersions = {"v1", "v2"}
  PolicyVersion = "v1"
  AllowedActions = {"PROVISION"}
  AllowedAssets = {"gpu"}
  AllowedTargets = {"eu"}
  ReplayWindow = 3
  MaxNonces = 3
  MaxDepth <- One
  ToolWindow = 1
  MaxCalls <- Two
  MaxCallsByTool <- SearchOnce
  MaxAmount <- Two
  BudgetLimit <- Two
  VelocityWindow = 2
  MaxActions = 2
  MaxConcurrent <- One
  IntentTypes = {"EXECUTE", "RELEASE"}
  Entries <- PureFailFast
  CheckpointEvery = 0
  Skew = 0
  Switches = {}
  CanSign = TRUE
  MaxCredit = 1
  MaxTime = 2
  LimitValues = {}
PROPERTIES ReleaseIsOfOutstanding
