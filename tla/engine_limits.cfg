SPECIFICATION Spec
CONSTANTS
  Undefined = Undefined
  NoState = NoState
  Agents = {"agent-1"}
  Strangers = {"stranger"}
  Nonces = {"1", "2"}
  Requests <- LimitRequests
  ActionTypes = {"PROVISION", "PAYMENT"}
  Assets = {"gpu", "coin"}
  Targets = {"eu", "us"}
  Tools = {"search"}
  PolicyVersions = {"v1", "v2"}
  PolicyVersion = "v1"
  AllowedActions = {"PROVISION"}
  AllowedAssets = {"gpu"}
  AllowedTargets = {"eu"}
  ReplayWindow = 1
  MaxNonces = 3
  MaxDepth <- One
  ToolWindow = 2
  MaxCalls <- Two
  MaxCallsByTool <- SearchOnce
  MaxAmount <- Two
  BudgetLimit <- Three
  VelocityWindow = 2
  MaxActions = 1
  MaxConcurrent <- Two
  IntentTypes = {"EXECUTE", "RELEASE"}
  Entries <- Evaluating
  CheckpointEvery = 2
  Skew = 0
  Switches = {"global"}
  CanSign = TRUE
  MaxCredit = 2
  MaxTime = 2
  LimitValues = {}
INVARIANTS TypeOK BudgetBound SlotBound StateStaysHashable VelocityBurst ToolCallBound
PROPERTIES DenyNeverLoosens
