SPECIFICATION Spec
CONSTANTS
  Undefined = Undefined
  None = None
  Agents = {"agent-1"}
  Strangers = {}
  Nonces = {"1", "2"}
  Requests <- PaidRequests
  ActionTypes = {"PROVISION"}
  Assets = {"gpu"}
  Targets = {"eu"}
  Tools = {"search"}
  PolicyVersions = {"v1"}
  PolicyVersion = "v1"
  CanSign = TRUE
  AllowedActions = {}
  AllowedAssets = {}
  AllowedTargets = {}
  ReplayWindow = 1
  MaxNonces = 9
  MaxDepth <- One
  ToolWindow = 1
  MaxCalls <- Nine
  MaxCallsByTool <- NoTools
  MaxAmount <- Two
  BudgetLimit <- One
  VelocityWindow = 9
  MaxActions = 9
  Calls = {"c1", "c2", "c3"}
  Clients = {"c2"}
  ObjectOf <- ByKind
  InitialState <- Fresh
  IntentTypes = {"EXECUTE", "RELEASE"}
  Timestamps = {0}
  MaxInFlight = 1
  Faults = {"load", "append"}
  MaxCrashes = 0
CHECK_DEADLOCK FALSE
INVARIANTS EffectsWithinBudget ChargedExactly AppendsInOrder
PROPERTIES ImplementsPromise
