SPECIFICATION Spec
CONSTANTS
  Undefined = Undefined
  None = None
  Agents = {"agent-1"}
  Strangers = {}
  Nonces = {"1", "2"}
  Requests <- SpendRequests
  ActionTypes = {"PROVISION"}
  Assets = {"gpu"}
  Targets = {"eu"}
  Tools = {"search"}
  PolicyVersions = {"v1"}
  PolicyVersion = "v1"
  CanSign = TRUE
  AllowedActions = {}
  AllowedAssets = {}
  AllowedTargets = {}
  ReplayWindow = 1
  MaxNonces = 9
  MaxDepth <- One
  ToolWindow = 1
  MaxCalls <- Nine
  MaxCallsByTool <- NoTools
  MaxAmount <- Two
  BudgetLimit <- Two
  VelocityWindow = 9
  MaxActions = 9
  Calls = {"c1", "c2", "c3"}
  Clients = {"c3"}
  ObjectOf <- ByKind
  InitialState <- Fresh
  IntentTypes = {"EXECUTE"}
  Timestamps = {0}
  MaxInFlight = 2
  Faults = {"load", "append", "execute", "save", "crash"}
  MaxCrashes = 1
CHECK_DEADLOCK FALSE
INVARIANTS TypeOK ExecutedIsAudited AuditedOnce NoEventDropped StoredIsWhole
