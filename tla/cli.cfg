SPECIFICATION Spec
CONSTANTS
  Undefined = Undefined
  Torn = Torn
  p1 = p1
  p2 = p2
  Invocations = {p1, p2}
  CommandLines <- Lines
  RequestOf <- ByWord
  PolicyFiles <- Others
  SampleState <- Sample
  MaxNow = 2
  MaxRuns = 4
  Agents = {"agent-1"}
  Strangers = {}
  Nonces = {"1", "2"}
  Requests <- OneRequest
  ActionTypes = {"PROVISION"}
  Assets = {}
  Targets = {"us-east-1"}
  Tools = {}
  PolicyVersions = {"v1", "v2"}
  AllowedActions = {}
  AllowedAssets = {}
  AllowedTargets = {}
  ReplayWindow = 1
  MaxNonces = 2
  MaxDepth <- Unlimited
  ToolWindow = 1
  MaxCalls <- Unlimited
  MaxCallsByTool <- NoTools
  MaxAmount <- Unlimited
  BudgetLimit <- UpToTwo
  VelocityWindow = 1
  MaxActions = 2
SYMMETRY Processes
INVARIANTS
  PrintedIsChargedIsAudited
  SerialTrailVerifies
  EnvelopeIsAudited
CHECK_DEADLOCK FALSE
