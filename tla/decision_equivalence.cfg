SPECIFICATION Spec
CONSTANTS
  Undefined = Undefined
  Garbage = Garbage
  a1 = a1
  action = action
  target_ = target_
  tool = tool
  Agents <- OneAgent
  Strangers = {}
  Nonces = {1, 2, 3}
  Requests <- OneCall
  ActionTypes = {action}
  Assets = {}
  Targets = {target_}
  Tools = {tool}
  PolicyVersions = {"v1"}
  PolicyVersion = "v1"
  CanSign = TRUE
  AllowedActions = {}
  AllowedAssets = {}
  AllowedTargets = {}
  ReplayWindow = 1
  MaxNonces = 2
  MaxDepth <- Unlimited
  ToolWindow = 1
  MaxCalls <- Unlimited
  MaxCallsByTool <- ByTool
  MaxAmount <- Unlimited
  BudgetLimit <- Unlimited
  VelocityWindow = 2
  MaxActions = 9
  MaxConcurrent <- UpToFour
  Timestamps = {1, 3}
INVARIANTS DecisionEquivalence
