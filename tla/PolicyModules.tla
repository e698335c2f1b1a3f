---------------------------- MODULE PolicyModules ----------------------------
(***************************************************************************)
(* The policy modules of packages/core/src/policy/modules: for an intent i *)
(* and a state s, the reasons for which each module denies i (none: it     *)
(* allows it) and the value its state delta proposes.  Everything here is  *)
(* a pure operator; PolicyEngine.tla runs them.                            *)
(*                                                                         *)
(* A module reads and proposes values for the intent's agent only.  The    *)
(* limits an operator configures are CONSTANTS, except max_concurrent,     *)
(* which the snapshot codec compares with a counter: it is kept in the     *)
(* state, where an operator may change it (PolicyAdmin.tla).               *)
(***************************************************************************)
EXTENDS Integers, Sequences, FiniteSets

CONSTANTS
  Agents,          (* agents every per-agent map of the state configures   *)
  Strangers,       (* agents the state does not configure                  *)
  Nonces,          (* values of Intent.nonce                               *)
  Requests,        (* the payloads an EXECUTE intent may carry             *)
  ActionTypes, Assets, Targets, Tools,
  Undefined,       (* an optional field that is absent                     *)
  PolicyVersions,  (* values of State.policy_version                       *)
  AllowedActions, AllowedAssets, AllowedTargets, (* allowlists; {} allows all *)
  ReplayWindow,    (* replay.window_seconds                                *)
  MaxNonces,       (* replay.max_nonces_per_agent                          *)
  MaxDepth,        (* recursion.max_depth, per agent                       *)
  ToolWindow,      (* tool_limits.window_seconds                           *)
  MaxCalls,        (* tool_limits.max_calls, per agent                     *)
  MaxCallsByTool,  (* tool_limits.max_calls_by_tool, a partial map per agent *)
  MaxAmount,       (* max_amount_per_action, per agent                     *)
  BudgetLimit,     (* budget.budget_limit, per agent                       *)
  VelocityWindow,  (* velocity.config.window_seconds                       *)
  MaxActions       (* velocity.config.max_actions                          *)

(* The payload of an EXECUTE intent: what the stateless modules and the    *)
(* budget look at.  An absent depth reads as 0 (RecursionDepthModule); an  *)
(* amount is any bigint, and nothing refuses a negative one.               *)
Request ==
  [ action_type : ActionTypes,
    asset       : Assets \cup {Undefined},
    target      : Targets,
    amount      : Int,
    depth       : Nat,
    tool        : Tools \cup {Undefined},
    tool_call   : BOOLEAN ]

(* The codecs assert windows to be positive and limits to be non-negative. *)
ASSUME LimitsAssumption ==
  /\ Agents \cap Strangers = {}
  /\ Requests \subseteq Request
  /\ {ReplayWindow, ToolWindow, VelocityWindow} \subseteq Nat \ {0}
  /\ {MaxNonces, MaxActions} \subseteq Nat
  /\ {MaxDepth, MaxCalls, MaxAmount, BudgetLimit} \subseteq [Agents -> Nat]
  /\ \A a \in Agents :
       /\ DOMAIN MaxCallsByTool[a] \subseteq Tools
       /\ \A t \in DOMAIN MaxCallsByTool[a] : MaxCallsByTool[a][t] \in Nat
  /\ Undefined \notin Assets \cup Tools
  /\ Undefined \notin [window_start : Nat, count : Nat]

-----------------------------------------------------------------------------
(***************************************************************************)
(* Data                                                                    *)
(***************************************************************************)

(* What separates the authorizations issued to one agent, out of all that  *)
(* auth_id hashes: the intent's nonce and timestamp, and, through          *)
(* state_hash, the velocity counter.                                       *)
AuthId == [nonce : Nonces, timestamp : Nat, counter : [window_start : Nat, count : Nat]]

NonceEntry == [nonce : Nonces, ts : Nat]
CallEntry  == [ts : Nat, tool : Tools \cup {Undefined}]
Counter    == [window_start : Nat, count : Nat]

State ==
  [ policy_version  : PolicyVersions,
    kill_switch     : [global : BOOLEAN, agents : SUBSET Agents],
    nonces          : [Agents -> Seq(NonceEntry)],
    max_concurrent  : [Agents -> Nat],
    active          : [Agents -> Nat],
    active_auths    : [Agents -> SUBSET AuthId],
    calls           : [Agents -> Seq(CallEntry)],
    spent_in_period : [Agents -> Int],
    counters        : [Agents -> Counter \cup {Undefined}] ]

(* Mutant: the search stops at the first element that is recent, as if the *)
(* list were always in the order of time.                                  *)
PruneFront(list, cutoff) ==
  LET recent == {k \in DOMAIN list : list[k].ts >= cutoff}
  IN  IF recent = {} THEN << >>
      ELSE SubSeq(list, CHOOSE k \in recent : \A j \in recent : k <= j, Len(list))

(* The elements of list whose ts is at least cutoff, in order.  A recursive *)
(* function and not SelectSeq, so that the proofs can reason about it.     *)
Prune(list, cutoff) ==
  LET kept[k \in 0 .. Len(list)] ==
        IF k = 0 THEN << >>
        ELSE IF list[k].ts >= cutoff THEN Append(kept[k - 1], list[k])
        ELSE kept[k - 1]
  IN  kept[Len(list)]

(* Array.prototype.slice(Len(list) - n): the last n elements.              *)
KeepLast(list, n) ==
  IF Len(list) <= n THEN list ELSE SubSeq(list, Len(list) - n + 1, Len(list))

-----------------------------------------------------------------------------
(***************************************************************************)
(* The modules                                                             *)
(***************************************************************************)

KillSwitchReasons(i, s) ==
  IF s.kill_switch.global \/ i.agent_id \in s.kill_switch.agents
  THEN {"KILL_SWITCH"} ELSE {}

(* An empty list allows everything, and an intent without an asset is not  *)
(* checked against the asset list; the reasons add up.                     *)
AllowlistReasons(i) ==
  LET Outside(v, list) == list # {} /\ v \notin list
  IN  { r \in {"ALLOWLIST_ACTION", "ALLOWLIST_ASSET", "ALLOWLIST_TARGET"} :
          \/ r = "ALLOWLIST_ACTION" /\ Outside(i.request.action_type, AllowedActions)
          \/ /\ r = "ALLOWLIST_ASSET"
             /\ i.request.asset # Undefined
             /\ Outside(i.request.asset, AllowedAssets)
          \/ r = "ALLOWLIST_TARGET" /\ Outside(i.request.target, AllowedTargets) }

(* Mutant: the window is open at its far end.                              *)
RecentNoncesShort(i, s) ==
  Prune(s.nonces[i.agent_id], i.timestamp - ReplayWindow + 1)

RecentNonces(i, s) == Prune(s.nonces[i.agent_id], i.timestamp - ReplayWindow)

(* Mutant: only the latest nonce is compared.                              *)
ReplayReasonsLast(i, s) ==
  LET recent == RecentNonces(i, s)
  IN  IF recent # << >> /\ recent[Len(recent)].nonce = i.nonce
      THEN {"REPLAY_NONCE"} ELSE {}

ReplayReasons(i, s) ==
  LET recent == RecentNonces(i, s)
  IN  IF \E k \in DOMAIN recent : recent[k].nonce = i.nonce
      THEN {"REPLAY_NONCE"} ELSE {}

(* The nonce list with this intent's entry, before the cap of the list.    *)
NoncesWith(i, s) ==
  Append(RecentNonces(i, s), [nonce |-> i.nonce, ts |-> i.timestamp])

ReplayDelta(i, s) == KeepLast(NoncesWith(i, s), MaxNonces)

RecursionDepthReasons(i) ==
  IF i.request.depth > MaxDepth[i.agent_id]
  THEN {"RECURSION_DEPTH_EXCEEDED"} ELSE {}

(* Mutant: the limit is exceeded by one.                                   *)
ConcurrencyReasonsLoose(i, s) ==
  LET a == i.agent_id
  IN  IF i.type = "RELEASE"
      THEN IF i.authorization_id \in s.active_auths[a]
           THEN {} ELSE {"CONCURRENCY_RELEASE_INVALID"}
      ELSE IF s.active[a] > s.max_concurrent[a]
           THEN {"CONCURRENCY_LIMIT_EXCEEDED"} ELSE {}

ConcurrencyReasons(i, s) ==
  LET a == i.agent_id
  IN  IF i.type = "RELEASE"
      THEN IF i.authorization_id \in s.active_auths[a]
           THEN {} ELSE {"CONCURRENCY_RELEASE_INVALID"}
      ELSE IF s.active[a] >= s.max_concurrent[a]
           THEN {"CONCURRENCY_LIMIT_EXCEEDED"} ELSE {}

(* Mutant: the counter is not kept from going below zero.                  *)
ActiveDeltaUnfloored(i, s) ==
  IF i.type = "EXECUTE" THEN s.active[i.agent_id] + 1 ELSE s.active[i.agent_id] - 1

ActiveDelta(i, s) ==
  LET active == s.active[i.agent_id]
  IN  IF i.type = "EXECUTE" THEN active + 1
      ELSE IF active > 0 THEN active - 1 ELSE 0

(* RELEASE proposes the map without the released authorization, EXECUTE    *)
(* the map as it is.                                                       *)
ActiveAuthsDelta(i, s) ==
  IF i.type = "RELEASE"
  THEN s.active_auths[i.agent_id] \ {i.authorization_id}
  ELSE s.active_auths[i.agent_id]

(* Mutant: the window is open at its far end.                              *)
RecentCallsShort(i, s) == Prune(s.calls[i.agent_id], i.timestamp - ToolWindow + 1)

RecentCalls(i, s) == Prune(s.calls[i.agent_id], i.timestamp - ToolWindow)

(* Only an intent with tool_call = true is counted; a tool with no entry   *)
(* in max_calls_by_tool is limited by max_calls alone.                     *)
ToolAmplificationReasons(i, s) ==
  LET a      == i.agent_id
      recent == RecentCalls(i, s)
      ofTool == {k \in DOMAIN recent : recent[k].tool = i.request.tool}
      total  == Len(recent) + 1 > MaxCalls[a]
      byTool == /\ i.request.tool \in DOMAIN MaxCallsByTool[a]
                /\ Cardinality(ofTool) + 1 > MaxCallsByTool[a][i.request.tool]
  IN  IF i.request.tool_call /\ (total \/ byTool)
      THEN {"TOOL_CALL_LIMIT_EXCEEDED"} ELSE {}

CallsDelta(i, s) ==
  IF i.request.tool_call
  THEN Append(RecentCalls(i, s), [ts |-> i.timestamp, tool |-> i.request.tool])
  ELSE s.calls[i.agent_id]

(* Mutant: what is spent already is compared, without this amount.         *)
BudgetReasonsLate(i, s) ==
  LET a == i.agent_id
  IN  IF i.request.amount > MaxAmount[a] THEN {"PER_ACTION_CAP_EXCEEDED"}
      ELSE IF s.spent_in_period[a] > BudgetLimit[a] THEN {"BUDGET_EXCEEDED"} ELSE {}

BudgetReasons(i, s) ==
  LET a == i.agent_id
  IN  IF i.request.amount > MaxAmount[a] THEN {"PER_ACTION_CAP_EXCEEDED"}
      ELSE IF s.spent_in_period[a] + i.request.amount > BudgetLimit[a]
      THEN {"BUDGET_EXCEEDED"} ELSE {}

SpentDelta(i, s) == s.spent_in_period[i.agent_id] + i.request.amount

(* Mutant: the window closes one second early.                             *)
CounterDeltaEarly(i, s) ==
  LET c == s.counters[i.agent_id]
  IN  IF c = Undefined \/ i.timestamp >= c.window_start + VelocityWindow - 1
      THEN [window_start |-> i.timestamp, count |-> 1]
      ELSE [window_start |-> c.window_start, count |-> c.count + 1]

(* Mutant: a timestamp before the window opens a new one, too.             *)
CounterDeltaBackwards(i, s) ==
  LET c == s.counters[i.agent_id]
  IN  IF \/ c = Undefined
         \/ i.timestamp \notin c.window_start .. c.window_start + VelocityWindow - 1
      THEN [window_start |-> i.timestamp, count |-> 1]
      ELSE [window_start |-> c.window_start, count |-> c.count + 1]

CounterDelta(i, s) ==
  LET c == s.counters[i.agent_id]
  IN  IF c = Undefined \/ i.timestamp >= c.window_start + VelocityWindow
      THEN [window_start |-> i.timestamp, count |-> 1]
      ELSE [window_start |-> c.window_start, count |-> c.count + 1]

VelocityReasons(i, s) ==
  IF CounterDelta(i, s).count > MaxActions THEN {"VELOCITY_EXCEEDED"} ELSE {}

-----------------------------------------------------------------------------
(***************************************************************************)
(* The two pipelines, in order, and a module by its name                   *)
(***************************************************************************)

ExecuteModules ==
  << "KillSwitch", "Allowlist", "Replay", "RecursionDepth",
     "Concurrency", "ToolAmplification", "Budget", "Velocity" >>

ReleaseModules == << "KillSwitch", "Replay", "Concurrency" >>

Modules(i) == IF i.type = "RELEASE" THEN ReleaseModules ELSE ExecuteModules

Reasons(m, i, s) ==
  CASE m = "KillSwitch"        -> KillSwitchReasons(i, s)
    [] m = "Allowlist"         -> AllowlistReasons(i)
    [] m = "Replay"            -> ReplayReasons(i, s)
    [] m = "RecursionDepth"    -> RecursionDepthReasons(i)
    [] m = "Concurrency"       -> ConcurrencyReasons(i, s)
    [] m = "ToolAmplification" -> ToolAmplificationReasons(i, s)
    [] m = "Budget"            -> BudgetReasons(i, s)
    [] m = "Velocity"          -> VelocityReasons(i, s)
=============================================================================
