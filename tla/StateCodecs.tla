------------------------------ MODULE StateCodecs ------------------------------
(***************************************************************************)
(* Policy states on their way into a snapshot and back: the codec of each  *)
(* module (packages/core/src/policy/modules/_codec.ts, registry.ts) and    *)
(* PolicyEngine.exportState, importState and computeStateHash.             *)
(*                                                                         *)
(* A state is taken apart into one slice for each module, a snapshot holds *)
(* one payload for each.  Agents and the like index partial maps.  A list  *)
(* of names that is sorted without repetition is a set.                    *)
(***************************************************************************)
EXTENDS Verifiers

CONSTANT Garbage  (* a payload that no codec accepts: not an object         *)

(* Object.keys(MODULE_CODECS).sort().                                      *)
ModuleIds ==
  << "AllowlistModule", "BudgetModule", "ConcurrencyModule", "KillSwitchModule",
     "RecursionDepthModule", "ReplayModule", "ToolAmplificationModule", "VelocityModule" >>

EmptyMap == << >>

Naturals(map) == \A k \in DOMAIN map : map[k] \in Nat

(* What is left of a map without the entries that are undefined.           *)
Defined(map) == [k \in {j \in DOMAIN map : map[j] # Absent} |-> map[k]]

(* map[k] ?? default, for every k in keys.                                 *)
Filled(map, keys, default) == [k \in keys |-> IF k \in DOMAIN map THEN map[k] ELSE default]

-----------------------------------------------------------------------------
(***************************************************************************)
(* Normal forms                                                            *)
(***************************************************************************)

NormalizeAllowlists(allowlists) ==
  [f \in DOMAIN allowlists |-> IF allowlists[f] = Absent THEN {} ELSE allowlists[f]]

NormalizeBudget(budget) == [f \in DOMAIN budget |-> Defined(budget[f])]

NormalizeVelocity(velocity) == [velocity EXCEPT !.counters = Defined(@)]

(* Array.prototype.sort, which is stable: by time, then by the rank of an  *)
(* element, then as they were.  An element's place is how many are not     *)
(* after it.                                                               *)
ByTime(list, rank) ==
  LET NotAfter(j, k) ==
        \/ list[j].ts < list[k].ts
        \/ /\ list[j].ts = list[k].ts
           /\ rank[j] < rank[k] \/ (rank[j] = rank[k] /\ j <= k)
      Place(k) == Cardinality({j \in DOMAIN list : NotAfter(j, k)})
  IN  [n \in DOMAIN list |-> list[CHOOSE k \in DOMAIN list : Place(k) = n]]

(* By time, then by the text of the nonce.                                 *)
NoncesSorted(nonces) == ByTime(nonces, [k \in DOMAIN nonces |-> nonces[k].nonce])

NormalizeReplay(replay) ==
  [replay EXCEPT !.nonces = [a \in DOMAIN @ |-> NoncesSorted(@[a])]]

NormalizeConcurrency(concurrency) ==
  LET agents == UNION {DOMAIN concurrency[f] : f \in DOMAIN concurrency}
  IN  [ max_concurrent |-> Filled(concurrency.max_concurrent, agents, 0),
        active         |-> Filled(concurrency.active, agents, 0),
        active_auths   |-> Filled(concurrency.active_auths, agents, {}) ]

(* By time, then by the name of the tool, none first; names have some      *)
(* order, and which one it is makes no difference.                         *)
CallsSorted(calls) ==
  LET tools == {calls[k].tool : k \in DOMAIN calls}
      rank  == CHOOSE r \in [tools -> 0 .. Cardinality(tools)] :
                 \A t, u \in tools : t # u => r[t] # r[u] /\ (t = Absent => r[t] < r[u])
  IN  ByTime(calls, [k \in DOMAIN calls |-> rank[calls[k].tool]])

NormalizeToolLimits(limits) ==
  IF limits = Absent
  THEN [ window_seconds |-> 0, max_calls |-> EmptyMap, max_calls_by_tool |-> EmptyMap,
         calls |-> EmptyMap ]
  ELSE [ window_seconds    |-> limits.window_seconds,
         max_calls         |-> Defined(limits.max_calls),
         max_calls_by_tool |-> [a \in DOMAIN limits.max_calls_by_tool |->
                                  Defined(limits.max_calls_by_tool[a])],
         calls             |-> [a \in DOMAIN limits.calls |-> CallsSorted(limits.calls[a])] ]

NormalizeKillSwitch(kill_switch) == [kill_switch EXCEPT !.agents = Defined(@)]

Normalize(id, slice) ==
  CASE id = "AllowlistModule"         -> NormalizeAllowlists(slice)
    [] id = "BudgetModule"            -> NormalizeBudget(slice)
    [] id = "ConcurrencyModule"       -> NormalizeConcurrency(slice)
    [] id = "KillSwitchModule"        -> NormalizeKillSwitch(slice)
    [] id = "RecursionDepthModule"    -> slice
    [] id = "ReplayModule"            -> NormalizeReplay(slice)
    [] id = "ToolAmplificationModule" -> NormalizeToolLimits(slice)
    [] id = "VelocityModule"          -> NormalizeVelocity(slice)

-----------------------------------------------------------------------------
(***************************************************************************)
(* What the codecs assert of a normal form                                 *)
(***************************************************************************)

NoDuplicates(list) == \A j, k \in DOMAIN list : j # k => list[j] # list[k]

(* Amounts are asserted on import only: any is written.                    *)
Asserted(id, normal) ==
  CASE id = "VelocityModule" ->
         /\ normal.window_seconds \in Nat \ {0} /\ normal.max_actions \in Nat
         /\ \A a \in DOMAIN normal.counters : normal.counters[a].count \in Nat
    [] id = "ReplayModule" ->
         /\ normal.window_seconds \in Nat \ {0} /\ normal.max_nonces_per_agent \in Nat
         /\ \A a \in DOMAIN normal.nonces : NoDuplicates(normal.nonces[a])
    [] id = "ConcurrencyModule" ->
         /\ Naturals(normal.max_concurrent) /\ Naturals(normal.active)
         /\ \A a \in DOMAIN normal.active : normal.active[a] <= normal.max_concurrent[a]
    [] id = "RecursionDepthModule" -> Naturals(normal.max_depth)
    [] id = "ToolAmplificationModule" ->
         /\ normal.window_seconds \in Nat \ {0} /\ Naturals(normal.max_calls)
         /\ \A a \in DOMAIN normal.max_calls_by_tool : Naturals(normal.max_calls_by_tool[a])
    [] OTHER -> TRUE

-----------------------------------------------------------------------------
(***************************************************************************)
(* deserializeState                                                        *)
(***************************************************************************)

(* The slice of a module that a snapshot says nothing about.               *)
DefaultSlice ==
  [ AllowlistModule      |-> [action_types |-> Absent, assets |-> Absent, targets |-> Absent],
    BudgetModule         |-> [ budget_limit |-> EmptyMap, spent_in_period |-> EmptyMap,
                               max_amount_per_action |-> EmptyMap ],
    ConcurrencyModule    |-> [ max_concurrent |-> EmptyMap, active |-> EmptyMap,
                               active_auths |-> EmptyMap ],
    KillSwitchModule     |-> [global |-> FALSE, agents |-> EmptyMap],
    RecursionDepthModule |-> [max_depth |-> EmptyMap],
    ReplayModule         |-> [ window_seconds |-> 1, max_nonces_per_agent |-> 0,
                               nonces |-> EmptyMap ],
    ToolAmplificationModule |->
      [ window_seconds |-> 1, max_calls |-> EmptyMap, max_calls_by_tool |-> EmptyMap,
        calls |-> EmptyMap ],
    VelocityModule       |-> [window_seconds |-> 1, max_actions |-> 0, counters |-> EmptyMap] ]

(* Fields a payload may lack: obj.f ?? {}.                                 *)
Optional(id) ==
  DOMAIN DefaultSlice[id] \ {"window_seconds", "max_nonces_per_agent", "max_actions", "global"}

Completed(id, payload) ==
  [f \in DOMAIN DefaultSlice[id] |->
     IF f \in DOMAIN payload THEN payload[f] ELSE DefaultSlice[id][f]]

Accepts(id, payload) ==
  /\ payload # Garbage
  /\ DOMAIN DefaultSlice[id] \ DOMAIN payload \subseteq Optional(id)
  /\ Asserted(id, Normalize(id, Completed(id, payload)))
  /\ id = "BudgetModule" => \A f \in DOMAIN payload : Naturals(payload[f])

(* Mutant: the counters of the velocity windows are not read.              *)
DeserializeUncounted(id, modules) ==
  IF id \notin DOMAIN modules \/ id = "VelocityModule" THEN DefaultSlice[id]
  ELSE Normalize(id, Completed(id, modules[id]))

DeserializeState(id, modules) ==
  IF id \notin DOMAIN modules THEN DefaultSlice[id]
  ELSE Normalize(id, Completed(id, modules[id]))

-----------------------------------------------------------------------------
(***************************************************************************)
(* The engine                                                              *)
(***************************************************************************)

(* serializeState throws for none of the modules.                          *)
Exportable(state) == \A id \in DOMAIN state : Asserted(id, Normalize(id, state[id]))

ExportState(state, policyId) ==
  [ formatVersion |-> 1, engineVersion |-> "1.0.0", policyId |-> policyId,
    modules |-> [id \in DOMAIN state |-> Normalize(id, state[id])] ]

ComputeStateHash(state, policyId) == StateHashOf(ExportState(state, policyId))

(* The codecs write into the target one after the other until one throws.  *)
Imported(target, snapshot) ==
  LET throws == {k \in DOMAIN ModuleIds :
                   /\ ModuleIds[k] \in DOMAIN snapshot.modules
                   /\ ~Accepts(ModuleIds[k], snapshot.modules[ModuleIds[k]])}
      read   == {ModuleIds[k] : k \in {j \in DOMAIN ModuleIds : \A t \in throws : j < t}}
  IN  [ ok |-> throws = {},
        target |-> [id \in DOMAIN target |->
                      IF id \in read THEN DeserializeState(id, snapshot.modules)
                      ELSE target[id]] ]

(* Mutant: the engine's own state is the target.                           *)
ImportInPlace(current, target, snapshot, policyId) ==
  IF snapshot.formatVersion # 1 \/ snapshot.policyId # policyId
  THEN [ok |-> FALSE, current |-> current, target |-> target]
  ELSE LET import == Imported(target, snapshot)
       IN  [ok |-> import.ok, current |-> import.target, target |-> import.target]

(* importState(target, snapshot).                                          *)
ImportState(current, target, snapshot, policyId) ==
  IF snapshot.formatVersion # 1 \/ snapshot.policyId # policyId
  THEN [ok |-> FALSE, current |-> current, target |-> target]
  ELSE LET import == Imported(target, snapshot)
       IN  [ ok |-> import.ok, target |-> import.target,
             current |-> IF import.ok THEN import.target ELSE current ]
=============================================================================
