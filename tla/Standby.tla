-------------------------------- MODULE Standby --------------------------------
(***************************************************************************)
(* A second engine, with the same options, that takes over from a snapshot *)
(* of the first: exportState, the snapshot on its way, verifySnapshot and  *)
(* importState, and from then on the same intents to both.  The codecs are *)
(* those of StateCodecs.tla, the decisions those of PolicyPipeline.tla.    *)
(***************************************************************************)
EXTENDS PolicyPipeline

CONSTANTS
  Garbage,        (* a payload that no codec accepts                        *)
  MaxConcurrent,  (* concurrency.max_concurrent, per agent                  *)
  Timestamps      (* bound: the timestamps of intents, in any order         *)

Codecs == INSTANCE StateCodecs WITH Absent <- Undefined

(* Maps from some of the keys.                                             *)
PartialMaps(keys, S) == UNION {[K -> S] : K \in SUBSET keys}

(* The slice of the state that ToolAmplificationModule limits by, of which *)
(* a snapshot may lack fields.                                             *)
ToolLimits ==
  [ window_seconds : Nat, max_calls : PartialMaps(Agents, Nat),
    max_calls_by_tool : PartialMaps(Agents, PartialMaps(Tools, Nat)),
    calls : PartialMaps(Agents, Seq(CallEntry)) ]

(* The texts of nonces have an order, and an absent field is none of the   *)
(* values that one may hold.                                               *)
ASSUME StandbyAssumption ==
  /\ Nonces \subseteq Int
  /\ Timestamps \subseteq Nat
  /\ MaxConcurrent \in [Agents -> Nat]
  /\ MaxCallsByTool =
       [a \in Agents |-> [t \in DOMAIN MaxCallsByTool[a] |-> MaxCallsByTool[a][t]]]
  /\ Undefined \notin Int
  /\ Undefined \notin BOOLEAN
  /\ Undefined \notin ToolLimits

VARIABLES
  primary,  (* the state of the first engine                                *)
  standby,  (* the current state of the second                              *)
  follows,  (* whether the second took over a state with the first's hash,  *)
            (* and both have decided alike since                            *)
  evicted,  (* whether, since, a nonce was dropped for max_nonces_per_agent *)
  last      (* what the last step came to                                   *)

vars == <<primary, standby, follows, evicted, last>>

-----------------------------------------------------------------------------

PolicyId == "policy"

(* A state as the codecs see it, with the limits that are configured.      *)
SlicesOf(s) ==
  [ AllowlistModule |-> [ action_types |-> AllowedActions, assets |-> AllowedAssets,
                          targets |-> AllowedTargets ],
    BudgetModule |-> [ budget_limit |-> BudgetLimit, spent_in_period |-> s.spent_in_period,
                       max_amount_per_action |-> MaxAmount ],
    ConcurrencyModule |-> [ max_concurrent |-> s.max_concurrent, active |-> s.active,
                            active_auths |-> s.active_auths ],
    KillSwitchModule |-> [ global |-> s.kill_switch.global,
                           agents |-> [a \in s.kill_switch.agents |-> TRUE] ],
    RecursionDepthModule |-> [max_depth |-> MaxDepth],
    ReplayModule |-> [ window_seconds |-> ReplayWindow, max_nonces_per_agent |-> MaxNonces,
                       nonces |-> s.nonces ],
    ToolAmplificationModule |-> [ window_seconds |-> ToolWindow, max_calls |-> MaxCalls,
                                  max_calls_by_tool |-> MaxCallsByTool, calls |-> s.calls ],
    VelocityModule |-> [ window_seconds |-> VelocityWindow, max_actions |-> MaxActions,
                         counters |-> s.counters ] ]

(* And back, of slices that agree with what is configured.                 *)
StateFrom(slices) ==
  [ policy_version  |-> PolicyVersion,
    kill_switch     |-> [ global |-> slices.KillSwitchModule.global,
                          agents |-> {a \in DOMAIN slices.KillSwitchModule.agents :
                                        slices.KillSwitchModule.agents[a]} ],
    nonces          |-> slices.ReplayModule.nonces,
    max_concurrent  |-> slices.ConcurrencyModule.max_concurrent,
    active          |-> slices.ConcurrencyModule.active,
    active_auths    |-> slices.ConcurrencyModule.active_auths,
    calls           |-> slices.ToolAmplificationModule.calls,
    spent_in_period |-> slices.BudgetModule.spent_in_period,
    counters        |-> [a \in Agents |->
                           IF a \in DOMAIN slices.VelocityModule.counters
                           THEN slices.VelocityModule.counters[a] ELSE Undefined] ]

Hash(slices) == Codecs!ComputeStateHash(slices, PolicyId)

(* What may become of a snapshot: nothing, or one thing is lost or changed.*)
Damaged(snapshot) ==
  LET ids == DOMAIN snapshot.modules
      WithModules(m) == [snapshot EXCEPT !.modules = m]
      Without(map, key) == [k \in DOMAIN map \ {key} |-> map[k]]
  IN  {snapshot, [snapshot EXCEPT !.formatVersion = 2], [snapshot EXCEPT !.policyId = "other"]}
      \cup {WithModules(Without(snapshot.modules, id)) : id \in ids}
      \cup {WithModules([snapshot.modules EXCEPT ![id] = Garbage]) : id \in ids}
      \cup UNION {{WithModules([snapshot.modules EXCEPT ![id] = Without(@, f)])
                    : f \in DOMAIN snapshot.modules[id]} : id \in ids}

(* Bound: a snapshot that comes after a damaged one is whole.              *)
Arriving(snapshot) ==
  IF last = "refused" \/ (last = "imported" /\ ~follows)
  THEN {snapshot} ELSE Damaged(snapshot)

(* The host imports into a copy of the state that the engine holds, and    *)
(* goes on with what it had if the import throws.                          *)
Import ==
  LET exported == Codecs!ExportState(SlicesOf(primary), PolicyId)
      hash     == Codecs!StateHashOf(exported)
  IN  /\ Codecs!Exportable(SlicesOf(primary))
      /\ \E snapshot \in Arriving(exported) :
           LET import == Codecs!ImportState(standby, standby, snapshot, PolicyId)
           IN  /\ standby' = import.current
               /\ IF import.ok
                  THEN /\ follows' = (Hash(import.target) = hash)
                       /\ evicted' = FALSE
                       /\ last' = "imported"
                  ELSE /\ last' = "refused"
                       /\ UNCHANGED <<follows, evicted>>
      /\ UNCHANGED primary

Denials(i, s) ==
  IF EarlyReasons(i, s) # {} THEN EarlyReasons(i, s)
  ELSE DenyReasons(i, s, Denying(i, s), "fail-fast")

(* The intent's nonce takes the place of another in a list that is full.   *)
Evicts(i, s) ==
  /\ EarlyReasons(i, s) = {}
  /\ "Replay" \in Merged(i, Denying(i, s), "fail-fast")
  /\ Len(NoncesWith(i, s)) > MaxNonces

(* The second engine takes no intents after an import of something else:   *)
(* its limits are then not the configured ones.                            *)
Evaluate ==
  \E i \in ExecuteIntents(Timestamps) :
    LET first == Evaluation(i, primary, "fail-fast")
    IN  /\ primary' = first.next
        /\ \/ /\ follows
              /\ LET other  == StateFrom(standby)
                     second == Evaluation(i, other, "fail-fast")
                 IN  /\ standby' = SlicesOf(second.next)
                     /\ follows' = (first.decision = second.decision)
                     /\ last' = IF ~follows' THEN "differed"
                                ELSE IF /\ Denials(i, primary) = Denials(i, other)
                                        /\ Hash(SlicesOf(first.next)) = Hash(standby')
                                     THEN "agreed" ELSE "diverged"
              /\ evicted' = (evicted \/ Evicts(i, primary))
           \/ /\ ~follows /\ last \in {"nothing", "decided"}
              /\ last' = "decided"
              /\ UNCHANGED <<standby, follows, evicted>>

Init ==
  /\ \E killed \in {{}, Agents} :
       primary = [ policy_version  |-> PolicyVersion,
                   kill_switch     |-> [global |-> FALSE, agents |-> killed],
                   nonces          |-> [a \in Agents |-> << >>],
                   max_concurrent  |-> MaxConcurrent,
                   active          |-> [a \in Agents |-> 0],
                   active_auths    |-> [a \in Agents |-> {}],
                   calls           |-> [a \in Agents |-> << >>],
                   spent_in_period |-> [a \in Agents |-> 0],
                   counters        |-> [a \in Agents |-> Undefined] ]
  /\ standby = SlicesOf(primary)
  /\ follows = FALSE
  /\ evicted = FALSE
  /\ last = "nothing"

Next == Import \/ Evaluate

Spec == Init /\ [][Next]_vars

-----------------------------------------------------------------------------
(***************************************************************************)
(* Properties                                                              *)
(***************************************************************************)

(* The hash that verifySnapshot reports is that of the state an engine     *)
(* holds after importing the snapshot, and it is the exported state's own, *)
(* if nothing is lost on the way.  A snapshot that lost a module or an     *)
(* optional field is still verified and still imported, the module being   *)
(* reset: only the hash that the engine then computes gives it away.       *)
HashesTell ==
  LET exported == Codecs!ExportState(SlicesOf(primary), PolicyId)
  IN  \A snapshot \in Damaged(exported) :
        LET verified == Codecs!VerifySnapshot(snapshot, PolicyId)
            import   == Codecs!ImportState(standby, standby, snapshot, PolicyId)
        IN  verified.violations = {} /\ import.ok =>
              (Hash(import.current) = verified.stateHash <=> snapshot = exported)

(* An import that throws, on whatever payload, leaves the engine with the  *)
(* state it had, though it has overwritten slices of the copy by then.     *)
EngineKeepsItsState == [][last' = "refused" => standby' = standby]_vars

(* docs/invariants.md:12, I3: from equal hashes the same intents come to   *)
(* equal decisions, reasons and hashes.  The import sorts the lists of     *)
(* nonces and of calls, which nothing depends on - until the list of       *)
(* nonces is full and its order says which nonce to forget.                *)
AlikeUntilEviction == ~evicted => last \notin {"differed", "diverged"}

(* docs/invariants.md:12, I3, without reservation, of decisions alone.     *)
DecisionEquivalence == last # "differed"
=============================================================================
