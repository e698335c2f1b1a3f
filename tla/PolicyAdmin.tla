----------------------------- MODULE PolicyAdmin -----------------------------
(***************************************************************************)
(* PolicyEngine with an operator who edits the configured part of a live   *)
(* state and puts other engines to work on it: concurrency.max_concurrent  *)
(* and policy_version are plain fields of the State object the caller      *)
(* owns, no code of the engine guards an edit against the counters, and    *)
(* that an engine lacks its private key shows only when it signs.          *)
(***************************************************************************)
EXTENDS PolicyEngine

CONSTANT LimitValues  (* the values max_concurrent may be set to *)

ASSUME LimitValuesAssumption == LimitValues \subseteq Nat

SetMaxConcurrent ==
  /\ \E a \in Agents, n \in LimitValues :
       state' = [state EXCEPT !.max_concurrent[a] = n]
  /\ out' = NoOutput
  /\ UNCHANGED <<currentState, auditCount, clock, canSign, history>>

SetPolicyVersion ==
  /\ \E v \in PolicyVersions : state' = [state EXCEPT !.policy_version = v]
  /\ out' = NoOutput
  /\ UNCHANGED <<currentState, auditCount, clock, canSign, history>>

(* The constructor takes its options as they are.                          *)
ReplaceEngine ==
  /\ canSign' \in BOOLEAN
  /\ currentState' = NoState
  /\ auditCount' = 0
  /\ out' = NoOutput
  /\ UNCHANGED <<state, clock, history>>

AdminNext == Next \/ SetMaxConcurrent \/ SetPolicyVersion \/ ReplaceEngine

AdminSpec == Init /\ [][AdminNext]_vars

OverLimit == {a \in Agents : state.active[a] > state.max_concurrent[a]}

(* INTERNAL_ERROR has two causes: the engine lacks the key to sign with,   *)
(* or some agent, not always the one of the intent, holds more slots than  *)
(* its lowered limit (PolicyEngine.ts:461-464, normalizeConcurrency).      *)
InternalErrorExplained == out.reasons = {"INTERNAL_ERROR"} => ~canSign \/ OverLimit # {}

(* While an agent is over its limit no other agent's EXECUTE is allowed    *)
(* either: the state hash covers all agents.  Only the over-limit agent's  *)
(* own RELEASEs bring its counter down, and those that leave it over the   *)
(* limit are answered INTERNAL_ERROR.                                      *)
OverLimitStopsEveryAgent ==
  [][ OverLimit # {} =>
        (out'.decision = "ALLOW" =>
           /\ out'.accepts.type = "RELEASE"
           /\ OverLimit = {out'.accepts.agent_id}) ]_vars
=============================================================================
