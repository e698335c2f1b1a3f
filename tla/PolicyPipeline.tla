---------------------------- MODULE PolicyPipeline ----------------------------
(***************************************************************************)
(* The evaluation of one intent by PolicyEngine.evaluatePure (packages/    *)
(* core/src/policy/PolicyEngine.ts), as operators on the intent and the    *)
(* state it is given.  PolicyEngine.tla runs it over the state object a    *)
(* caller keeps, Guard.tla over the states the SDK loads and saves.        *)
(*                                                                         *)
(* All modules of the pipeline look at the state as it was when the call   *)
(* began; the deltas of those that allow are then merged in order.         *)
(***************************************************************************)
EXTENDS PolicyModules

CONSTANTS
  PolicyVersion,  (* opts.policy_version                                   *)
  CanSign         (* the engine has the private key that Ed25519, if that  *)
                  (* is its authorization_signing_alg, signs with          *)

ASSUME PipelineAssumption == PolicyVersion \in PolicyVersions /\ CanSign \in BOOLEAN

-----------------------------------------------------------------------------
(***************************************************************************)
(* Intents whose timestamp is one of instants                              *)
(***************************************************************************)

ExecuteIntents(instants) ==
  [ type : {"EXECUTE"}, agent_id : Agents \cup Strangers, nonce : Nonces,
    timestamp : instants, request : Requests, authorization_id : {Undefined} ]

(* A RELEASE names an authorization that s lists for some agent, one that  *)
(* it does not list, or none; its payload is not looked at.                *)
ReleaseIntents(instants, s) ==
  LET unknown == [nonce |-> Undefined]
      known   == UNION {s.active_auths[a] : a \in Agents}
  IN  [ type : {"RELEASE"}, agent_id : Agents, nonce : Nonces,
        timestamp : instants, request : {Undefined},
        authorization_id : known \cup {unknown, Undefined} ]

-----------------------------------------------------------------------------
(***************************************************************************)
(* The pipeline                                                            *)
(***************************************************************************)

(* validateIntent, validateStateForIntent and the policy version: the      *)
(* reasons to deny before anything is audited.                             *)
EarlyReasons(i, s) ==
  IF i.type = "RELEASE" /\ i.authorization_id = Undefined THEN {"STATE_INVALID"}
  ELSE IF i.agent_id \notin Agents THEN {"STATE_INVALID"}
  ELSE IF s.policy_version # PolicyVersion THEN {"POLICY_VERSION_MISMATCH"}
  ELSE {}

Denying(i, s) == {k \in DOMAIN Modules(i) : Reasons(Modules(i)[k], i, s) # {}}

(* The denials the loop reaches: fail-fast stops at the first.             *)
Reached(denying, mode) ==
  {k \in denying : mode = "fail-fast" => \A d \in denying : k <= d}

DenyReasons(i, s, denying, mode) ==
  UNION {Reasons(Modules(i)[k], i, s) : k \in Reached(denying, mode)}

(* Mutant: fail-fast does not stop the merge.                              *)
MergedAll(i, denying, mode) == {Modules(i)[k] : k \in DOMAIN Modules(i) \ denying}

(* The modules whose delta is merged.                                      *)
Merged(i, denying, mode) ==
  { Modules(i)[k] : k \in {m \in DOMAIN Modules(i) \ denying :
                             mode = "fail-fast" => \A d \in denying : m < d} }

(* deepMerge writes what a delta holds and deletes nothing: an             *)
(* authorization that a delta leaves out of active_auths stays there.      *)
MergeInto(target, source) == target \cup source

(* The state after the deltas of the modules ms, all computed from s.      *)
MergeDeltas(i, s, ms) ==
  LET a == i.agent_id
      Put(m, map, delta) == IF m \in ms THEN [map EXCEPT ![a] = delta] ELSE map
  IN  [ policy_version  |-> s.policy_version,
        kill_switch     |-> s.kill_switch,
        nonces          |-> Put("Replay", s.nonces, ReplayDelta(i, s)),
        max_concurrent  |-> s.max_concurrent,
        active          |-> Put("Concurrency", s.active, ActiveDelta(i, s)),
        active_auths    |-> Put("Concurrency", s.active_auths,
                              MergeInto(s.active_auths[a], ActiveAuthsDelta(i, s))),
        calls           |-> Put("ToolAmplification", s.calls, CallsDelta(i, s)),
        spent_in_period |-> Put("Budget", s.spent_in_period, SpentDelta(i, s)),
        counters        |-> Put("Velocity", s.counters, CounterDelta(i, s)) ]

(* Mutants: the codec refuses the limit itself; the codec does not compare *)
(* the counter with the limit.                                             *)
HashableStrict(s) ==
  \A a \in Agents :
    /\ s.active[a] < s.max_concurrent[a]
    /\ \A j, k \in DOMAIN s.nonces[a] :
         j # k => s.nonces[a][j] # s.nonces[a][k]

HashableAnyCount(s) ==
  \A a \in Agents : \A j, k \in DOMAIN s.nonces[a] :
    j # k => s.nonces[a][j] # s.nonces[a][k]

(* computeStateHashFor succeeds: the codecs assert these of the state.     *)
Hashable(s) ==
  \A a \in Agents :
    /\ s.active[a] <= s.max_concurrent[a]
    /\ \A j, k \in DOMAIN s.nonces[a] :
         j # k => s.nonces[a][j] # s.nonces[a][k]

(* Mutant: what is hashed leaves the count of the window out.              *)
NewAuthUncounted(i, s) ==
  [nonce |-> i.nonce, timestamp |-> i.timestamp,
   counter |-> [s.counters[i.agent_id] EXCEPT !.count = 1]]

(* auth_id, computed from the state before the authorization is added.     *)
NewAuth(i, s) ==
  [nonce |-> i.nonce, timestamp |-> i.timestamp, counter |-> s.counters[i.agent_id]]

(* The state an intent that nobody denies leaves: EXECUTE adds its new     *)
(* authorization, RELEASE, which is given one too, does not.               *)
WithAuth(i, working) ==
  IF i.type = "EXECUTE"
  THEN [working EXCEPT !.active_auths[i.agent_id] = MergeInto(@, {NewAuth(i, working)})]
  ELSE working

(* What one call of evaluatePure returns and appends to the audit log when *)
(* no checkpoints are configured: next is nextState, or, after a denial,   *)
(* what became of the state passed in.  Hashing and signing come after the *)
(* merge, and what they throw is answered with a denial.                   *)
Evaluation(i, s, mode) ==
  LET denying  == Denying(i, s)
      working  == MergeDeltas(i, s, Merged(i, denying, mode))
      Denied(next, events) == [decision |-> "DENY", next |-> next, events |-> events]
  IN  IF EarlyReasons(i, s) # {} THEN Denied(s, << >>)
      ELSE IF denying # {} THEN Denied(working, <<"INTENT_RECEIVED", "DECISION">>)
      ELSE IF ~(Hashable(working) /\ CanSign) THEN Denied(working, <<"INTENT_RECEIVED">>)
      ELSE [ decision |-> "ALLOW",
             next     |-> WithAuth(i, working),
             events   |-> <<"INTENT_RECEIVED", "DECISION", "AUTH_EMITTED">> ]
=============================================================================
