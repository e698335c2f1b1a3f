----------------------------- MODULE PolicyEngine -----------------------------
(***************************************************************************)
(* PolicyEngine.evaluate and evaluatePure (packages/core/src/policy/       *)
(* PolicyEngine.ts) over the State object of one caller.                   *)
(*                                                                         *)
(* All modules of the pipeline look at the state as it was when the call   *)
(* began; the deltas of those that allow are then merged in order.  The    *)
(* merge copies the top level of the state only and writes the nested maps *)
(* where they are (mergeInto), so that what is merged before a denial      *)
(* stays in the caller's state.  A call is one atomic action: evaluation   *)
(* is synchronous.                                                         *)
(***************************************************************************)
EXTENDS PolicyPipeline

CONSTANTS
  IntentTypes,      (* which types of intent the callers submit             *)
  Entries,          (* which of <<function, mode>> the callers use          *)
  CheckpointEvery,  (* checkpoint_every_n_events; 0: the option is not set *)
  MaxConcurrent,    (* the initial concurrency.max_concurrent, per agent   *)
  Skew,             (* how old an intent's timestamp may be when evaluated *)
  Switches,         (* the kill switches the owner ever flips              *)
  MaxTime,          (* bound: the last instant                             *)
  MaxCredit,        (* bound: how much denied negative amounts take off    *)
  NoState           (* the engine has no current state yet                 *)

AllEntries ==
  { <<"evaluate", "fail-fast">>, <<"evaluatePure", "fail-fast">>,
    <<"evaluatePure", "collect-all">> }

ASSUME EngineAssumption ==
  /\ IntentTypes \subseteq {"EXECUTE", "RELEASE"}
  /\ Entries \subseteq AllEntries
  /\ Switches \subseteq Agents \cup {"global"}
  /\ "global" \notin Agents
  /\ CheckpointEvery \in Nat
  /\ MaxConcurrent \in [Agents -> Nat]
  /\ Skew \in Nat
  /\ MaxTime \in Nat
  /\ MaxCredit \in Nat

VARIABLES
  state,         (* the State object the caller passes to every call       *)
  currentState,  (* PolicyEngine.currentState                              *)
  auditCount,    (* auditEventCount, modulo CheckpointEvery                *)
  out,           (* what the last step returned and appended to the audit  *)
  clock,         (* the callers' clock                                     *)
  canSign,       (* the engine that is called has the key it signs with    *)
  (* History variables: no action reads what is below, but for MaxCredit.  *)
  accepted,      (* what was allowed so far                                *)
  authorised,    (* per agent, the sum of the amounts allowed              *)
  credited,      (* per agent, what denied negative amounts took off       *)
  released,      (* the <<agent, authorization>> pairs released            *)
  rereleased,    (* the agents that had one authorization released twice   *)
  evicted        (* the <<agent, nonce entry>> the cap of the list dropped *)

history == <<accepted, authorised, credited, released, rereleased, evicted>>
vars == <<state, currentState, auditCount, out, clock, canSign, history>>

-----------------------------------------------------------------------------
(***************************************************************************)
(* Intents: any agent, a nonce and a timestamp of the caller's choosing.   *)
(***************************************************************************)

Instants == {t \in 0 .. MaxTime : t <= clock /\ clock <= t + Skew}

Intents ==
  { i \in ExecuteIntents(Instants) \cup ReleaseIntents(Instants, state) :
      /\ i.type \in IntentTypes
      /\ i.type = "EXECUTE" /\ i.agent_id \in Agents /\ i.request.amount < 0 =>
           credited[i.agent_id] - i.request.amount <= MaxCredit }

-----------------------------------------------------------------------------
(***************************************************************************)
(* Audit events of one call; maybeEmitCheckpoint looks at the running      *)
(* count after the decision's own events.                                  *)
(***************************************************************************)

CountAfter(n) ==
  IF CheckpointEvery = 0 THEN 0 ELSE (auditCount + n) % CheckpointEvery

CheckpointDue(n) == CheckpointEvery # 0 /\ CountAfter(n) = 0

Emitted(events) ==
  IF CheckpointDue(Len(events)) THEN Append(events, "STATE_CHECKPOINT") ELSE events

NoOutput == [decision |-> "NONE", reasons |-> {}, events |-> << >>, accepts |-> Undefined]

(* What every call ends with: evaluate() keeps the state, in either case.  *)
EndCall(entry, events) ==
  /\ auditCount' = CountAfter(Len(events))
  /\ currentState' = IF entry[1] = "evaluate" THEN state' ELSE currentState
  /\ UNCHANGED <<clock, canSign>>

Deny(entry, reasons, events) ==
  /\ out' = [decision |-> "DENY", reasons |-> reasons, events |-> events,
              accepts |-> Undefined]
  /\ EndCall(entry, events)

Allow(entry, acceptance) ==
  LET events == Emitted(<<"INTENT_RECEIVED", "DECISION", "AUTH_EMITTED">>)
  IN  /\ out' = [decision |-> "ALLOW", reasons |-> {}, events |-> events,
                 accepts |-> acceptance]
      /\ accepted' = accepted \cup {acceptance}
      /\ EndCall(entry, events)

RejectIntent(entry, i) ==
  /\ EarlyReasons(i, state) # {}
  /\ UNCHANGED <<state, history>>
  /\ Deny(entry, EarlyReasons(i, state), << >>)

(* History: the entries the cap drops out of the replay list, less the     *)
(* entry of this call when it is put in.                                   *)
RecordEvictions(i, merged) ==
  LET a       == i.agent_id
      all     == NoncesWith(i, state)
      kept    == ReplayDelta(i, state)
      Of(list) == {<<a, list[k]>> : k \in DOMAIN list}
  IN  evicted' = IF "Replay" \in merged
                 THEN (evicted \cup Of(all)) \ Of(kept)
                 ELSE evicted

(* History: a denied negative amount that the Budget module has merged.    *)
RecordCredit(i, merged) ==
  LET a == i.agent_id
  IN  credited' = IF "Budget" \in merged /\ i.request.amount < 0
                  THEN [credited EXCEPT ![a] = @ - i.request.amount]
                  ELSE credited

(* A module denies.  What was merged before stays, and the checkpoint of   *)
(* the denial hashes it.                                                   *)
DenyIntent(entry, i) ==
  LET denying == Denying(i, state)
      merged  == Merged(i, denying, entry[2])
      working == MergeDeltas(i, state, merged)
      decided == <<"INTENT_RECEIVED", "DECISION">>
  IN  /\ EarlyReasons(i, state) = {}
      /\ denying # {}
      /\ state' = working
      /\ IF CheckpointDue(Len(decided)) /\ ~Hashable(working)
         THEN Deny(entry, {"INTERNAL_ERROR"}, decided)
         ELSE Deny(entry, DenyReasons(i, state, denying, entry[2]), Emitted(decided))
      /\ RecordEvictions(i, merged)
      /\ RecordCredit(i, merged)
      /\ UNCHANGED <<accepted, authorised, released, rereleased>>

(* Every module allows but the state hash throws, or signing does: the     *)
(* catch denies, after the merge, with no DECISION event.                  *)
FailIntent(entry, i) ==
  LET merged  == Merged(i, {}, entry[2])
      working == MergeDeltas(i, state, merged)
  IN  /\ EarlyReasons(i, state) = {}
      /\ Denying(i, state) = {}
      /\ ~(Hashable(working) /\ canSign)
      /\ state' = working
      /\ Deny(entry, {"INTERNAL_ERROR"}, <<"INTENT_RECEIVED">>)
      /\ RecordEvictions(i, merged)
      /\ RecordCredit(i, merged)
      /\ UNCHANGED <<accepted, authorised, released, rereleased>>

(* EXECUTE is allowed: the new authorization joins active_auths.           *)
AllowExecute(entry, i) ==
  LET a       == i.agent_id
      merged  == Merged(i, {}, entry[2])
      working == MergeDeltas(i, state, merged)
      auth    == NewAuth(i, working)
  IN  /\ i.type = "EXECUTE"
      /\ EarlyReasons(i, state) = {}
      /\ Denying(i, state) = {}
      /\ Hashable(working)
      /\ canSign
      /\ state' = WithAuth(i, working)
      /\ Allow(entry, [ type |-> "EXECUTE", agent_id |-> a, auth |-> auth,
                        nonce |-> i.nonce, timestamp |-> i.timestamp,
                        request |-> i.request ])
      /\ authorised' = [authorised EXCEPT ![a] = @ + i.request.amount]
      /\ RecordEvictions(i, merged)
      /\ UNCHANGED <<credited, released, rereleased>>

(* RELEASE is allowed.  An authorization is emitted for it too, but it is  *)
(* not added to active_auths.                                              *)
AllowRelease(entry, i) ==
  LET a       == i.agent_id
      pair    == <<a, i.authorization_id>>
      merged  == Merged(i, {}, entry[2])
      working == MergeDeltas(i, state, merged)
  IN  /\ i.type = "RELEASE"
      /\ EarlyReasons(i, state) = {}
      /\ Denying(i, state) = {}
      /\ Hashable(working)
      /\ canSign
      /\ state' = WithAuth(i, working)
      /\ Allow(entry, [ type |-> "RELEASE", agent_id |-> a, auth |-> i.authorization_id,
                        nonce |-> i.nonce, timestamp |-> i.timestamp,
                        request |-> Undefined ])
      /\ released' = released \cup {pair}
      /\ rereleased' = IF pair \in released THEN rereleased \cup {a} ELSE rereleased
      /\ RecordEvictions(i, merged)
      /\ UNCHANGED <<authorised, credited>>

Evaluate(entry, i) ==
  \/ RejectIntent(entry, i)
  \/ DenyIntent(entry, i)
  \/ FailIntent(entry, i)
  \/ AllowExecute(entry, i)
  \/ AllowRelease(entry, i)

-----------------------------------------------------------------------------
(***************************************************************************)
(* The environment                                                         *)
(***************************************************************************)

Tick ==
  /\ clock < MaxTime
  /\ clock' = clock + 1
  /\ out' = NoOutput
  /\ UNCHANGED <<state, currentState, auditCount, canSign, history>>

(* The owner of the state flips a kill switch.                             *)
SetKillSwitch ==
  /\ \/ /\ "global" \in Switches
        /\ state' = [state EXCEPT !.kill_switch.global = ~@]
     \/ \E a \in Switches \cap Agents :
          state' = [state EXCEPT !.kill_switch.agents =
                      IF a \in @ THEN @ \ {a} ELSE @ \cup {a}]
  /\ out' = NoOutput
  /\ UNCHANGED <<currentState, auditCount, clock, canSign, history>>

InitState ==
  [ policy_version  |-> PolicyVersion,
    kill_switch     |-> [global |-> FALSE, agents |-> {}],
    nonces          |-> [a \in Agents |-> << >>],
    max_concurrent  |-> MaxConcurrent,
    active          |-> [a \in Agents |-> 0],
    active_auths    |-> [a \in Agents |-> {}],
    calls           |-> [a \in Agents |-> << >>],
    spent_in_period |-> [a \in Agents |-> 0],
    counters        |-> [a \in Agents |-> Undefined] ]

Init ==
  /\ state = InitState
  /\ currentState = NoState
  /\ auditCount = 0
  /\ out = NoOutput
  /\ clock = 0
  /\ canSign = CanSign
  /\ accepted = {}
  /\ authorised = [a \in Agents |-> 0]
  /\ credited = [a \in Agents |-> 0]
  /\ released = {}
  /\ rereleased = {}
  /\ evicted = {}

Next ==
  \/ \E entry \in Entries : \E i \in Intents : Evaluate(entry, i)
  \/ Tick
  \/ SetKillSwitch

Spec == Init /\ [][Next]_vars
-----------------------------------------------------------------------------
(***************************************************************************)
(* Properties                                                              *)
(***************************************************************************)

Acceptance ==
  [ type : {"EXECUTE", "RELEASE"}, agent_id : Agents, auth : AuthId, nonce : Nonces,
    timestamp : Nat, request : Requests \cup {Undefined} ]

(* Type invariant.                                                         *)
TypeOK ==
  /\ state \in State
  /\ currentState \in State \cup {NoState}
  /\ auditCount \in Nat
  /\ out.decision \in {"NONE", "ALLOW", "DENY"}
  /\ clock \in 0 .. MaxTime
  /\ canSign \in BOOLEAN
  /\ accepted \subseteq Acceptance
  /\ authorised \in [Agents -> Int]
  /\ credited \in [Agents -> Nat]
  /\ released \subseteq Agents \X AuthId
  /\ rereleased \subseteq Agents
  /\ evicted \subseteq Agents \X NonceEntry

(* The engine authorises more than an agent's budget by no more than the   *)
(* negative amounts that it denied: a denial may change the charge (the    *)
(* merge is in place), up by an amount that was never authorised, so that  *)
(* the charge is only an upper bound, or down (BudgetModule, mergeInto).   *)
BudgetBound ==
  \A a \in Agents :
    /\ authorised[a] <= state.spent_in_period[a] + credited[a]
    /\ state.spent_in_period[a] <= BudgetLimit[a]

Executed(a) == {e \in accepted : e.agent_id = a /\ e.type = "EXECUTE"}

(* The authorizations of an agent that were issued and not yet released.   *)
Outstanding(a) ==
  {auth \in {e.auth : e \in Executed(a)} : <<a, auth>> \notin released}

(* As long as an agent releases no authorization twice, the authorizations *)
(* it holds are at most its active slots, hence at most max_concurrent     *)
(* (ConcurrencyModule with the active_auths that evaluatePure adds).       *)
SlotBound ==
  \A a \in Agents :
    /\ state.active[a] <= state.max_concurrent[a]
    /\ a \notin rereleased => Cardinality(Outstanding(a)) <= state.active[a]

(* The state can always be snapshotted and hashed: no counter exceeds the  *)
(* limit the codec asserts, and a nonce entry is never listed twice.  So   *)
(* evaluatePure's catch is taken only for want of the private key.         *)
StateStaysHashable ==
  /\ Hashable(state)
  /\ canSign => out.reasons # {"INTERNAL_ERROR"}

(* The EXECUTEs accepted in the velocity window that is open are all       *)
(* counted, also those that came with an old timestamp, and the count is   *)
(* within max_actions (VelocityModule).                                    *)
VelocityBound ==
  \A a \in Agents :
    LET c == state.counters[a]
    IN  c # Undefined =>
          /\ c.count <= MaxActions
          /\ Cardinality({e \in Executed(a) :
               /\ e.timestamp >= c.window_start
               /\ e.timestamp < c.window_start + VelocityWindow}) <= c.count

(* An interval as long as the velocity window, less the skew of the        *)
(* timestamps, sees fewer than twice max_actions EXECUTEs: the windows are *)
(* fixed, not sliding, and a burst may straddle two of them, but one of    *)
(* the two EXECUTEs that opened them lies outside (VelocityModule).        *)
VelocityBurst ==
  \A a \in Agents : \A t \in 0 .. MaxTime :
    LET burst == {e \in Executed(a) :
                    e.timestamp >= t /\ e.timestamp < t + VelocityWindow - Skew}
    IN  burst = {} \/ Cardinality(burst) < 2 * MaxActions

(* At most max_calls tool calls, and at most max_calls_by_tool of one      *)
(* tool, were accepted in an interval as long as the window of the tool    *)
(* limits, less the skew of the timestamps (ToolAmplificationModule).      *)
ToolCallBound ==
  \A a \in Agents : \A t \in 0 .. MaxTime :
    LET calls == {e \in Executed(a) : /\ e.request.tool_call
                                      /\ e.timestamp <= t
                                      /\ e.timestamp >= t - (ToolWindow - Skew)}
    IN  /\ Cardinality(calls) <= MaxCalls[a]
        /\ \A tool \in DOMAIN MaxCallsByTool[a] :
             Cardinality({e \in calls : e.request.tool = tool}) <= MaxCallsByTool[a][tool]

(* A nonce an agent had accepted is not accepted again within the replay   *)
(* window, less the skew of the timestamps, unless the cap of the list had *)
(* dropped its entry (ReplayModule).                                       *)
NoReplay ==
  [][ out'.decision = "ALLOW" =>
        LET i == out'.accepts
        IN  \A e \in accepted :
              (e.agent_id = i.agent_id /\ e.nonce = i.nonce) =>
                \/ i.timestamp - e.timestamp > ReplayWindow - Skew
                \/ <<e.agent_id, [nonce |-> e.nonce, ts |-> e.timestamp]>> \in evicted ]_vars

(* An authorization never takes the place of another one in active_auths:  *)
(* what auth_id hashes differs from every earlier one of the agent, even   *)
(* when nonce and timestamp come again (NewAuth).                          *)
FreshAuthorization ==
  [][ (out'.decision = "ALLOW" /\ out'.accepts.type = "EXECUTE") =>
        LET a == out'.accepts.agent_id
        IN  /\ Cardinality(state'.active_auths[a]) = Cardinality(state.active_auths[a]) + 1
            /\ \A e \in Executed(a) : e.auth \in state'.active_auths[a] ]_vars

(* In fail-fast mode a denial, whatever it has merged, never gives back a  *)
(* slot or an authorization, and no budget but a negative amount of its    *)
(* own, which VelocityModule denies after BudgetModule has let it through. *)
DenyNeverLoosens ==
  [][ out'.decision = "DENY" =>
        \A a \in Agents :
          /\ \/ state'.spent_in_period[a] >= state.spent_in_period[a]
             \/ \E r \in Requests :
                  /\ r.amount < 0 /\ out'.reasons \in {{"VELOCITY_EXCEEDED"}, {"INTERNAL_ERROR"}}
                  /\ state'.spent_in_period[a] = state.spent_in_period[a] + r.amount
          /\ state'.active[a] >= state.active[a]
          /\ state'.active_auths[a] = state.active_auths[a] ]_vars

(* PolicyEngine.ts:389: "start from the original state, but do not mutate  *)
(* it".  A denial returns no nextState, so the caller goes on with the     *)
(* state it passed in, and that must be as it was.                         *)
DenyKeepsInputState == [][ out'.decision = "DENY" => state' = state ]_vars

(* packages/core/README.md:356: "RELEASE must reference a valid active     *)
(* authorization_id": one that was issued and is not released yet.         *)
ReleaseIsOfOutstanding ==
  [][ (out'.decision = "ALLOW" /\ out'.accepts.type = "RELEASE") =>
        out'.accepts.auth \in Outstanding(out'.accepts.agent_id) ]_vars
=============================================================================
