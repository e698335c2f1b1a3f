-------------------------- MODULE PolicyEngineProofs --------------------------
(***************************************************************************)
(* Of PolicyEngine.tla, for any number of agents, nonces, requests and     *)
(* limits, both functions, both modes and any skew: its state is of the    *)
(* right type; what it authorises exceeds the budgets by denied negative   *)
(* amounts at most; it can always be hashed; an agent holds no more        *)
(* authorizations than it has active slots, hence no more than             *)
(* max_concurrent; and a denial gives nothing else back.  At the end, of   *)
(* PolicyAdmin.tla, for any limits an operator may set and any engines.    *)
(***************************************************************************)
EXTENDS PolicyAdmin, PolicyPipelineProofs, FiniteSetTheorems

(* What gets past EarlyReasons can be read by the modules.                 *)
LEMMA IntentIsReadable ==
  ASSUME TypeOK, NEW i \in Intents, EarlyReasons(i, state) = {}
  PROVE  Readable(i)
<1>1. i.agent_id \in Agents
  BY DEF EarlyReasons
<1>2. /\ i.type \in {"EXECUTE", "RELEASE"}
      /\ i.nonce \in Nonces
      /\ i.timestamp \in Instants
      /\ i.type = "EXECUTE" => i.request \in Requests
  BY DEF Intents, ExecuteIntents, ReleaseIntents
<1>3. i.timestamp \in Nat
  BY <1>2, EngineAssumption DEF Instants
<1>4. QED BY <1>1, <1>2, <1>3 DEF Readable

-----------------------------------------------------------------------------
(* What the merge may make of an agent's charge.                           *)
Charged(i, entry, a, spent) ==
  /\ state.spent_in_period[a] \in Int
  /\ spent \in Int
  /\ spent <= BudgetLimit[a]
  /\ IF a = i.agent_id /\ "Budget" \in Merged(i, Denying(i, state), entry[2])
     THEN /\ i.type = "EXECUTE"
          /\ i.request.amount \in Int
          /\ spent = state.spent_in_period[a] + i.request.amount
     ELSE spent = state.spent_in_period[a]

(* The state an evaluation leaves behind, before an authorization is added: *)
(* what DenyIntent, FailIntent, AllowExecute and AllowRelease share.        *)
LEMMA WorkingState ==
  ASSUME TypeOK, BudgetBound, NEW entry \in Entries, NEW i \in Intents,
         EarlyReasons(i, state) = {}
  PROVE  LET working == MergeDeltas(i, state, Merged(i, Denying(i, state), entry[2]))
         IN  /\ Readable(i)
             /\ working \in State
             /\ \A a \in Agents : Charged(i, entry, a, working.spent_in_period[a])
<1> DEFINE ms == Merged(i, Denying(i, state), entry[2])
<1>1. /\ Readable(i)
      /\ state \in State
  BY IntentIsReadable DEF TypeOK
<1>2. i.type = "RELEASE" => ms \cap {"ToolAmplification", "Budget", "Velocity"} = {}
  BY ReleaseMerges
<1>3. "Budget" \in ms => BudgetReasons(i, state) = {}
  BY BudgetAllows
<1>4. \A a \in Agents : state.spent_in_period[a] <= BudgetLimit[a]
  BY DEF BudgetBound
<1> HIDE DEF ms
<1>5. MergeDeltas(i, state, ms) \in State
  BY <1>1, <1>2, MergeType
<1>6. \A a \in Agents :
        LET spent == MergeDeltas(i, state, ms).spent_in_period[a]
        IN  /\ state.spent_in_period[a] \in Int
            /\ spent \in Int
            /\ spent <= BudgetLimit[a]
            /\ IF a = i.agent_id /\ "Budget" \in ms
               THEN /\ i.type = "EXECUTE"
                    /\ i.request.amount \in Int
                    /\ spent = state.spent_in_period[a] + i.request.amount
               ELSE spent = state.spent_in_period[a]
  BY <1>1, <1>2, <1>3, <1>4, MergeSpends
<1>7. \A a \in Agents : Charged(i, entry, a, MergeDeltas(i, state, ms).spent_in_period[a])
  BY <1>6 DEF Charged, ms
<1>8. QED BY <1>1, <1>5, <1>7 DEF ms

(* What a denial takes off the charge is credited, and nothing else.       *)
LEMMA DenialCredits ==
  ASSUME TypeOK, BudgetBound, NEW entry \in Entries, NEW i \in Intents,
         EarlyReasons(i, state) = {},
         RecordCredit(i, Merged(i, Denying(i, state), entry[2])),
         state' = MergeDeltas(i, state, Merged(i, Denying(i, state), entry[2])),
         authorised' = authorised
  PROVE  credited' \in [Agents -> Nat] /\ BudgetBound'
<1> DEFINE a  == i.agent_id
           ms == Merged(i, Denying(i, state), entry[2])
<1>1. /\ a \in Agents
      /\ \A b \in Agents : Charged(i, entry, b, state'.spent_in_period[b])
  BY WorkingState DEF Readable
<1>2. /\ authorised \in [Agents -> Int]
      /\ credited \in [Agents -> Nat]
      /\ \A b \in Agents : authorised[b] <= state.spent_in_period[b] + credited[b]
  BY DEF TypeOK, BudgetBound
<1>3. credited' = IF "Budget" \in ms /\ i.request.amount < 0
                  THEN [credited EXCEPT ![a] = @ - i.request.amount]
                  ELSE credited
  BY DEF RecordCredit
<1>4. "Budget" \in ms => i.request.amount \in Int
  BY <1>1 DEF Charged
<1>5. credited' \in [Agents -> Nat]
  <2>1. CASE "Budget" \in ms /\ i.request.amount < 0
    <3>1. credited[a] - i.request.amount \in Nat
      BY <1>1, <1>2, <1>4, <2>1
    <3> HIDE DEF ms
    <3>2. QED BY <1>1, <1>2, <1>3, <2>1, <3>1
  <2>2. CASE ~("Budget" \in ms /\ i.request.amount < 0)
    BY <1>2, <1>3, <2>2
  <2>3. QED BY <2>1, <2>2
<1>6. ASSUME NEW b \in Agents
      PROVE  /\ authorised[b] <= state'.spent_in_period[b] + credited'[b]
             /\ state'.spent_in_period[b] <= BudgetLimit[b]
  <2> DEFINE old == state.spent_in_period[b]
             new == state'.spent_in_period[b]
  <2>1. /\ authorised[b] \in Int
        /\ credited[b] \in Nat
        /\ authorised[b] <= old + credited[b]
        /\ old \in Int
        /\ new \in Int
        /\ new <= BudgetLimit[b]
    BY <1>1, <1>2 DEF Charged
  <2>2. CASE b = a /\ "Budget" \in ms
    <3>1. /\ i.request.amount \in Int
          /\ new = old + i.request.amount
      BY <1>1, <2>2 DEF Charged
    <3>2. credited'[b] = IF i.request.amount < 0
                         THEN credited[b] - i.request.amount ELSE credited[b]
      BY <1>1, <1>2, <1>3, <2>2
    <3> HIDE DEF old, new
    <3>3. authorised[b] <= new + credited'[b]
      BY <2>1, <3>1, <3>2
    <3>4. QED BY <2>1, <3>3 DEF old, new
  <2>3. CASE ~(b = a /\ "Budget" \in ms)
    <3>1. new = old
      BY <1>1, <2>3 DEF Charged
    <3>2. credited'[b] = credited[b]
      BY <1>1, <1>2, <1>3, <2>3
    <3>3. QED BY <2>1, <3>1, <3>2
  <2>4. QED BY <2>2, <2>3
<1>7. BudgetBound'
  BY <1>6 DEF BudgetBound
<1>8. QED BY <1>5, <1>7

Events == {"INTENT_RECEIVED", "DECISION", "AUTH_EMITTED", "STATE_CHECKPOINT"}

(* What every call ends with.                                              *)
LEMMA EndCallTypes ==
  ASSUME TypeOK, NEW entry, NEW events \in Seq(Events), EndCall(entry, events),
         state' \in State
  PROVE  /\ currentState' \in State \cup {NoState}
         /\ auditCount' \in Nat
         /\ clock' \in 0 .. MaxTime
         /\ canSign' \in BOOLEAN
<1>1. Len(events) \in Nat
  OBVIOUS
<1>2. CountAfter(Len(events)) \in Nat
  BY <1>1, EngineAssumption DEF CountAfter, TypeOK
<1>3. QED BY <1>2 DEF EndCall, TypeOK

(* A call appends only events of the engine.                               *)
LEMMA EmittedType ==
  ASSUME NEW events \in Seq(Events)
  PROVE  Emitted(events) \in Seq(Events)
BY DEF Emitted, Events

(* What the cap drops are entries of the replay list.                      *)
LEMMA EvictionsType ==
  ASSUME TypeOK, NEW i, Readable(i), NEW merged, RecordEvictions(i, merged)
  PROVE  evicted' \subseteq Agents \X NonceEntry
<1>1. /\ NoncesWith(i, state) \in Seq(NonceEntry)
      /\ i.agent_id \in Agents
  BY ReplayTypes DEF TypeOK, Readable
<1>2. \A k \in DOMAIN NoncesWith(i, state) :
        <<i.agent_id, NoncesWith(i, state)[k]>> \in Agents \X NonceEntry
  BY <1>1
<1>3. QED BY <1>2 DEF RecordEvictions, TypeOK

-----------------------------------------------------------------------------
(* Every action keeps TypeOK /\ BudgetBound.                               *)
Inv == TypeOK /\ BudgetBound

(* The invariant holds of the state the caller starts with.                *)
LEMMA InitInv == Init => Inv
<1> SUFFICES ASSUME Init PROVE Inv
  OBVIOUS
<1>1. InitState \in State
  BY EngineAssumption, PipelineAssumption DEF InitState, State
<1>2. TypeOK
  BY <1>1, EngineAssumption, PipelineAssumption DEF Init, TypeOK, NoOutput
<1>3. BudgetBound
  BY LimitsAssumption DEF Init, BudgetBound, InitState
<1>4. QED BY <1>2, <1>3 DEF Inv

(* A call rejected before the pipeline preserves the invariant.            *)
LEMMA RejectInv ==
  ASSUME Inv, NEW entry \in Entries, NEW i \in Intents, RejectIntent(entry, i)
  PROVE  Inv'
<1>1. /\ TypeOK
      /\ UNCHANGED <<state, history>>
      /\ EndCall(entry, << >>)
      /\ out'.decision = "DENY"
  BY DEF Inv, RejectIntent, Deny
<1>2. << >> \in Seq(Events)
  OBVIOUS
<1>3. state' \in State
  BY <1>1 DEF TypeOK
<1>4. TypeOK'
  BY <1>1, <1>2, <1>3, EndCallTypes DEF TypeOK, history
<1>5. BudgetBound'
  BY <1>1 DEF Inv, BudgetBound, history
<1>6. QED BY <1>4, <1>5 DEF Inv

(* So does a denial, whatever has been merged before it.                   *)
LEMMA DenyInv ==
  ASSUME Inv, NEW entry \in Entries, NEW i \in Intents, DenyIntent(entry, i)
  PROVE  Inv'
<1> DEFINE merged  == Merged(i, Denying(i, state), entry[2])
           decided == <<"INTENT_RECEIVED", "DECISION">>
<1>1. /\ TypeOK
      /\ BudgetBound
      /\ EarlyReasons(i, state) = {}
      /\ state' = MergeDeltas(i, state, merged)
      /\ RecordEvictions(i, merged)
      /\ RecordCredit(i, merged)
      /\ UNCHANGED <<accepted, authorised, released, rereleased>>
  BY DEF Inv, DenyIntent
<1>2. /\ Readable(i)
      /\ state' \in State
      /\ credited' \in [Agents -> Nat]
      /\ BudgetBound'
  BY <1>1, WorkingState, DenialCredits
<1>3. PICK events \in Seq(Events) : EndCall(entry, events) /\ out'.decision = "DENY"
  <2>1. decided \in Seq(Events) /\ Emitted(decided) \in Seq(Events)
    <3>1. decided \in Seq(Events)
      BY DEF Events
    <3>2. QED BY <3>1, EmittedType
  <2>2. \/ Deny(entry, {"INTERNAL_ERROR"}, decided)
        \/ Deny(entry, DenyReasons(i, state, Denying(i, state), entry[2]), Emitted(decided))
    BY Zenon DEF DenyIntent
  <2> HIDE DEF decided
  <2>3. EndCall(entry, decided) \/ EndCall(entry, Emitted(decided))
    BY <2>2, Zenon DEF Deny
  <2>4. out'.decision = "DENY"
    BY <2>2 DEF Deny
  <2>5. QED BY <2>1, <2>3, <2>4
<1>4. TypeOK'
  <2>1. /\ currentState' \in State \cup {NoState}
        /\ auditCount' \in Nat
        /\ clock' \in 0 .. MaxTime
        /\ canSign' \in BOOLEAN
    BY <1>1, <1>2, <1>3, EndCallTypes
  <2>2. evicted' \subseteq Agents \X NonceEntry
    BY <1>1, <1>2, EvictionsType
  <2>3. QED BY <1>1, <1>2, <1>3, <2>1, <2>2 DEF TypeOK
<1>5. QED BY <1>2, <1>4 DEF Inv

(* So does a call that fails at the state hash, after the merge.           *)
LEMMA FailInv ==
  ASSUME Inv, NEW entry \in Entries, NEW i \in Intents, FailIntent(entry, i)
  PROVE  Inv'
<1> DEFINE merged == Merged(i, Denying(i, state), entry[2])
           events == <<"INTENT_RECEIVED">>
<1>1. /\ TypeOK
      /\ BudgetBound
      /\ EarlyReasons(i, state) = {}
      /\ state' = MergeDeltas(i, state, merged)
      /\ RecordEvictions(i, merged)
      /\ RecordCredit(i, merged)
      /\ EndCall(entry, events)
      /\ out'.decision = "DENY"
      /\ UNCHANGED <<accepted, authorised, released, rereleased>>
  BY DEF Inv, FailIntent, Deny
<1>2. /\ Readable(i)
      /\ state' \in State
      /\ credited' \in [Agents -> Nat]
      /\ BudgetBound'
  BY <1>1, WorkingState, DenialCredits
<1>3. events \in Seq(Events)
  BY DEF Events
<1>4. TypeOK'
  <2>1. /\ currentState' \in State \cup {NoState}
        /\ auditCount' \in Nat
        /\ clock' \in 0 .. MaxTime
        /\ canSign' \in BOOLEAN
    BY <1>1, <1>2, <1>3, EndCallTypes
  <2>2. evicted' \subseteq Agents \X NonceEntry
    BY <1>1, <1>2, EvictionsType
  <2>3. QED BY <1>1, <1>2, <2>1, <2>2 DEF TypeOK
<1>5. QED BY <1>2, <1>4 DEF Inv

(* What an allowed call returns and adds to the history.                   *)
LEMMA AllowTypes ==
  ASSUME TypeOK, NEW entry, NEW acceptance \in Acceptance, Allow(entry, acceptance),
         state' \in State
  PROVE  /\ out'.decision = "ALLOW"
         /\ accepted' \subseteq Acceptance
         /\ currentState' \in State \cup {NoState}
         /\ auditCount' \in Nat
         /\ clock' \in 0 .. MaxTime
         /\ canSign' \in BOOLEAN
<1> DEFINE events == Emitted(<<"INTENT_RECEIVED", "DECISION", "AUTH_EMITTED">>)
<1>1. events \in Seq(Events)
  <2>1. <<"INTENT_RECEIVED", "DECISION", "AUTH_EMITTED">> \in Seq(Events)
    BY DEF Events
  <2>2. QED BY <2>1, EmittedType
<1>2. /\ EndCall(entry, events)
      /\ out'.decision = "ALLOW"
      /\ accepted' = accepted \cup {acceptance}
  BY DEF Allow
<1> HIDE DEF events
<1>3. QED BY <1>1, <1>2, EndCallTypes DEF TypeOK

(* The amount is charged to the budget in the very call that authorises it. *)
LEMMA AllowExecuteInv ==
  ASSUME Inv, NEW entry \in Entries, NEW i \in Intents, AllowExecute(entry, i)
  PROVE  Inv'
<1> DEFINE a       == i.agent_id
           merged  == Merged(i, Denying(i, state), entry[2])
           working == MergeDeltas(i, state, merged)
           auth    == NewAuth(i, working)
           acceptance == [ type |-> "EXECUTE", agent_id |-> a, auth |-> auth,
                           nonce |-> i.nonce, timestamp |-> i.timestamp,
                           request |-> i.request ]
<1>1. /\ TypeOK
      /\ BudgetBound
      /\ EarlyReasons(i, state) = {}
      /\ i.type = "EXECUTE"
      /\ Denying(i, state) = {}
      /\ state' = WithAuth(i, working)
      /\ Allow(entry, acceptance)
      /\ authorised' = [authorised EXCEPT ![a] = @ + i.request.amount]
      /\ RecordEvictions(i, merged)
      /\ UNCHANGED <<credited, released, rereleased>>
  BY DEF Inv, AllowExecute
<1>2. /\ Readable(i)
      /\ state \in State
      /\ working \in State
      /\ \A b \in Agents : Charged(i, entry, b, working.spent_in_period[b])
  BY <1>1, WorkingState DEF TypeOK
<1>3. /\ working.spent_in_period[a] = state.spent_in_period[a] + i.request.amount
      /\ working.counters[a] \in Counter
      /\ i.request.amount \in Int
  BY <1>1, <1>2, ExecuteCharges
<1>4. auth \in AuthId /\ acceptance \in Acceptance
  BY <1>1, <1>2, <1>3 DEF NewAuth, AuthId, Counter, Acceptance, Readable
<1> HIDE DEF merged, working, auth, acceptance
<1>5. /\ state' \in State
      /\ state'.spent_in_period = working.spent_in_period
  BY <1>1, <1>2, <1>3, WithAuthType
<1>6. TypeOK'
  <2>1. /\ out'.decision = "ALLOW"
        /\ accepted' \subseteq Acceptance
        /\ currentState' \in State \cup {NoState}
        /\ auditCount' \in Nat
        /\ clock' \in 0 .. MaxTime
        /\ canSign' \in BOOLEAN
    BY <1>1, <1>4, <1>5, AllowTypes
  <2>2. evicted' \subseteq Agents \X NonceEntry
    BY <1>1, <1>2, EvictionsType
  <2>3. authorised' \in [Agents -> Int]
    <3>1. authorised' = [authorised EXCEPT ![a] = @ + i.request.amount]
      BY <1>1
    <3>2. authorised \in [Agents -> Int]
      BY <1>1 DEF TypeOK
    <3>3. a \in Agents
      BY <1>2 DEF Readable
    <3>4. authorised[a] + i.request.amount \in Int
      BY <1>3, <3>2, <3>3
    <3>5. QED BY <3>1, <3>2, <3>3, <3>4
  <2>4. QED BY <1>1, <1>5, <2>1, <2>2, <2>3 DEF TypeOK
<1>7. BudgetBound'
  <2> SUFFICES ASSUME NEW b \in Agents
               PROVE  /\ authorised'[b] <= working.spent_in_period[b] + credited[b]
                      /\ working.spent_in_period[b] <= BudgetLimit[b]
    BY <1>1, <1>5 DEF BudgetBound
  <2>1. /\ authorised[b] \in Int
        /\ credited[b] \in Nat
        /\ state.spent_in_period[b] \in Int
        /\ working.spent_in_period[b] \in Int
        /\ working.spent_in_period[b] <= BudgetLimit[b]
        /\ authorised[b] <= state.spent_in_period[b] + credited[b]
    BY <1>1, <1>2 DEF TypeOK, BudgetBound, Charged
  <2>2. CASE b = a
    <3>1. authorised'[b] = authorised[b] + i.request.amount
      BY <1>1, <2>2 DEF TypeOK
    <3>2. QED BY <1>3, <2>1, <2>2, <3>1
  <2>3. CASE b # a
    <3>1. authorised'[b] = authorised[b]
      BY <1>1, <2>3 DEF TypeOK
    <3>2. working.spent_in_period[b] = state.spent_in_period[b]
      BY <1>2, <2>3 DEF Charged, a
    <3>3. QED BY <2>1, <3>1, <3>2
  <2>4. QED BY <2>2, <2>3
<1>8. QED BY <1>6, <1>7 DEF Inv

(* So does an allowed RELEASE, which charges nothing.                      *)
LEMMA AllowReleaseInv ==
  ASSUME Inv, NEW entry \in Entries, NEW i \in Intents, AllowRelease(entry, i)
  PROVE  Inv'
<1> DEFINE a      == i.agent_id
           merged == Merged(i, Denying(i, state), entry[2])
           pair   == <<a, i.authorization_id>>
           acceptance == [ type |-> "RELEASE", agent_id |-> a,
                           auth |-> i.authorization_id, nonce |-> i.nonce,
                           timestamp |-> i.timestamp, request |-> Undefined ]
<1>1. /\ TypeOK
      /\ BudgetBound
      /\ EarlyReasons(i, state) = {}
      /\ i.type = "RELEASE"
      /\ Denying(i, state) = {}
      /\ state' = MergeDeltas(i, state, merged)
      /\ Allow(entry, acceptance)
      /\ released' = released \cup {pair}
      /\ rereleased' = IF pair \in released THEN rereleased \cup {a} ELSE rereleased
      /\ RecordEvictions(i, merged)
      /\ UNCHANGED <<authorised, credited>>
  BY DEF Inv, AllowRelease, WithAuth
<1>2. /\ Readable(i)
      /\ state \in State
      /\ state' \in State
      /\ \A b \in Agents : Charged(i, entry, b, state'.spent_in_period[b])
  BY <1>1, WorkingState DEF TypeOK
<1>3. a \in Agents /\ i.authorization_id \in AuthId
  <2>1. i.authorization_id \in state.active_auths[a]
    BY <1>1, ReleaseIsListed
  <2>2. QED BY <1>2, <2>1 DEF Readable, State
<1>4. acceptance \in Acceptance
  BY <1>2, <1>3 DEF Acceptance, Readable
<1> HIDE DEF merged, acceptance
<1>5. TypeOK'
  <2>1. /\ out'.decision = "ALLOW"
        /\ accepted' \subseteq Acceptance
        /\ currentState' \in State \cup {NoState}
        /\ auditCount' \in Nat
        /\ clock' \in 0 .. MaxTime
        /\ canSign' \in BOOLEAN
    BY <1>1, <1>2, <1>4, AllowTypes
  <2>2. evicted' \subseteq Agents \X NonceEntry
    BY <1>1, <1>2, EvictionsType
  <2>3. released' \subseteq Agents \X AuthId /\ rereleased' \subseteq Agents
    BY <1>1, <1>3 DEF TypeOK
  <2>4. QED BY <1>1, <1>2, <2>1, <2>2, <2>3 DEF TypeOK
<1>6. BudgetBound'
  <2> SUFFICES ASSUME NEW b \in Agents
               PROVE  /\ authorised[b] <= state'.spent_in_period[b] + credited[b]
                      /\ state'.spent_in_period[b] <= BudgetLimit[b]
    BY <1>1 DEF BudgetBound
  <2>1. /\ state'.spent_in_period[b] = state.spent_in_period[b]
        /\ state'.spent_in_period[b] <= BudgetLimit[b]
    BY <1>1, <1>2 DEF Charged
  <2>2. QED BY <1>1, <2>1 DEF BudgetBound
<1>7. QED BY <1>5, <1>6 DEF Inv

(* So do the clock and the kill switches.                                  *)
LEMMA EnvironmentInv ==
  ASSUME Inv, Tick \/ SetKillSwitch
  PROVE  Inv'
<1>1. CASE Tick
  BY <1>1, EngineAssumption
     DEF Tick, Inv, TypeOK, BudgetBound, NoOutput, history
<1>2. CASE SetKillSwitch
  <2>1. /\ state' \in State
        /\ state'.spent_in_period = state.spent_in_period
    <3>1. state \in State
      BY DEF Inv, TypeOK
    <3>2. CASE state' = [state EXCEPT !.kill_switch.global = ~@]
      BY <3>1, <3>2 DEF State
    <3>3. ASSUME NEW a \in Switches \cap Agents,
                 state' = [state EXCEPT !.kill_switch.agents =
                             IF a \in @ THEN @ \ {a} ELSE @ \cup {a}]
          PROVE  state' \in State /\ state'.spent_in_period = state.spent_in_period
      BY <3>1, <3>3 DEF State
    <3>4. QED BY <1>2, <3>2, <3>3 DEF SetKillSwitch
  <2>2. TypeOK'
    BY <1>2, <2>1 DEF SetKillSwitch, Inv, TypeOK, NoOutput, history
  <2>3. BudgetBound'
    BY <1>2, <2>1 DEF SetKillSwitch, Inv, BudgetBound, history
  <2>4. QED BY <2>2, <2>3 DEF Inv
<1>3. QED BY <1>1, <1>2

(* Every step preserves the invariant.                                     *)
LEMMA NextInv == Inv /\ [Next]_vars => Inv'
<1> SUFFICES ASSUME Inv, [Next]_vars PROVE Inv'
  OBVIOUS
<1>1. CASE UNCHANGED vars
  BY <1>1 DEF vars, history, Inv, TypeOK, BudgetBound
<1>2. ASSUME NEW entry \in Entries, NEW i \in Intents, Evaluate(entry, i)
      PROVE  Inv'
  BY <1>2, RejectInv, DenyInv, FailInv, AllowExecuteInv, AllowReleaseInv DEF Evaluate
<1>3. CASE Tick \/ SetKillSwitch
  BY <1>3, EnvironmentInv
<1>4. QED BY <1>1, <1>2, <1>3 DEF Next

(* The invariant holds of every reachable state.                           *)
LEMMA InvHolds == Spec => []Inv
BY InitInv, NextInv, PTL DEF Spec

-----------------------------------------------------------------------------
(* Every reachable state is one the codecs of packages/core/src/policy/    *)
(* modules/_codec.ts can read field by field: no counter goes negative, no *)
(* nested map loses an agent and no list an entry's shape, whatever the    *)
(* merge of the module deltas leaves behind after a denial.                *)
THEOREM TypeCorrect == Spec => []TypeOK
<1>1. Inv => TypeOK
  BY DEF Inv
<1>2. QED BY <1>1, InvHolds, PTL

(* What the engine authorises an agent to spend exceeds what it has        *)
(* charged to the agent's budget by no more than the negative amounts it   *)
(* denied after merging them, and the charge never exceeds the limit,      *)
(* although denials charge it too (BudgetModule.ts, mergeInto).            *)
THEOREM BudgetRespected == Spec => []BudgetBound
<1>1. Inv => BudgetBound
  BY DEF Inv
<1>2. QED BY <1>1, InvHolds, PTL

NoCredit == \A a \in Agents : credited[a] = 0

(* Without negative amounts denials take nothing off.                      *)
LEMMA NoCreditStep ==
  ASSUME \A r \in Requests : r.amount >= 0
  PROVE  Inv /\ NoCredit /\ [Next]_vars => NoCredit'
<1> SUFFICES ASSUME Inv, NoCredit, [Next]_vars PROVE NoCredit'
  OBVIOUS
<1>1. ASSUME NEW entry \in Entries, NEW i \in Intents,
             DenyIntent(entry, i) \/ FailIntent(entry, i)
      PROVE  credited' = credited
  <2> DEFINE ms == Merged(i, Denying(i, state), entry[2])
  <2>1. EarlyReasons(i, state) = {} /\ RecordCredit(i, ms)
    BY <1>1, Zenon DEF DenyIntent, FailIntent
  <2>2. Readable(i)
    BY <2>1, IntentIsReadable DEF Inv
  <2>3. "Budget" \in ms => i.type = "EXECUTE"
    BY <2>2, ReleaseMerges DEF Readable
  <2> HIDE DEF ms
  <2>4. ~("Budget" \in ms /\ i.request.amount < 0)
    <3> SUFFICES ASSUME "Budget" \in ms PROVE ~(i.request.amount < 0)
      OBVIOUS
    <3>1. i.request \in Requests
      BY <2>2, <2>3 DEF Readable
    <3>2. i.request.amount \in Int /\ i.request.amount >= 0
      BY <3>1, LimitsAssumption DEF Request
    <3>3. QED BY <3>2
  <2>5. QED BY <2>1, <2>4, Zenon DEF RecordCredit
<1>2. ASSUME NEW entry \in Entries, NEW i \in Intents, Evaluate(entry, i)
      PROVE  credited' = credited
  BY <1>1, <1>2, Zenon DEF Evaluate, RejectIntent, AllowExecute, AllowRelease, history
<1>3. CASE Tick \/ SetKillSwitch \/ UNCHANGED vars
  BY <1>3 DEF Tick, SetKillSwitch, vars, history, NoCredit
<1>4. QED BY <1>2, <1>3 DEF Next, NoCredit

(* Callers who propose no negative amount never have an agent authorised   *)
(* for more than its budget in all (BudgetModule.ts:16-29).                *)
THEOREM BudgetKept ==
  ASSUME \A r \in Requests : r.amount >= 0
  PROVE  Spec => [](\A a \in Agents : authorised[a] <= BudgetLimit[a])
<1>1. Init => NoCredit
  BY DEF Init, NoCredit
<1>2. Inv /\ NoCredit /\ [Next]_vars => NoCredit'
  BY NoCreditStep
<1>3. Inv /\ NoCredit => \A a \in Agents : authorised[a] <= BudgetLimit[a]
  <2> SUFFICES ASSUME Inv, NoCredit, NEW a \in Agents
               PROVE  authorised[a] <= BudgetLimit[a]
    OBVIOUS
  <2>1. /\ authorised[a] \in Int
        /\ state.spent_in_period[a] \in Int
        /\ BudgetLimit[a] \in Nat
    BY LimitsAssumption DEF Inv, TypeOK, State
  <2>2. QED BY <2>1 DEF Inv, BudgetBound, NoCredit
<1>4. QED BY <1>1, <1>2, <1>3, InvHolds, PTL DEF Spec

-----------------------------------------------------------------------------
(***************************************************************************)
(* No entry of a replay list is ever listed twice                          *)
(***************************************************************************)

Distinct(list) == \A j, k \in DOMAIN list : j # k => list[j] # list[k]

(* The elements of part are pairwise different and among the first n of    *)
(* list.                                                                   *)
Selects(list, n, part) ==
  /\ Distinct(part)
  /\ \A k \in DOMAIN part : \E j \in 1 .. n : part[k] = list[j]

(* Appending the next element of a list without repetitions to a selection *)
(* of those before it.                                                     *)
LEMMA SelectNext ==
  ASSUME NEW S, NEW list \in Seq(S), Distinct(list), NEW n \in 1 .. Len(list),
         NEW part \in Seq(S), Selects(list, n - 1, part)
  PROVE  Selects(list, n, Append(part, list[n]))
<1> DEFINE more == Append(part, list[n])
<1>1. /\ Len(more) = Len(part) + 1
      /\ DOMAIN more = 1 .. Len(part) + 1
      /\ DOMAIN part = 1 .. Len(part)
      /\ DOMAIN list = 1 .. Len(list)
      /\ Len(part) \in Nat
      /\ Len(list) \in Nat
      /\ more[Len(part) + 1] = list[n]
      /\ \A k \in 1 .. Len(part) : more[k] = part[k]
  OBVIOUS
<1>2. \A k \in 1 .. Len(part) : \E j \in 1 .. n - 1 : part[k] = list[j]
  BY <1>1 DEF Selects
<1>3. \A k \in 1 .. Len(part) : part[k] # list[n]
  <2> SUFFICES ASSUME NEW k \in 1 .. Len(part) PROVE part[k] # list[n]
    OBVIOUS
  <2>1. PICK j \in 1 .. n - 1 : part[k] = list[j]
    BY <1>2
  <2>2. j \in DOMAIN list /\ n \in DOMAIN list /\ j # n
    BY <1>1, <2>1
  <2>3. QED BY <2>1, <2>2 DEF Distinct
<1>4. \A j, k \in 1 .. Len(part) : j # k => part[j] # part[k]
  BY <1>1 DEF Selects, Distinct
<1> HIDE DEF more
<1>5. Distinct(more)
  <2> SUFFICES ASSUME NEW j \in DOMAIN more, NEW k \in DOMAIN more, j # k
               PROVE  more[j] # more[k]
    BY DEF Distinct
  <2>1. CASE j = Len(part) + 1
    BY <1>1, <1>3, <2>1
  <2>2. CASE k = Len(part) + 1
    BY <1>1, <1>3, <2>2
  <2>3. CASE j # Len(part) + 1 /\ k # Len(part) + 1
    <3>1. j \in 1 .. Len(part) /\ k \in 1 .. Len(part)
      BY <1>1, <2>3
    <3>2. QED BY <1>1, <1>4, <3>1
  <2>4. QED BY <2>1, <2>2, <2>3
<1>6. \A k \in DOMAIN more : \E j \in 1 .. n : more[k] = list[j]
  <2> SUFFICES ASSUME NEW k \in DOMAIN more
               PROVE  \E j \in 1 .. n : more[k] = list[j]
    OBVIOUS
  <2>1. CASE k = Len(part) + 1
    BY <1>1, <2>1
  <2>2. CASE k # Len(part) + 1
    <3>1. k \in 1 .. Len(part)
      BY <1>1, <2>2
    <3>2. PICK j \in 1 .. n - 1 : part[k] = list[j]
      BY <1>2, <3>1
    <3>3. j \in 1 .. n
      BY <3>2
    <3>4. QED BY <1>1, <3>1, <3>2, <3>3
  <2>3. QED BY <2>1, <2>2
<1>7. QED BY <1>5, <1>6 DEF Selects, more

(* Prune repeats no element that the list does not repeat.                 *)
LEMMA PruneDistinct ==
  ASSUME NEW S, NEW list \in Seq(S), Distinct(list), NEW cutoff
  PROVE  Distinct(Prune(list, cutoff))
<1>1. PICK g : /\ Prunes(list, cutoff, Len(list), g)
               /\ Prune(list, cutoff) = g[Len(list)]
  BY PruneUnfolds
<1> DEFINE Good(n) == g[n] \in Seq(S) /\ Selects(list, n, g[n])
           X == {n \in 0 .. Len(list) : ~Good(n)}
<1>2. CASE X = {}
  <2>1. Len(list) \in 0 .. Len(list)
    OBVIOUS
  <2>2. Good(Len(list))
    BY <1>2, <2>1
  <2>3. QED BY <1>1, <2>2 DEF Selects
<1>3. CASE X # {}
  <2>1. PICK n \in X : \A y \in X : ~(y < n)
    <3>1. X \in SUBSET Nat
      OBVIOUS
    <3>2. QED BY <1>3, <3>1, LeastElement, Zenon
  <2>2. /\ n \in 0 .. Len(list)
        /\ ~Good(n)
        /\ g[n] = Step(list, cutoff, g, n)
    BY <1>1, <2>1 DEF Prunes
  <2>3. CASE n = 0
    <3>1. g[n] = << >>
      BY <2>2, <2>3 DEF Step
    <3>2. /\ << >> \in Seq(S)
          /\ DOMAIN << >> = {}
      OBVIOUS
    <3>3. Good(n)
      BY <3>1, <3>2 DEF Selects, Distinct
    <3>4. QED BY <2>2, <3>3
  <2>4. CASE n # 0
    <3>1. /\ n - 1 \in 0 .. Len(list)
          /\ n \in 1 .. Len(list)
          /\ n - 1 < n
      BY <2>2, <2>4
    <3>2. Good(n - 1)
      BY <2>1, <3>1
    <3>3. list[n] \in S
      BY <3>1
    <3>4. CASE g[n] = Append(g[n - 1], list[n])
      <4>1. g[n] \in Seq(S)
        BY <3>2, <3>3, <3>4
      <4>2. Selects(list, n, g[n])
        BY <3>1, <3>2, <3>4, SelectNext
      <4>3. QED BY <2>2, <4>1, <4>2
    <3>5. CASE g[n] = g[n - 1]
      <4>1. Selects(list, n, g[n])
        <5>1. \A k \in DOMAIN g[n] : \E j \in 1 .. n - 1 : g[n][k] = list[j]
          BY <3>2, <3>5 DEF Selects
        <5>2. \A j \in 1 .. n - 1 : j \in 1 .. n
          BY <3>1
        <5>3. QED BY <3>2, <3>5, <5>1, <5>2 DEF Selects
      <4>2. QED BY <2>2, <3>2, <3>5, <4>1
    <3>6. QED BY <2>2, <2>4, <3>4, <3>5 DEF Step
  <2>5. QED BY <2>3, <2>4
<1>4. QED BY <1>2, <1>3

(* Nor does KeepLast.                                                      *)
LEMMA KeepLastDistinct ==
  ASSUME NEW S, NEW list \in Seq(S), Distinct(list), NEW n \in Nat
  PROVE  Distinct(KeepLast(list, n))
<1>1. CASE Len(list) <= n
  BY <1>1 DEF KeepLast
<1>2. CASE ~(Len(list) <= n)
  <2> DEFINE from == Len(list) - n + 1
             part == SubSeq(list, from, Len(list))
  <2>1. /\ Len(list) \in Nat
        /\ DOMAIN list = 1 .. Len(list)
        /\ from \in 1 .. Len(list) + 1
    BY <1>2
  <2>2. \A k \in from .. Len(list) : list[k] \in S
    BY <2>1
  <2>3. /\ DOMAIN part = 1 .. Len(list) - from + 1
        /\ \A k \in 1 .. Len(list) - from + 1 : part[k] = list[from + k - 1]
    BY <2>1
  <2> HIDE DEF part, from
  <2>4. ASSUME NEW j \in DOMAIN part, NEW k \in DOMAIN part, j # k
        PROVE  part[j] # part[k]
    <3>1. /\ from + j - 1 \in DOMAIN list
          /\ from + k - 1 \in DOMAIN list
          /\ from + j - 1 # from + k - 1
      BY <2>1, <2>3, <2>4
    <3>2. QED BY <2>3, <2>4, <3>1 DEF Distinct
  <2>5. QED BY <1>2, <2>4 DEF KeepLast, Distinct, part, from
<1>3. QED BY <1>1, <1>2

(* An intent whose nonce is not on the list is entered once.               *)
LEMMA ReplayDeltaDistinct ==
  ASSUME NEW i, Readable(i), NEW s \in State, Distinct(s.nonces[i.agent_id]),
         ReplayReasons(i, s) = {}
  PROVE  Distinct(ReplayDelta(i, s))
<1> DEFINE recent == RecentNonces(i, s)
           entry  == [nonce |-> i.nonce, ts |-> i.timestamp]
<1>1. s.nonces[i.agent_id] \in Seq(NonceEntry)
  BY DEF State, Readable
<1>2. /\ recent \in Seq(NonceEntry)
      /\ Distinct(recent)
  BY <1>1, PruneType, PruneDistinct DEF RecentNonces
<1>3. \A k \in DOMAIN recent : recent[k].nonce # i.nonce
  BY DEF ReplayReasons
<1>4. /\ entry \in NonceEntry
      /\ entry.nonce = i.nonce
  BY DEF Readable, NonceEntry
<1>5. NoncesWith(i, s) = Append(recent, entry)
  BY DEF NoncesWith
<1> HIDE DEF recent, entry
<1>6. \A k \in DOMAIN recent : recent[k] # entry
  BY <1>3, <1>4
<1>7. /\ NoncesWith(i, s) \in Seq(NonceEntry)
      /\ DOMAIN NoncesWith(i, s) = 1 .. Len(recent) + 1
      /\ DOMAIN recent = 1 .. Len(recent)
      /\ Len(recent) \in Nat
      /\ NoncesWith(i, s)[Len(recent) + 1] = entry
      /\ \A k \in 1 .. Len(recent) : NoncesWith(i, s)[k] = recent[k]
  BY <1>2, <1>4, <1>5
<1>8. Distinct(NoncesWith(i, s))
  BY <1>2, <1>6, <1>7 DEF Distinct
<1>9. QED BY <1>7, <1>8, KeepLastDistinct, LimitsAssumption DEF ReplayDelta

-----------------------------------------------------------------------------
(***************************************************************************)
(* The hash never throws                                                   *)
(***************************************************************************)

(* No module denies with the reason of evaluatePure's catch.               *)
LEMMA ModuleReasons ==
  ASSUME NEW i, NEW s, NEW k \in DOMAIN Modules(i)
  PROVE  "INTERNAL_ERROR" \notin Reasons(Modules(i)[k], i, s)
<1>1. Modules(i)[k] \in { "KillSwitch", "Allowlist", "Replay", "RecursionDepth",
                          "Concurrency", "ToolAmplification", "Budget", "Velocity" }
  BY DEF Modules, ExecuteModules, ReleaseModules
<1>2. "INTERNAL_ERROR" \notin KillSwitchReasons(i, s)
  BY DEF KillSwitchReasons
<1>3. "INTERNAL_ERROR" \notin AllowlistReasons(i)
  BY DEF AllowlistReasons
<1>4. "INTERNAL_ERROR" \notin ReplayReasons(i, s)
  BY DEF ReplayReasons
<1>5. "INTERNAL_ERROR" \notin RecursionDepthReasons(i)
  BY DEF RecursionDepthReasons
<1>6. "INTERNAL_ERROR" \notin ConcurrencyReasons(i, s)
  BY DEF ConcurrencyReasons
<1>7. "INTERNAL_ERROR" \notin ToolAmplificationReasons(i, s)
  BY DEF ToolAmplificationReasons
<1>8. "INTERNAL_ERROR" \notin BudgetReasons(i, s)
  BY DEF BudgetReasons
<1>9. "INTERNAL_ERROR" \notin VelocityReasons(i, s)
  BY DEF VelocityReasons
<1>10. /\ Reasons("KillSwitch", i, s) = KillSwitchReasons(i, s)
       /\ Reasons("Allowlist", i, s) = AllowlistReasons(i)
       /\ Reasons("Replay", i, s) = ReplayReasons(i, s)
       /\ Reasons("RecursionDepth", i, s) = RecursionDepthReasons(i)
       /\ Reasons("Concurrency", i, s) = ConcurrencyReasons(i, s)
       /\ Reasons("ToolAmplification", i, s) = ToolAmplificationReasons(i, s)
       /\ Reasons("Budget", i, s) = BudgetReasons(i, s)
       /\ Reasons("Velocity", i, s) = VelocityReasons(i, s)
  BY Zenon DEF Reasons
<1>11. QED
  BY <1>1, <1>2, <1>3, <1>4, <1>5, <1>6, <1>7, <1>8, <1>9, <1>10, Zenon

(* Merging what the replay module proposes when it allows repeats no nonce. *)
LEMMA MergeDistinct ==
  ASSUME NEW i, Readable(i), NEW s \in State, NEW ms,
         \A a \in Agents : Distinct(s.nonces[a]),
         "Replay" \in ms => ReplayReasons(i, s) = {}
  PROVE  \A a \in Agents : Distinct(MergeDeltas(i, s, ms).nonces[a])
<1> DEFINE r == MergeDeltas(i, s, ms)
<1> SUFFICES ASSUME NEW a \in Agents PROVE Distinct(r.nonces[a])
  OBVIOUS
<1>1. /\ i.agent_id \in Agents
      /\ Distinct(s.nonces[a])
  BY DEF Readable
<1>2. CASE a = i.agent_id /\ "Replay" \in ms
  <2>1. r.nonces[a] = ReplayDelta(i, s)
    BY <1>1, <1>2 DEF MergeDeltas, State
  <2>2. QED BY <1>1, <1>2, <2>1, ReplayDeltaDistinct
<1>3. CASE ~(a = i.agent_id /\ "Replay" \in ms)
  <2>1. r.nonces[a] = s.nonces[a]
    BY <1>3 DEF MergeDeltas, State
  <2>2. QED BY <1>1, <2>1
<1>4. QED BY <1>2, <1>3

(* Merging what the modules that allow propose keeps a state hashable.     *)
LEMMA MergeHashable ==
  ASSUME NEW i, Readable(i), NEW s \in State, Hashable(s), NEW ms,
         "Replay" \in ms => ReplayReasons(i, s) = {},
         "Concurrency" \in ms => ConcurrencyReasons(i, s) = {}
  PROVE  Hashable(MergeDeltas(i, s, ms))
<1> DEFINE r == MergeDeltas(i, s, ms)
<1>1. /\ i.agent_id \in Agents
      /\ i.type \in {"EXECUTE", "RELEASE"}
  BY DEF Readable
<1>2. ASSUME NEW a \in Agents
      PROVE  r.active[a] <= r.max_concurrent[a] /\ Distinct(r.nonces[a])
  <2>1. /\ s.active[a] \in Nat
        /\ s.max_concurrent[a] \in Nat
        /\ s.active[a] <= s.max_concurrent[a]
        /\ Distinct(s.nonces[a])
    BY DEF State, Hashable, Distinct
  <2>2. r.max_concurrent = s.max_concurrent
    BY DEF MergeDeltas
  <2>3. r.active[a] <= s.max_concurrent[a]
    <3>1. CASE a = i.agent_id /\ "Concurrency" \in ms
      <4>1. r.active[a] = ActiveDelta(i, s)
        BY <1>1, <3>1 DEF MergeDeltas, State
      <4>2. CASE i.type = "EXECUTE"
        <5>1. ~(s.active[a] >= s.max_concurrent[a])
          BY <3>1, <4>2 DEF ConcurrencyReasons
        <5>2. ActiveDelta(i, s) = s.active[a] + 1
          BY <3>1, <4>2 DEF ActiveDelta
        <5>3. QED BY <2>1, <4>1, <5>1, <5>2
      <4>3. CASE i.type = "RELEASE"
        <5>1. ActiveDelta(i, s) = IF s.active[a] > 0 THEN s.active[a] - 1 ELSE 0
          BY <3>1, <4>3 DEF ActiveDelta
        <5>2. QED BY <2>1, <4>1, <5>1
      <4>4. QED BY <1>1, <4>2, <4>3
    <3>2. CASE ~(a = i.agent_id /\ "Concurrency" \in ms)
      <4>1. r.active[a] = s.active[a]
        BY <3>2 DEF MergeDeltas, State
      <4>2. QED BY <2>1, <4>1
    <3>3. QED BY <3>1, <3>2
  <2>4. Distinct(r.nonces[a])
    <3>1. \A b \in Agents : Distinct(s.nonces[b])
      BY DEF Hashable, Distinct
    <3>2. QED BY <3>1, MergeDistinct
  <2>5. QED BY <2>2, <2>3, <2>4
<1>3. QED BY <1>2 DEF Hashable, Distinct

(* What an evaluation has merged can be hashed.                            *)
LEMMA WorkingHashable ==
  ASSUME TypeOK, Hashable(state), NEW entry \in Entries, NEW i \in Intents,
         EarlyReasons(i, state) = {}
  PROVE  Hashable(MergeDeltas(i, state, Merged(i, Denying(i, state), entry[2])))
<1> DEFINE ms == Merged(i, Denying(i, state), entry[2])
<1>1. /\ Readable(i)
      /\ state \in State
  BY IntentIsReadable DEF TypeOK
<1>2. "Replay" \in ms => Reasons("Replay", i, state) = {}
  BY MergedModulesAllow
<1>3. "Concurrency" \in ms => Reasons("Concurrency", i, state) = {}
  BY MergedModulesAllow
<1> HIDE DEF ms
<1>4. /\ Reasons("Replay", i, state) = ReplayReasons(i, state)
      /\ Reasons("Concurrency", i, state) = ConcurrencyReasons(i, state)
  BY Zenon DEF Reasons
<1>5. Hashable(MergeDeltas(i, state, ms))
  BY <1>1, <1>2, <1>3, <1>4, MergeHashable
<1>6. QED BY <1>5 DEF ms

(* Every step keeps the state hashable and returns no INTERNAL_ERROR.      *)
LEMMA HashableStep ==
  Inv /\ StateStaysHashable /\ [Next]_vars => StateStaysHashable'
<1> SUFFICES ASSUME Inv, StateStaysHashable, [Next]_vars PROVE StateStaysHashable'
  OBVIOUS
<1>1. /\ TypeOK
      /\ Hashable(state)
      /\ state \in State
  BY DEF Inv, TypeOK, StateStaysHashable
<1>2. ASSUME NEW entry \in Entries, NEW i \in Intents, RejectIntent(entry, i)
      PROVE  StateStaysHashable'
  <2>1. /\ state' = state
        /\ out'.reasons = EarlyReasons(i, state)
    BY <1>2 DEF RejectIntent, Deny
  <2>2. "INTERNAL_ERROR" \notin EarlyReasons(i, state)
    BY DEF EarlyReasons
  <2>3. QED BY <1>1, <2>1, <2>2 DEF StateStaysHashable
<1>3. ASSUME NEW entry \in Entries, NEW i \in Intents, DenyIntent(entry, i)
      PROVE  StateStaysHashable'
  <2> DEFINE working == MergeDeltas(i, state, Merged(i, Denying(i, state), entry[2]))
             reasons == DenyReasons(i, state, Denying(i, state), entry[2])
             decided == <<"INTENT_RECEIVED", "DECISION">>
  <2>1. /\ EarlyReasons(i, state) = {}
        /\ state' = working
    BY <1>3 DEF DenyIntent
  <2>2. Hashable(working)
    BY <1>1, <2>1, WorkingHashable
  <2>3. Deny(entry, reasons, Emitted(decided))
    BY <1>3, <2>2, Zenon DEF DenyIntent
  <2> HIDE DEF working, decided
  <2>4. out'.reasons = reasons
    BY <2>3 DEF Deny
  <2>5. "INTERNAL_ERROR" \notin reasons
    BY ModuleReasons DEF DenyReasons, Denying, Reached
  <2> HIDE DEF reasons
  <2>6. QED BY <2>1, <2>2, <2>4, <2>5 DEF StateStaysHashable
<1>4. ASSUME NEW entry \in Entries, NEW i \in Intents, FailIntent(entry, i)
      PROVE  StateStaysHashable'
  <2> DEFINE working == MergeDeltas(i, state, Merged(i, Denying(i, state), entry[2]))
  <2>1. /\ state' = working
        /\ ~(Hashable(working) /\ canSign)
        /\ canSign' = canSign
        /\ EarlyReasons(i, state) = {}
    BY <1>4 DEF FailIntent, Deny, EndCall
  <2>2. Hashable(working)
    BY <1>1, <2>1, WorkingHashable
  <2> HIDE DEF working
  <2>3. QED BY <2>1, <2>2 DEF StateStaysHashable
<1>5. ASSUME NEW entry \in Entries, NEW i \in Intents,
             AllowExecute(entry, i) \/ AllowRelease(entry, i)
      PROVE  StateStaysHashable'
  <2> DEFINE working == MergeDeltas(i, state, Merged(i, {}, entry[2]))
  <2>1. /\ Hashable(working)
        /\ state' = WithAuth(i, working)
        /\ out'.reasons = {}
    BY <1>5 DEF AllowExecute, AllowRelease, Allow
  <2>2. /\ WithAuth(i, working).active = working.active
        /\ WithAuth(i, working).max_concurrent = working.max_concurrent
        /\ WithAuth(i, working).nonces = working.nonces
    BY DEF WithAuth, MergeDeltas
  <2> HIDE DEF working
  <2>3. Hashable(state')
    BY <2>1, <2>2 DEF Hashable
  <2>4. QED BY <2>1, <2>3 DEF StateStaysHashable
<1>6. CASE Tick \/ SetKillSwitch
  <2>1. /\ state'.active = state.active
        /\ state'.max_concurrent = state.max_concurrent
        /\ state'.nonces = state.nonces
    BY <1>1, <1>6 DEF Tick, SetKillSwitch, State
  <2>2. out'.reasons = {}
    BY <1>6 DEF Tick, SetKillSwitch, NoOutput
  <2>3. QED BY <1>1, <2>1, <2>2 DEF StateStaysHashable, Hashable
<1>7. CASE UNCHANGED vars
  BY <1>7 DEF vars, StateStaysHashable, Hashable
<1>8. QED BY <1>2, <1>3, <1>4, <1>5, <1>6, <1>7 DEF Next, Evaluate

(* A state that starts hashable can be hashed and snapshotted after every  *)
(* call, whatever denials have left merged in it, in both modes: unless an *)
(* operator edits the state, an engine that can sign never takes the catch *)
(* of evaluatePure (PolicyEngine.ts:531; normalizeReplay and               *)
(* normalizeConcurrency of _codec.ts).                                     *)
THEOREM StateIsHashable == Spec => []StateStaysHashable
<1>1. Init => StateStaysHashable
  BY EngineAssumption DEF Init, InitState, StateStaysHashable, Hashable, NoOutput
<1>2. QED BY <1>1, InvHolds, HashableStep, PTL DEF Spec

-----------------------------------------------------------------------------
(***************************************************************************)
(* Slots                                                                   *)
(***************************************************************************)

(* The authorizations an agent was ever given.                             *)
Issued(a) == {e.auth : e \in Executed(a)}

(* What is inductive: the state lists only authorizations it has issued,   *)
(* so that a RELEASE that passes names an issued one.                      *)
SlotInv ==
  \A a \in Agents :
    /\ IsFiniteSet(Issued(a))
    /\ state.active_auths[a] \subseteq Issued(a)
    /\ a \notin rereleased => Cardinality(Outstanding(a)) <= state.active[a]

(* A denied RELEASE frees no slot in fail-fast mode: the concurrency       *)
(* module is the last of its pipeline.                                     *)
LEMMA DeniedReleaseFreesNothing ==
  ASSUME NEW i, i.type = "RELEASE", NEW s, Denying(i, s) # {}
  PROVE  "Concurrency" \notin Merged(i, Denying(i, s), "fail-fast")
<1>1. /\ DOMAIN Modules(i) = 1 .. 3
      /\ Modules(i)[1] = "KillSwitch"
      /\ Modules(i)[2] = "Replay"
  BY DEF Modules, ReleaseModules
<1>2. PICK d \in 1 .. 3 : d \in Denying(i, s)
  BY <1>1 DEF Denying
<1>3. ~(3 < d)
  BY <1>2
<1>4. ASSUME NEW k \in 1 .. 3, Modules(i)[k] = "Concurrency"
      PROVE  k = 3
  BY <1>1, <1>4
<1>5. QED BY <1>1, <1>2, <1>3, <1>4 DEF Merged

(* What a merge does to slots and to the list of authorizations.           *)
LEMMA MergeSlots ==
  ASSUME NEW i, Readable(i), NEW s \in State, NEW ms, NEW a \in Agents
  PROVE  LET r == MergeDeltas(i, s, ms)
         IN  /\ r.active_auths[a] = s.active_auths[a]
             /\ r.active[a] =
                  IF a = i.agent_id /\ "Concurrency" \in ms
                  THEN ActiveDelta(i, s) ELSE s.active[a]
<1> DEFINE r == MergeDeltas(i, s, ms)
<1>1. i.agent_id \in Agents
  BY DEF Readable
<1>2. r.active[a] = IF a = i.agent_id /\ "Concurrency" \in ms
                    THEN ActiveDelta(i, s) ELSE s.active[a]
  BY <1>1 DEF MergeDeltas, State
<1>3. s.active_auths[i.agent_id] \cup ActiveAuthsDelta(i, s) = s.active_auths[i.agent_id]
  BY DEF ActiveAuthsDelta
<1>4. r.active_auths[a] = s.active_auths[a]
  BY <1>1, <1>3 DEF MergeDeltas, State, MergeInto
<1>5. QED BY <1>2, <1>4

(* A step that allows nothing and frees no slot keeps the invariant.       *)
LEMMA SlotsKept ==
  ASSUME SlotInv, TypeOK, TypeOK',
         UNCHANGED <<accepted, released, rereleased>>,
         \A a \in Agents : /\ state'.active_auths[a] = state.active_auths[a]
                           /\ state'.active[a] >= state.active[a]
  PROVE  SlotInv'
<1> SUFFICES ASSUME NEW a \in Agents
             PROVE  /\ IsFiniteSet(Issued(a))'
                    /\ state'.active_auths[a] \subseteq Issued(a)'
                    /\ a \notin rereleased' => Cardinality(Outstanding(a))' <= state'.active[a]
  BY DEF SlotInv
<1>1. /\ Issued(a)' = Issued(a)
      /\ Outstanding(a)' = Outstanding(a)
  BY DEF Issued, Outstanding, Executed
<1>2. /\ IsFiniteSet(Issued(a))
      /\ state.active_auths[a] \subseteq Issued(a)
      /\ a \notin rereleased => Cardinality(Outstanding(a)) <= state.active[a]
  BY DEF SlotInv
<1>3. Outstanding(a) \subseteq Issued(a)
  BY DEF Outstanding, Issued
<1>4. Cardinality(Outstanding(a)) \in Nat
  BY <1>2, <1>3, FS_Subset, FS_CardinalityType
<1>5. state.active[a] \in Nat /\ state'.active[a] \in Nat
  BY DEF TypeOK, State
<1>6. QED BY <1>1, <1>2, <1>4, <1>5

(* An agent that is given an authorization takes a slot.                   *)
LEMMA AllowExecuteSlots ==
  ASSUME Inv, SlotInv, NEW entry \in Entries, NEW i \in Intents, AllowExecute(entry, i)
  PROVE  SlotInv'
<1> DEFINE a       == i.agent_id
           ms      == Merged(i, {}, entry[2])
           working == MergeDeltas(i, state, ms)
           auth    == NewAuth(i, working)
           acceptance == [ type |-> "EXECUTE", agent_id |-> a, auth |-> auth,
                           nonce |-> i.nonce, timestamp |-> i.timestamp,
                           request |-> i.request ]
<1>1. /\ i.type = "EXECUTE"
      /\ state' = WithAuth(i, working)
      /\ accepted' = accepted \cup {acceptance}
      /\ released' = released
      /\ rereleased' = rereleased
      /\ EarlyReasons(i, state) = {}
      /\ Denying(i, state) = {}
  BY DEF AllowExecute, Allow
<1>2. /\ Readable(i)
      /\ state \in State
      /\ working \in State
      /\ a \in Agents
  BY <1>1, WorkingState, IntentIsReadable DEF Inv, TypeOK, Readable
<1>3. "Concurrency" \in ms
  <2>1. 5 \in DOMAIN Modules(i) /\ Modules(i)[5] = "Concurrency"
    BY <1>1 DEF Modules, ExecuteModules
  <2>2. QED BY <2>1 DEF Merged
<1>4. ActiveDelta(i, state) = state.active[a] + 1
  BY <1>1 DEF ActiveDelta
<1> SUFFICES ASSUME NEW b \in Agents
             PROVE  /\ IsFiniteSet(Issued(b))'
                    /\ state'.active_auths[b] \subseteq Issued(b)'
                    /\ b \notin rereleased' => Cardinality(Outstanding(b))' <= state'.active[b]
  BY DEF SlotInv
<1>5. /\ IsFiniteSet(Issued(b))
      /\ state.active_auths[b] \subseteq Issued(b)
      /\ b \notin rereleased => Cardinality(Outstanding(b)) <= state.active[b]
      /\ state.active[b] \in Nat
  BY <1>2 DEF SlotInv, State
<1>6. /\ working.active_auths[b] = state.active_auths[b]
      /\ working.active[b] = IF b = a THEN state.active[a] + 1 ELSE state.active[b]
  BY <1>2, <1>3, <1>4, MergeSlots
<1>7. /\ state'.active = working.active
      /\ state'.active_auths =
           [working.active_auths EXCEPT ![a] = working.active_auths[a] \cup {auth}]
  BY <1>1, <1>2 DEF WithAuth, MergeInto, State
<1>8. Outstanding(b) \subseteq Issued(b)
  BY DEF Outstanding, Issued
<1>9. IsFiniteSet(Outstanding(b)) /\ Cardinality(Outstanding(b)) \in Nat
  BY <1>5, <1>8, FS_Subset, FS_CardinalityType
<1>10. /\ acceptance.auth = auth
       /\ acceptance.agent_id = a
       /\ acceptance.type = "EXECUTE"
  OBVIOUS
<1> HIDE DEF working, auth, acceptance, ms, a
<1>11. CASE b = a
  <2>1. Executed(b)' = Executed(b) \cup {acceptance}
    BY <1>1, <1>10, <1>11 DEF Executed
  <2>2. Issued(b)' = Issued(b) \cup {auth}
    BY <2>1, <1>10 DEF Issued
  <2>3. Outstanding(b)' \subseteq Outstanding(b) \cup {auth}
    BY <1>1, <2>2 DEF Outstanding, Issued
  <2>4. IsFiniteSet(Issued(b) \cup {auth})
    BY <1>5, FS_AddElement
  <2>5. /\ IsFiniteSet(Outstanding(b) \cup {auth})
        /\ Cardinality(Outstanding(b) \cup {auth}) <= Cardinality(Outstanding(b)) + 1
        /\ Cardinality(Outstanding(b) \cup {auth}) \in Nat
    <3>1. /\ IsFiniteSet(Outstanding(b) \cup {auth})
          /\ Cardinality(Outstanding(b) \cup {auth}) =
               IF auth \in Outstanding(b) THEN Cardinality(Outstanding(b))
               ELSE Cardinality(Outstanding(b)) + 1
      BY <1>9, FS_AddElement
    <3>2. QED BY <1>9, <3>1
  <2>6. /\ Cardinality(Outstanding(b)') <= Cardinality(Outstanding(b) \cup {auth})
        /\ Cardinality(Outstanding(b)') \in Nat
    BY <2>3, <2>5, FS_Subset, FS_CardinalityType
  <2>7. state'.active[b] = state.active[b] + 1
    BY <1>6, <1>7, <1>11
  <2>8. state'.active_auths[b] \subseteq Issued(b)'
    BY <1>2, <1>5, <1>6, <1>7, <1>11, <2>2 DEF State
  <2>9. b \notin rereleased' => Cardinality(Outstanding(b))' <= state'.active[b]
    BY <1>1, <1>5, <1>9, <2>5, <2>6, <2>7
  <2>10. QED BY <2>2, <2>4, <2>8, <2>9
<1>12. CASE b # a
  <2>1. Executed(b)' = Executed(b)
    BY <1>1, <1>10, <1>12 DEF Executed
  <2>2. Issued(b)' = Issued(b) /\ Outstanding(b)' = Outstanding(b)
    BY <1>1, <2>1 DEF Issued, Outstanding
  <2>3. /\ state'.active[b] = state.active[b]
        /\ state'.active_auths[b] = state.active_auths[b]
    BY <1>2, <1>6, <1>7, <1>12 DEF State
  <2>4. QED BY <1>1, <1>5, <2>2, <2>3
<1>13. QED BY <1>11, <1>12

(* An agent that gives an authorization back frees one slot, and holds one *)
(* authorization less unless it had given the same back before.            *)
LEMMA AllowReleaseSlots ==
  ASSUME Inv, SlotInv, NEW entry \in Entries, NEW i \in Intents, AllowRelease(entry, i)
  PROVE  SlotInv'
<1> DEFINE a       == i.agent_id
           ms      == Merged(i, {}, entry[2])
           working == MergeDeltas(i, state, ms)
           auth    == i.authorization_id
           acceptance == [ type |-> "RELEASE", agent_id |-> a, auth |-> auth,
                           nonce |-> i.nonce, timestamp |-> i.timestamp,
                           request |-> Undefined ]
<1>1. /\ i.type = "RELEASE"
      /\ state' = working
      /\ accepted' = accepted \cup {acceptance}
      /\ released' = released \cup {<<a, auth>>}
      /\ rereleased' = IF <<a, auth>> \in released
                       THEN rereleased \cup {a} ELSE rereleased
      /\ EarlyReasons(i, state) = {}
      /\ Denying(i, state) = {}
  BY DEF AllowRelease, Allow, WithAuth
<1>2. /\ Readable(i)
      /\ state \in State
      /\ a \in Agents
  BY <1>1, IntentIsReadable DEF Inv, TypeOK, Readable
<1>3. auth \in state.active_auths[a]
  BY <1>1, ReleaseIsListed
<1>4. "Concurrency" \in ms
  <2>1. 3 \in DOMAIN Modules(i) /\ Modules(i)[3] = "Concurrency"
    BY <1>1 DEF Modules, ReleaseModules
  <2>2. QED BY <2>1 DEF Merged
<1>5. ActiveDelta(i, state) = IF state.active[a] > 0 THEN state.active[a] - 1 ELSE 0
  BY <1>1 DEF ActiveDelta
<1> SUFFICES ASSUME NEW b \in Agents
             PROVE  /\ IsFiniteSet(Issued(b))'
                    /\ state'.active_auths[b] \subseteq Issued(b)'
                    /\ b \notin rereleased' => Cardinality(Outstanding(b))' <= state'.active[b]
  BY DEF SlotInv
<1>6. /\ IsFiniteSet(Issued(b))
      /\ state.active_auths[b] \subseteq Issued(b)
      /\ b \notin rereleased => Cardinality(Outstanding(b)) <= state.active[b]
      /\ state.active[b] \in Nat
  BY <1>2 DEF SlotInv, State
<1>7. /\ working.active_auths[b] = state.active_auths[b]
      /\ working.active[b] = IF b = a THEN ActiveDelta(i, state) ELSE state.active[b]
  BY <1>2, <1>4, MergeSlots
<1>8. Outstanding(b) \subseteq Issued(b)
  BY DEF Outstanding, Issued
<1>9. IsFiniteSet(Outstanding(b)) /\ Cardinality(Outstanding(b)) \in Nat
  BY <1>6, <1>8, FS_Subset, FS_CardinalityType
<1>10. acceptance.type # "EXECUTE"
  OBVIOUS
<1> HIDE DEF working, auth, acceptance, ms, a
<1>11. Executed(b)' = Executed(b)
  BY <1>1, <1>10 DEF Executed
<1>12. Issued(b)' = Issued(b)
  BY <1>11 DEF Issued
<1>13. CASE b = a
  <2>1. auth \in Issued(b)
    BY <1>3, <1>6, <1>13
  <2>2. Outstanding(b)' = Outstanding(b) \ {auth}
    BY <1>1, <1>11, <1>13 DEF Outstanding
  <2>3. /\ IsFiniteSet(Outstanding(b) \ {auth})
        /\ Cardinality(Outstanding(b) \ {auth}) =
             IF auth \in Outstanding(b) THEN Cardinality(Outstanding(b)) - 1
             ELSE Cardinality(Outstanding(b))
    BY <1>9, FS_RemoveElement
  <2>4. ASSUME b \notin rereleased'
        PROVE  Cardinality(Outstanding(b))' <= state'.active[b]
    <3>1. <<a, auth>> \notin released /\ b \notin rereleased
      BY <1>1, <1>13, <2>4
    <3>2. auth \in Outstanding(b)
      BY <1>13, <2>1, <3>1 DEF Outstanding, Issued
    <3>3. Cardinality(Outstanding(b))' = Cardinality(Outstanding(b)) - 1
      BY <2>2, <2>3, <3>2
    <3>4. Cardinality(Outstanding(b)) <= state.active[b]
      BY <1>6, <3>1
    <3>5. state'.active[b] = IF state.active[b] > 0 THEN state.active[b] - 1 ELSE 0
      BY <1>1, <1>5, <1>7, <1>13
    <3>6. Cardinality(Outstanding(b)) # 0
      BY <1>9, <3>2, FS_EmptySet
    <3>7. QED BY <1>6, <1>9, <3>3, <3>4, <3>5, <3>6
  <2>5. QED BY <1>1, <1>6, <1>7, <1>12, <2>4
<1>14. CASE b # a
  <2>1. Outstanding(b)' = Outstanding(b)
    BY <1>1, <1>11, <1>14 DEF Outstanding
  <2>2. QED BY <1>1, <1>6, <1>7, <1>12, <1>14, <2>1
<1>15. QED BY <1>13, <1>14

(* What an engine that cannot sign has issued: nothing.                    *)
NothingUnsigned == canSign \/ \A a \in Agents : state.active_auths[a] = {}

(* No step lists an authorization that the engine could not sign.          *)
LEMMA NothingUnsignedStep == Inv /\ NothingUnsigned /\ [Next]_vars => NothingUnsigned'
<1> SUFFICES ASSUME Inv, NothingUnsigned, [Next]_vars PROVE NothingUnsigned'
  OBVIOUS
<1>1. state \in State
  BY DEF Inv, TypeOK
<1>2. ASSUME NEW entry \in Entries, NEW i \in Intents,
             DenyIntent(entry, i) \/ FailIntent(entry, i)
      PROVE  NothingUnsigned'
  <2>1. /\ EarlyReasons(i, state) = {}
        /\ state' = MergeDeltas(i, state, Merged(i, Denying(i, state), entry[2]))
        /\ canSign' = canSign
    BY <1>2, Zenon DEF DenyIntent, FailIntent, Deny, EndCall
  <2>2. Readable(i)
    BY <2>1, IntentIsReadable DEF Inv
  <2>3. \A a \in Agents : state'.active_auths[a] = state.active_auths[a]
    BY <1>1, <2>1, <2>2, MergeSlots
  <2>4. QED BY <2>1, <2>3 DEF NothingUnsigned
<1>3. ASSUME NEW entry \in Entries, NEW i \in Intents,
             AllowExecute(entry, i) \/ AllowRelease(entry, i)
      PROVE  NothingUnsigned'
  <2>1. canSign /\ canSign' = canSign
    BY <1>3 DEF AllowExecute, AllowRelease, Allow, EndCall
  <2>2. QED BY <2>1 DEF NothingUnsigned
<1>4. ASSUME NEW entry \in Entries, NEW i \in Intents, RejectIntent(entry, i)
      PROVE  NothingUnsigned'
  BY <1>4 DEF RejectIntent, Deny, EndCall, NothingUnsigned
<1>5. CASE Tick \/ SetKillSwitch \/ UNCHANGED vars
  <2>1. state'.active_auths = state.active_auths /\ canSign' = canSign
    BY <1>1, <1>5 DEF Tick, SetKillSwitch, vars, State
  <2>2. QED BY <2>1 DEF NothingUnsigned
<1>6. QED BY <1>2, <1>3, <1>4, <1>5 DEF Next, Evaluate

(* It holds of every reachable state.                                      *)
LEMMA NothingUnsignedHolds == Spec => []NothingUnsigned
<1>1. Init => NothingUnsigned
  BY DEF Init, InitState, NothingUnsigned
<1>2. QED BY <1>1, InvHolds, NothingUnsignedStep, PTL DEF Spec

(* In fail-fast mode a denial frees no slot and strikes nothing off.       *)
LEMMA DenialKeepsSlots ==
  ASSUME Inv, StateStaysHashable, NothingUnsigned,
         NEW entry \in Entries, entry[2] = "fail-fast",
         NEW i \in Intents, DenyIntent(entry, i) \/ FailIntent(entry, i),
         NEW a \in Agents
  PROVE  /\ state'.active_auths[a] = state.active_auths[a]
         /\ state'.active[a] >= state.active[a]
<1> DEFINE ms == Merged(i, Denying(i, state), entry[2])
<1>1. /\ EarlyReasons(i, state) = {}
      /\ state' = MergeDeltas(i, state, ms)
  BY Zenon DEF DenyIntent, FailIntent
<1>2. /\ Readable(i)
      /\ TypeOK
      /\ state \in State
      /\ Hashable(state)
      /\ i.type \in {"EXECUTE", "RELEASE"}
  BY <1>1, IntentIsReadable DEF Inv, TypeOK, Readable, StateStaysHashable
<1>3. i.type = "RELEASE" => "Concurrency" \notin ms
  <2> SUFFICES ASSUME i.type = "RELEASE" PROVE "Concurrency" \notin ms
    OBVIOUS
  <2>1. CASE DenyIntent(entry, i)
    BY <2>1, DeniedReleaseFreesNothing DEF DenyIntent
  <2>2. CASE FailIntent(entry, i)
    <3>1. ~(Hashable(MergeDeltas(i, state, ms)) /\ canSign) /\ Denying(i, state) = {}
      BY <2>2 DEF FailIntent
    <3>2. Hashable(MergeDeltas(i, state, ms))
      BY <1>1, <1>2, WorkingHashable
    <3>3. i.authorization_id \in state.active_auths[i.agent_id]
      BY <3>1, ReleaseIsListed
    <3>4. i.agent_id \in Agents
      BY <1>2 DEF Readable
    <3> HIDE DEF ms
    <3>5. QED BY <3>1, <3>2, <3>3, <3>4 DEF NothingUnsigned
  <2>3. QED BY <2>1, <2>2
<1> HIDE DEF ms
<1>4. /\ state'.active_auths[a] = state.active_auths[a]
      /\ state'.active[a] = IF a = i.agent_id /\ "Concurrency" \in ms
                            THEN ActiveDelta(i, state) ELSE state.active[a]
  BY <1>1, <1>2, MergeSlots
<1>5. state.active[a] \in Nat
  BY <1>2 DEF State
<1>6. a = i.agent_id /\ i.type = "EXECUTE" => ActiveDelta(i, state) = state.active[a] + 1
  BY DEF ActiveDelta
<1>7. QED BY <1>2, <1>3, <1>4, <1>5, <1>6

(* Every step of callers who do not use collect-all keeps SlotInv.         *)
LEMMA SlotStep ==
  ASSUME <<"evaluatePure", "collect-all">> \notin Entries
  PROVE  Inv /\ StateStaysHashable /\ NothingUnsigned /\ SlotInv /\ [Next]_vars => SlotInv'
<1> SUFFICES ASSUME Inv, StateStaysHashable, NothingUnsigned, SlotInv, [Next]_vars
             PROVE  SlotInv'
  OBVIOUS
<1>1. /\ TypeOK
      /\ TypeOK'
      /\ state \in State
  BY NextInv DEF Inv, TypeOK
<1>2. \A entry \in Entries : entry[2] = "fail-fast"
  BY EngineAssumption DEF AllEntries
<1>3. ASSUME NEW entry \in Entries, NEW i \in Intents, Evaluate(entry, i)
      PROVE  SlotInv'
  <2>1. CASE RejectIntent(entry, i)
    <3>1. UNCHANGED <<state, accepted, released, rereleased>>
      BY <2>1 DEF RejectIntent, history
    <3>2. \A a \in Agents : state.active[a] \in Nat
      BY <1>1 DEF State
    <3>3. QED BY <1>1, <3>1, <3>2, SlotsKept
  <2>2. CASE DenyIntent(entry, i) \/ FailIntent(entry, i)
    <3>1. UNCHANGED <<accepted, released, rereleased>>
      BY <2>2, Zenon DEF DenyIntent, FailIntent
    <3>2. \A a \in Agents : /\ state'.active_auths[a] = state.active_auths[a]
                            /\ state'.active[a] >= state.active[a]
      BY <1>2, <2>2, DenialKeepsSlots
    <3>3. QED BY <1>1, <3>1, <3>2, SlotsKept
  <2>4. CASE AllowExecute(entry, i)
    BY <2>4, AllowExecuteSlots
  <2>5. CASE AllowRelease(entry, i)
    BY <2>5, AllowReleaseSlots
  <2>6. QED BY <1>3, <2>1, <2>2, <2>4, <2>5 DEF Evaluate
<1>4. CASE Tick \/ SetKillSwitch \/ UNCHANGED vars
  <2>1. /\ UNCHANGED <<accepted, released, rereleased>>
        /\ state'.active = state.active
        /\ state'.active_auths = state.active_auths
    BY <1>1, <1>4 DEF Tick, SetKillSwitch, history, vars, State
  <2>2. \A a \in Agents : state.active[a] \in Nat
    BY <1>1 DEF State
  <2>3. QED BY <1>1, <2>1, <2>2, SlotsKept
<1>5. QED BY <1>3, <1>4 DEF Next

(* With callers who evaluate in the default, fail-fast, mode an agent      *)
(* never holds more slots than max_concurrent allows, nor, as long as it   *)
(* releases nothing twice, more authorizations than slots: denials may     *)
(* waste slots but free none (ConcurrencyModule.ts, PolicyEngine.ts:492).  *)
(* A denied RELEASE does free one in collect-all mode.                     *)
THEOREM SlotsBounded ==
  ASSUME <<"evaluatePure", "collect-all">> \notin Entries
  PROVE  Spec => []SlotBound
<1>1. Init => SlotInv
  <2> SUFFICES ASSUME Init, NEW a \in Agents
               PROVE  /\ IsFiniteSet(Issued(a))
                      /\ state.active_auths[a] \subseteq Issued(a)
                      /\ a \notin rereleased => Cardinality(Outstanding(a)) <= state.active[a]
    BY DEF SlotInv
  <2>1. Issued(a) = {} /\ Outstanding(a) = {}
    BY DEF Init, Issued, Outstanding, Executed
  <2>2. state.active_auths[a] = {} /\ state.active[a] = 0
    BY DEF Init, InitState
  <2>3. QED BY <2>1, <2>2, FS_EmptySet
<1>2. Inv /\ StateStaysHashable /\ NothingUnsigned /\ SlotInv /\ [Next]_vars => SlotInv'
  BY SlotStep
<1>3. StateStaysHashable /\ SlotInv => SlotBound
  BY DEF StateStaysHashable, Hashable, SlotInv, SlotBound
<1>4. QED
  BY <1>1, <1>2, <1>3, InvHolds, StateIsHashable, NothingUnsignedHolds, PTL DEF Spec

(* In fail-fast mode only Velocity can deny what Budget has let through.   *)
LEMMA DeniedAfterBudget ==
  ASSUME NEW i, i.type = "EXECUTE", NEW s, Denying(i, s) # {},
         "Budget" \in Merged(i, Denying(i, s), "fail-fast")
  PROVE  DenyReasons(i, s, Denying(i, s), "fail-fast") = {"VELOCITY_EXCEEDED"}
<1>1. /\ DOMAIN Modules(i) = 1 .. 8
      /\ \A k \in 1 .. 8 : Modules(i)[k] = "Budget" => k = 7
      /\ Modules(i)[8] = "Velocity"
  BY DEF Modules, ExecuteModules
<1>2. \A d \in Denying(i, s) : 7 < d
  BY <1>1 DEF Merged
<1>3. Denying(i, s) = {8}
  BY <1>1, <1>2 DEF Denying
<1>4. Reasons(Modules(i)[8], i, s) = VelocityReasons(i, s)
  BY <1>1, Zenon DEF Reasons
<1>5. VelocityReasons(i, s) = {"VELOCITY_EXCEEDED"}
  <2>1. Reasons(Modules(i)[8], i, s) # {}
    BY <1>3 DEF Denying
  <2>2. QED BY <1>4, <2>1 DEF VelocityReasons
<1>6. Reached(Denying(i, s), "fail-fast") = {8}
  BY <1>3 DEF Reached
<1>7. DenyReasons(i, s, Denying(i, s), "fail-fast") = Reasons(Modules(i)[8], i, s)
  BY <1>6 DEF DenyReasons
<1>8. QED BY <1>4, <1>5, <1>7

(* A denial in the default mode, although it leaves the deltas of the      *)
(* modules before the denying one in the caller's state, frees no slot,    *)
(* strikes no authorization off and lowers what an agent has spent only by *)
(* a negative amount, when the velocity module or signing refuses what the *)
(* budget module has charged (VelocityModule.ts, PolicyEngine.ts:461-464). *)
THEOREM DenialsLoosenNothing ==
  ASSUME <<"evaluatePure", "collect-all">> \notin Entries
  PROVE  Spec => DenyNeverLoosens
<1> DEFINE Tight(a) ==
             /\ \/ state'.spent_in_period[a] >= state.spent_in_period[a]
                \/ \E r \in Requests :
                     /\ r.amount < 0
                     /\ out'.reasons \in {{"VELOCITY_EXCEEDED"}, {"INTERNAL_ERROR"}}
                     /\ state'.spent_in_period[a] = state.spent_in_period[a] + r.amount
             /\ state'.active[a] >= state.active[a]
             /\ state'.active_auths[a] = state.active_auths[a]
<1>1. ASSUME Inv, StateStaysHashable, NothingUnsigned, Next, out'.decision = "DENY",
             NEW a \in Agents
      PROVE  Tight(a)
  <2>1. /\ TypeOK
        /\ BudgetBound
        /\ state \in State
    BY <1>1 DEF Inv, TypeOK
  <2>2. PICK entry \in Entries, i \in Intents :
          RejectIntent(entry, i) \/ DenyIntent(entry, i) \/ FailIntent(entry, i)
    <3>1. ~Tick /\ ~SetKillSwitch
      BY <1>1 DEF Tick, SetKillSwitch, NoOutput
    <3>2. ASSUME NEW entry \in Entries, NEW i \in Intents,
                 AllowExecute(entry, i) \/ AllowRelease(entry, i)
          PROVE  FALSE
      BY <1>1, <3>2 DEF AllowExecute, AllowRelease, Allow
    <3>3. QED BY <1>1, <3>1, <3>2 DEF Next, Evaluate
  <2>3. state.spent_in_period[a] \in Int /\ state.active[a] \in Nat
    BY <2>1 DEF State
  <2>4. CASE RejectIntent(entry, i)
    BY <2>3, <2>4 DEF RejectIntent
  <2>5. CASE DenyIntent(entry, i) \/ FailIntent(entry, i)
    <3> DEFINE ms == Merged(i, Denying(i, state), entry[2])
    <3>1. /\ EarlyReasons(i, state) = {}
          /\ state' = MergeDeltas(i, state, ms)
      BY <2>5, Zenon DEF DenyIntent, FailIntent
    <3>2. entry[2] = "fail-fast"
      BY EngineAssumption DEF AllEntries
    <3>3. /\ state'.active[a] >= state.active[a]
          /\ state'.active_auths[a] = state.active_auths[a]
      BY <1>1, <2>5, <3>2, DenialKeepsSlots
    <3>4. Charged(i, entry, a, state'.spent_in_period[a]) /\ Readable(i)
      BY <2>1, <3>1, WorkingState
    <3>5. CASE a = i.agent_id /\ "Budget" \in ms /\ i.request.amount < 0
      <4>1. /\ i.type = "EXECUTE"
            /\ i.request \in Requests
            /\ state'.spent_in_period[a] = state.spent_in_period[a] + i.request.amount
        BY <3>4, <3>5 DEF Charged, Readable
      <4>2. out'.reasons \in {{"VELOCITY_EXCEEDED"}, {"INTERNAL_ERROR"}}
        <5>1. CASE FailIntent(entry, i)
          BY <5>1 DEF FailIntent, Deny
        <5>2. CASE DenyIntent(entry, i)
          <6>1. DenyReasons(i, state, Denying(i, state), entry[2]) = {"VELOCITY_EXCEEDED"}
            <7>1. Denying(i, state) # {}
              BY <5>2 DEF DenyIntent
            <7>2. QED BY <3>2, <3>5, <4>1, <7>1, DeniedAfterBudget
          <6>2. \/ out'.reasons = {"INTERNAL_ERROR"}
                \/ out'.reasons = DenyReasons(i, state, Denying(i, state), entry[2])
            <7>1. \E reasons, events :
                    /\ Deny(entry, reasons, events)
                    /\ \/ reasons = {"INTERNAL_ERROR"}
                       \/ reasons = DenyReasons(i, state, Denying(i, state), entry[2])
              BY <5>2, Zenon DEF DenyIntent
            <7>2. QED BY <7>1 DEF Deny
          <6>3. QED BY <6>1, <6>2
        <5>3. QED BY <2>5, <5>1, <5>2
      <4>3. QED BY <3>3, <3>5, <4>1, <4>2
    <3>6. CASE ~(a = i.agent_id /\ "Budget" \in ms /\ i.request.amount < 0)
      <4>1. state'.spent_in_period[a] >= state.spent_in_period[a]
        BY <3>4, <3>6 DEF Charged
      <4>2. QED BY <3>3, <4>1
    <3>7. QED BY <3>5, <3>6
  <2>6. QED BY <2>2, <2>4, <2>5
<1>2. Inv /\ StateStaysHashable /\ NothingUnsigned /\ [Next]_vars =>
        [ out'.decision = "DENY" =>
            \A a \in Agents :
              /\ \/ state'.spent_in_period[a] >= state.spent_in_period[a]
                 \/ \E r \in Requests :
                      /\ r.amount < 0 /\ out'.reasons \in {{"VELOCITY_EXCEEDED"}, {"INTERNAL_ERROR"}}
                      /\ state'.spent_in_period[a] = state.spent_in_period[a] + r.amount
              /\ state'.active[a] >= state.active[a]
              /\ state'.active_auths[a] = state.active_auths[a] ]_vars
  <2> SUFFICES ASSUME Inv, StateStaysHashable, NothingUnsigned, Next,
                      out'.decision = "DENY", NEW a \in Agents
               PROVE  Tight(a)
    OBVIOUS
  <2> HIDE DEF Tight
  <2>1. QED BY <1>1
<1>3. QED
  BY <1>2, InvHolds, StateIsHashable, NothingUnsignedHolds, PTL DEF Spec, DenyNeverLoosens

-----------------------------------------------------------------------------
(***************************************************************************)
(* With an operator who edits limits and the policy version of a live      *)
(* state and replaces engines: what INTERNAL_ERROR means, and what is still allowed while a     *)
(* limit is below its counter.                                             *)
(***************************************************************************)

NoncesDistinct == \A a \in Agents : Distinct(state.nonces[a])

(* What is inductive: edits leave the types, the budgets and the replay    *)
(* lists alone, so that only a counter over its limit can stop the hash.   *)
AdminInv == Inv /\ NoncesDistinct /\ InternalErrorExplained

(* A state whose lists repeat nothing is hashable but for the limits.      *)
LEMMA OnlyLimitsThrow ==
  ASSUME NEW s \in State, \A a \in Agents : Distinct(s.nonces[a]), ~Hashable(s)
  PROVE  \E a \in Agents : s.active[a] > s.max_concurrent[a]
<1>1. PICK a \in Agents :
        ~ /\ s.active[a] <= s.max_concurrent[a]
          /\ Distinct(s.nonces[a])
  BY DEF Hashable, Distinct
<1>2. s.active[a] \in Nat /\ s.max_concurrent[a] \in Nat
  BY DEF State
<1>3. QED BY <1>1, <1>2

(* What a call merges repeats no nonce, whether the call is denied or not. *)
LEMMA WorkingDistinct ==
  ASSUME TypeOK, NoncesDistinct, NEW entry \in Entries, NEW i \in Intents,
         EarlyReasons(i, state) = {}
  PROVE  \A a \in Agents :
           Distinct(MergeDeltas(i, state,
                      Merged(i, Denying(i, state), entry[2])).nonces[a])
<1> DEFINE ms == Merged(i, Denying(i, state), entry[2])
<1>1. /\ Readable(i)
      /\ state \in State
  BY IntentIsReadable DEF TypeOK
<1>2. "Replay" \in ms => Reasons("Replay", i, state) = {}
  BY MergedModulesAllow
<1> HIDE DEF ms
<1>3. Reasons("Replay", i, state) = ReplayReasons(i, state)
  BY Zenon DEF Reasons
<1>4. \A a \in Agents : Distinct(MergeDeltas(i, state, ms).nonces[a])
  BY <1>1, <1>2, <1>3, MergeDistinct DEF NoncesDistinct
<1>5. QED BY <1>4 DEF ms

-----------------------------------------------------------------------------
(* The edits of the operator keep the types and the budgets.               *)
LEMMA EditInv ==
  ASSUME Inv, SetMaxConcurrent \/ SetPolicyVersion
  PROVE  /\ Inv'
         /\ state'.nonces = state.nonces
         /\ out' = NoOutput
<1>1. /\ state \in State
      /\ UNCHANGED <<currentState, auditCount, clock, canSign, history>>
      /\ out' = NoOutput
  BY DEF Inv, TypeOK, SetMaxConcurrent, SetPolicyVersion
<1>2. /\ state' \in State
      /\ state'.nonces = state.nonces
      /\ state'.spent_in_period = state.spent_in_period
  <2>1. CASE SetMaxConcurrent
    <3>1. PICK a \in Agents, n \in LimitValues :
            state' = [state EXCEPT !.max_concurrent[a] = n]
      BY <2>1 DEF SetMaxConcurrent
    <3>2. n \in Nat
      BY <3>1, LimitValuesAssumption
    <3>3. QED BY <1>1, <3>1, <3>2 DEF State
  <2>2. CASE SetPolicyVersion
    BY <1>1, <2>2 DEF SetPolicyVersion, State
  <2>3. QED BY <2>1, <2>2
<1>3. TypeOK'
  BY <1>1, <1>2 DEF Inv, TypeOK, NoOutput, history
<1>4. BudgetBound'
  BY <1>1, <1>2 DEF Inv, BudgetBound, history
<1>5. QED BY <1>1, <1>2, <1>3, <1>4 DEF Inv

(* A call whose reason is INTERNAL_ERROR leaves a counter over its limit   *)
(* or could not be signed, and no call repeats a nonce.                    *)
LEMMA CallStep ==
  ASSUME AdminInv, NEW entry \in Entries, NEW i \in Intents, Evaluate(entry, i)
  PROVE  NoncesDistinct' /\ InternalErrorExplained'
<1> DEFINE working == MergeDeltas(i, state, Merged(i, Denying(i, state), entry[2]))
<1>1. TypeOK /\ BudgetBound /\ NoncesDistinct
  BY DEF AdminInv, Inv
<1>2. CASE RejectIntent(entry, i)
  <2>1. /\ state' = state
        /\ out'.reasons = EarlyReasons(i, state)
    BY <1>2 DEF RejectIntent, Deny
  <2>2. EarlyReasons(i, state) # {"INTERNAL_ERROR"}
    BY DEF EarlyReasons
  <2>3. QED BY <1>1, <2>1, <2>2 DEF NoncesDistinct, InternalErrorExplained
<1>3. ASSUME EarlyReasons(i, state) = {}
      PROVE  \A a \in Agents : Distinct(working.nonces[a])
  BY <1>1, <1>3, WorkingDistinct
<1>4. ASSUME state' = working, EarlyReasons(i, state) = {}, ~Hashable(working)
      PROVE  NoncesDistinct' /\ InternalErrorExplained'
  <2>1. working \in State
    BY <1>1, <1>4, WorkingState
  <2>2. \A a \in Agents : Distinct(working.nonces[a])
    BY <1>3, <1>4
  <2> HIDE DEF working
  <2>3. PICK a \in Agents : working.active[a] > working.max_concurrent[a]
    BY <1>4, <2>1, <2>2, OnlyLimitsThrow
  <2>4. OverLimit' # {}
    BY <1>4, <2>3 DEF OverLimit
  <2>5. QED BY <1>4, <2>2, <2>4 DEF NoncesDistinct, InternalErrorExplained
<1>5. CASE DenyIntent(entry, i)
  <2> DEFINE reasons == DenyReasons(i, state, Denying(i, state), entry[2])
             decided == <<"INTENT_RECEIVED", "DECISION">>
  <2>1. /\ EarlyReasons(i, state) = {}
        /\ state' = working
    BY <1>5 DEF DenyIntent
  <2>2. "INTERNAL_ERROR" \notin reasons
    BY ModuleReasons DEF DenyReasons, Denying, Reached
  <2>3. ~Hashable(working) \/ Deny(entry, reasons, Emitted(decided))
    BY <1>5, Zenon DEF DenyIntent
  <2>4. \A a \in Agents : Distinct(working.nonces[a])
    BY <1>3, <2>1
  <2> HIDE DEF reasons, decided, working
  <2>5. CASE ~Hashable(working)
    BY <1>4, <2>1, <2>5
  <2>6. CASE Deny(entry, reasons, Emitted(decided))
    <3>1. out'.reasons = reasons
      BY <2>6 DEF Deny
    <3>2. QED
      BY <2>1, <2>2, <2>4, <3>1 DEF NoncesDistinct, InternalErrorExplained
  <2>7. QED BY <2>3, <2>5, <2>6
<1>6. CASE FailIntent(entry, i)
  <2>1. /\ EarlyReasons(i, state) = {}
        /\ state' = working
        /\ ~(Hashable(working) /\ canSign)
        /\ canSign' = canSign
    BY <1>6 DEF FailIntent, Deny, EndCall
  <2>2. \A a \in Agents : Distinct(working.nonces[a])
    BY <1>3, <2>1
  <2> HIDE DEF working
  <2>3. QED BY <1>4, <2>1, <2>2 DEF NoncesDistinct, InternalErrorExplained
<1>7. CASE AllowExecute(entry, i) \/ AllowRelease(entry, i)
  <2> DEFINE merged == MergeDeltas(i, state, Merged(i, {}, entry[2]))
  <2>a. /\ EarlyReasons(i, state) = {}
        /\ Denying(i, state) = {}
        /\ state' = WithAuth(i, merged)
        /\ \E acceptance : Allow(entry, acceptance)
    <3>1. CASE AllowExecute(entry, i)
      BY <3>1, Zenon DEF AllowExecute
    <3>2. CASE AllowRelease(entry, i)
      BY <3>2, Zenon DEF AllowRelease
    <3>3. QED BY <1>7, <3>1, <3>2
  <2>b. out'.reasons = {}
    BY <2>a DEF Allow
  <2>1. /\ EarlyReasons(i, state) = {}
        /\ state' = WithAuth(i, working)
        /\ out'.reasons = {}
    BY <2>a, <2>b, Zenon
  <2>2. WithAuth(i, working).nonces = working.nonces
    BY DEF WithAuth, MergeDeltas
  <2>3. \A a \in Agents : Distinct(working.nonces[a])
    BY <1>3, <2>1
  <2> HIDE DEF working
  <2>4. QED BY <2>1, <2>2, <2>3 DEF NoncesDistinct, InternalErrorExplained
<1>8. QED BY <1>2, <1>5, <1>6, <1>7 DEF Evaluate

(* Every step of the engine, the environment or the operator keeps         *)
(* AdminInv.                                                               *)
LEMMA AdminStep == AdminInv /\ [AdminNext]_vars => AdminInv'
<1> SUFFICES ASSUME AdminInv, [AdminNext]_vars PROVE AdminInv'
  OBVIOUS
<1>1. /\ Inv
      /\ NoncesDistinct
      /\ InternalErrorExplained
      /\ state \in State
  BY DEF AdminInv, Inv, TypeOK
<1>2. CASE UNCHANGED vars
  <2>1. Inv'
    BY <1>1, <1>2, NextInv
  <2>2. QED
    BY <1>1, <1>2, <2>1
       DEF vars, AdminInv, NoncesDistinct, InternalErrorExplained, OverLimit
<1>3. ASSUME NEW entry \in Entries, NEW i \in Intents, Evaluate(entry, i)
      PROVE  AdminInv'
  <2>1. Inv'
    BY <1>1, <1>3, NextInv DEF Next
  <2>2. QED BY <1>3, <2>1, CallStep DEF AdminInv
<1>4. CASE Tick \/ SetKillSwitch
  <2>1. Inv'
    BY <1>1, <1>4, NextInv DEF Next
  <2>2. /\ state'.nonces = state.nonces
        /\ out' = NoOutput
    BY <1>1, <1>4 DEF Tick, SetKillSwitch, State
  <2>3. QED
    BY <1>1, <2>1, <2>2
       DEF AdminInv, NoncesDistinct, InternalErrorExplained, NoOutput
<1>5. CASE SetMaxConcurrent \/ SetPolicyVersion
  <2>1. /\ Inv'
        /\ state'.nonces = state.nonces
        /\ out' = NoOutput
    BY <1>1, <1>5, EditInv
  <2>2. QED
    BY <1>1, <2>1
       DEF AdminInv, NoncesDistinct, InternalErrorExplained, NoOutput
<1>6. CASE ReplaceEngine
  <2>1. UNCHANGED <<state, clock, history>> /\ out' = NoOutput
    BY <1>6 DEF ReplaceEngine
  <2>2. Inv'
    BY <1>1, <1>6, <2>1
       DEF ReplaceEngine, Inv, TypeOK, BudgetBound, NoOutput, history
  <2>3. QED
    BY <1>1, <2>1, <2>2
       DEF AdminInv, NoncesDistinct, InternalErrorExplained, NoOutput
<1>7. QED BY <1>2, <1>3, <1>4, <1>5, <1>6 DEF AdminNext, Next

(* Whatever the operator sets, the invariant holds of every state.         *)
LEMMA AdminInvHolds == AdminSpec => []AdminInv
<1>1. Init => AdminInv
  <2>1. Init => NoncesDistinct /\ InternalErrorExplained
    BY DEF Init, InitState, NoOutput, NoncesDistinct, Distinct, InternalErrorExplained
  <2>2. QED BY <2>1, InitInv DEF AdminInv
<1>2. QED BY <1>1, AdminStep, PTL DEF AdminSpec

-----------------------------------------------------------------------------
(* When evaluatePure answers INTERNAL_ERROR, the engine has no key to sign *)
(* with or some agent holds more slots than its limit: the catch           *)
(* (PolicyEngine.ts:531) has no third cause, whatever the operator sets    *)
(* max_concurrent and policy_version to, whichever engines are put to work *)
(* and whatever denials have left merged (normalizeConcurrency, _codec.ts, *)
(* PolicyEngine.ts:461-464).                                               *)
THEOREM InternalErrorHasTwoCauses == AdminSpec => []InternalErrorExplained
<1>1. AdminInv => InternalErrorExplained
  BY DEF AdminInv
<1>2. QED BY <1>1, AdminInvHolds, PTL

(* An allowed call has hashed the counters of every agent but its own as   *)
(* they were, and its own concurrency module has let it pass.              *)
LEMMA AllowedWhileOverLimit ==
  ASSUME TypeOK, OverLimit # {}, NEW entry \in Entries, NEW i \in Intents,
         AllowExecute(entry, i) \/ AllowRelease(entry, i)
  PROVE  /\ out'.accepts.type = "RELEASE"
         /\ OverLimit = {out'.accepts.agent_id}
<1> DEFINE a       == i.agent_id
           working == MergeDeltas(i, state, Merged(i, {}, entry[2]))
<1>1. /\ EarlyReasons(i, state) = {}
      /\ Denying(i, state) = {}
      /\ Hashable(working)
      /\ out'.accepts.agent_id = a
      /\ out'.accepts.type = i.type
      /\ i.type \in {"EXECUTE", "RELEASE"}
  BY DEF AllowExecute, AllowRelease, Allow
<1>2. /\ Readable(i)
      /\ state \in State
      /\ a \in Agents
  BY <1>1, IntentIsReadable DEF TypeOK, Readable
<1>3. ASSUME NEW b \in Agents, b # a
      PROVE  b \notin OverLimit
  <2>1. working.active[b] = state.active[b]
    BY <1>2, <1>3, MergeSlots
  <2>2. working.max_concurrent = state.max_concurrent
    BY DEF MergeDeltas
  <2>3. working.active[b] <= working.max_concurrent[b]
    BY <1>1 DEF Hashable
  <2>4. /\ state.active[b] \in Nat
        /\ state.max_concurrent[b] \in Nat
    BY <1>2 DEF State
  <2> HIDE DEF working
  <2>5. QED BY <2>1, <2>2, <2>3, <2>4 DEF OverLimit
<1>4. OverLimit = {a}
  BY <1>2, <1>3 DEF OverLimit
<1>5. i.type # "EXECUTE"
  <2> SUFFICES ASSUME i.type = "EXECUTE" PROVE FALSE
    OBVIOUS
  <2>1. ConcurrencyReasons(i, state) = {}
    <3>1. 5 \in DOMAIN Modules(i) /\ Modules(i)[5] = "Concurrency"
      BY DEF Modules, ExecuteModules
    <3>2. Reasons("Concurrency", i, state) = {}
      BY <1>1, <3>1 DEF Denying
    <3>3. QED BY <3>2, Zenon DEF Reasons
  <2>2. ~(state.active[a] >= state.max_concurrent[a])
    BY <2>1 DEF ConcurrencyReasons
  <2>3. state.active[a] > state.max_concurrent[a]
    BY <1>4 DEF OverLimit
  <2>4. /\ state.active[a] \in Nat
        /\ state.max_concurrent[a] \in Nat
    BY <1>2 DEF State
  <2>5. QED BY <2>2, <2>3, <2>4
<1>6. QED BY <1>1, <1>4, <1>5

(* While any agent is over its limit, only a RELEASE of that agent, when   *)
(* it is the only one over its limit, is still allowed: lowering one       *)
(* agent's max_concurrent under its counter stops the EXECUTEs of all      *)
(* (computeStateHashFor hashes the whole state, PolicyEngine.ts:463).      *)
THEOREM LoweredLimitStopsEveryAgent == AdminSpec => OverLimitStopsEveryAgent
<1> DEFINE Stops == OverLimit # {} =>
                      (out'.decision = "ALLOW" =>
                         /\ out'.accepts.type = "RELEASE"
                         /\ OverLimit = {out'.accepts.agent_id})
<1>1. ASSUME TypeOK, [AdminNext]_vars
      PROVE  [Stops]_vars
  <2>1. CASE UNCHANGED vars
    BY <2>1
  <2>2. ASSUME NEW entry \in Entries, NEW i \in Intents, Evaluate(entry, i)
        PROVE  Stops
    <3>1. CASE RejectIntent(entry, i) \/ DenyIntent(entry, i) \/ FailIntent(entry, i)
      <4>1. ASSUME NEW reasons, NEW events, Deny(entry, reasons, events)
            PROVE  out'.decision = "DENY"
        BY <4>1 DEF Deny
      <4>2. out'.decision = "DENY"
        BY <3>1, <4>1, Zenon DEF RejectIntent, DenyIntent, FailIntent
      <4>3. QED BY <4>2
    <3>2. CASE AllowExecute(entry, i) \/ AllowRelease(entry, i)
      BY <1>1, <3>2, AllowedWhileOverLimit
    <3>3. QED BY <2>2, <3>1, <3>2 DEF Evaluate
  <2>3. CASE Tick \/ SetKillSwitch \/ SetMaxConcurrent \/ SetPolicyVersion \/ ReplaceEngine
    BY <2>3 DEF Tick, SetKillSwitch, SetMaxConcurrent, SetPolicyVersion, ReplaceEngine,
                NoOutput
  <2> HIDE DEF Stops
  <2>4. QED BY <1>1, <2>1, <2>2, <2>3 DEF AdminNext, Next
<1>2. AdminInv => TypeOK
  BY DEF AdminInv, Inv
<1>3. QED BY <1>1, <1>2, AdminInvHolds, PTL DEF AdminSpec, OverLimitStopsEveryAgent
=============================================================================
