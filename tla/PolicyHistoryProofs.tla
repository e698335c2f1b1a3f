------------------------- MODULE PolicyHistoryProofs -------------------------
(***************************************************************************)
(* What PolicyEngine.tla promises about a decision and those before it:    *)
(* nonces are not replayed, the velocity counter has counted every EXECUTE *)
(* of the open window, no authorization is issued twice, tool calls stay   *)
(* within their limits in every window, and bursts below twice theirs.     *)
(* All of it holds in both modes, whatever denials have left merged in the *)
(* state.                                                                  *)
(***************************************************************************)
EXTENDS PolicyEngineProofs, FunctionTheorems

-----------------------------------------------------------------------------
(***************************************************************************)
(* Replay                                                                  *)
(***************************************************************************)

(* What becomes of an accepted nonce: it is on the list, the cap has       *)
(* dropped it, or it is older than the window.                             *)
EntryOf(e) == [nonce |-> e.nonce, ts |-> e.timestamp]

Known(e) ==
  \/ <<e.agent_id, EntryOf(e)>> \in evicted
  \/ Lists(state.nonces[e.agent_id], EntryOf(e))
  \/ e.timestamp + ReplayWindow < clock

Remembered == \A e \in accepted : Known(e)

(* A merge forgets no nonce but those older than the window; when it has   *)
(* the replay module's delta, it enters the intent's.                      *)
LEMMA MergeRemembers ==
  ASSUME TypeOK, NEW i \in Intents, Readable(i), NEW ms,
         state'.nonces = MergeDeltas(i, state, ms).nonces,
         RecordEvictions(i, ms), clock' = clock, NEW e \in Acceptance,
         \/ Known(e)
         \/ /\ "Replay" \in ms
            /\ e.agent_id = i.agent_id
            /\ EntryOf(e) = [nonce |-> i.nonce, ts |-> i.timestamp]
  PROVE  Known(e)'
<1> DEFINE a == i.agent_id
           x == EntryOf(e)
           all == NoncesWith(i, state)
           kept == ReplayDelta(i, state)
<1>1. /\ a \in Agents
      /\ e.agent_id \in Agents
      /\ state \in State
      /\ state.nonces \in [Agents -> Seq(NonceEntry)]
      /\ i.timestamp \in Nat
      /\ e.timestamp \in Nat
      /\ x.ts = e.timestamp
      /\ ReplayWindow \in Nat
      /\ clock \in Nat
      /\ i.timestamp <= clock
  <2>1. i.timestamp \in Instants
    BY DEF Intents, ExecuteIntents, ReleaseIntents
  <2>2. /\ clock \in Nat
        /\ i.timestamp <= clock
    BY <2>1, EngineAssumption DEF Instants, TypeOK
  <2>3. state \in State /\ state.nonces \in [Agents -> Seq(NonceEntry)]
    BY DEF TypeOK, State
  <2>4. QED BY <2>2, <2>3, LimitsAssumption DEF Readable, Acceptance, EntryOf
<1>2. Known(e)' <=> \/ <<e.agent_id, x>> \in evicted'
                    \/ Lists(state'.nonces[e.agent_id], x)
                    \/ e.timestamp + ReplayWindow < clock
  BY DEF Known
<1>3. CASE ~("Replay" \in ms /\ e.agent_id = a)
  <2>1. state'.nonces[e.agent_id] = state.nonces[e.agent_id]
    BY <1>1, <1>3 DEF MergeDeltas
  <2>2. <<e.agent_id, x>> \in evicted => <<e.agent_id, x>> \in evicted'
    BY <1>3 DEF RecordEvictions
  <2>3. QED BY <1>2, <1>3, <2>1, <2>2 DEF Known
<1>4. CASE "Replay" \in ms /\ e.agent_id = a
  <2>1. state'.nonces[a] = kept
    BY <1>1, <1>4 DEF MergeDeltas
  <2>2. evicted' = (evicted \cup {<<a, all[k]>> : k \in DOMAIN all})
                     \ {<<a, kept[k]>> : k \in DOMAIN kept}
    BY <1>4 DEF RecordEvictions
  <2>3. /\ RecentNonces(i, state) \in Seq(NonceEntry)
        /\ [nonce |-> i.nonce, ts |-> i.timestamp] \in NonceEntry
    BY <1>1, PruneType DEF RecentNonces, Readable, NonceEntry
  <2>4. /\ Lists(all, [nonce |-> i.nonce, ts |-> i.timestamp])
        /\ \A y : Lists(RecentNonces(i, state), y) => Lists(all, y)
    BY <2>3, AppendLists DEF NoncesWith
  <2>5. \/ <<a, x>> \in evicted
        \/ Lists(all, x)
        \/ e.timestamp + ReplayWindow < clock
    <3>1. CASE Lists(state.nonces[a], x)
      <4>1. PICK j \in DOMAIN state.nonces[a] : state.nonces[a][j] = x
        BY <3>1 DEF Lists
      <4>2. state.nonces[a] \in Seq(NonceEntry)
        BY <1>1
      <4>3. j \in 1 .. Len(state.nonces[a])
        BY <4>1, <4>2
      <4>4. CASE x.ts >= i.timestamp - ReplayWindow
        <5>1. Lists(RecentNonces(i, state), x)
          BY <4>1, <4>2, <4>3, <4>4, PruneKeeps DEF RecentNonces
        <5>2. QED BY <2>4, <5>1
      <4>5. CASE ~(x.ts >= i.timestamp - ReplayWindow)
        BY <1>1, <4>5
      <4>6. QED BY <4>4, <4>5
    <3>2. QED BY <1>4, <2>4, <3>1 DEF Known
  <2> HIDE DEF x, all, kept
  <2>6. CASE <<a, x>> \in evicted \/ Lists(all, x)
    <3>1. <<a, x>> \in evicted \cup {<<a, all[k]>> : k \in DOMAIN all}
      BY <2>6 DEF Lists
    <3>2. CASE <<a, x>> \in {<<a, kept[k]>> : k \in DOMAIN kept}
      BY <1>2, <1>4, <2>1, <3>2 DEF Lists
    <3>3. QED BY <1>2, <1>4, <2>2, <3>1, <3>2
  <2>7. QED BY <1>2, <2>5, <2>6
<1>5. QED BY <1>3, <1>4

(* Only two actions allow an intent.                                       *)
LEMMA WhatAllows ==
  ASSUME Next, out'.decision = "ALLOW"
  PROVE  \E entry \in Entries : \E i \in Intents :
           AllowExecute(entry, i) \/ AllowRelease(entry, i)
<1>1. ~Tick /\ ~SetKillSwitch
  BY DEF Tick, SetKillSwitch, NoOutput
<1>2. ASSUME NEW entry, NEW reasons, NEW events, Deny(entry, reasons, events)
      PROVE  FALSE
  BY <1>2 DEF Deny
<1>3. ASSUME NEW entry \in Entries, NEW i \in Intents,
             RejectIntent(entry, i) \/ DenyIntent(entry, i) \/ FailIntent(entry, i)
      PROVE  FALSE
  BY <1>2, <1>3, Zenon DEF RejectIntent, DenyIntent, FailIntent
<1>4. QED BY <1>1, <1>3 DEF Next, Evaluate

(* What the two actions that allow an intent have in common.               *)
LEMMA AllowedCall ==
  ASSUME Inv, NEW entry \in Entries, NEW i \in Intents,
         AllowExecute(entry, i) \/ AllowRelease(entry, i)
  PROVE  LET ms  == Merged(i, {}, entry[2])
             acc == out'.accepts
         IN  /\ Readable(i)
             /\ Denying(i, state) = {}
             /\ state'.nonces = MergeDeltas(i, state, ms).nonces
             /\ RecordEvictions(i, ms)
             /\ "Replay" \in ms
             /\ clock' = clock
             /\ accepted' = accepted \cup {acc}
             /\ acc.agent_id = i.agent_id
             /\ acc.nonce = i.nonce
             /\ acc.timestamp = i.timestamp
<1> DEFINE ms == Merged(i, {}, entry[2])
<1>1. EarlyReasons(i, state) = {}
  BY DEF AllowExecute, AllowRelease
<1>2. Readable(i)
  BY <1>1, IntentIsReadable DEF Inv
<1>3. "Replay" \in ms
  BY <1>2, AllowedMergesReplay
<1>4. /\ Denying(i, state) = {}
      /\ state' = WithAuth(i, MergeDeltas(i, state, ms))
      /\ RecordEvictions(i, ms)
      /\ clock' = clock
      /\ accepted' = accepted \cup {out'.accepts}
      /\ out'.accepts.agent_id = i.agent_id
      /\ out'.accepts.nonce = i.nonce
      /\ out'.accepts.timestamp = i.timestamp
  BY DEF AllowExecute, AllowRelease, Allow, EndCall
<1>5. WithAuth(i, MergeDeltas(i, state, ms)).nonces = MergeDeltas(i, state, ms).nonces
  BY DEF WithAuth, MergeDeltas
<1>6. QED BY <1>2, <1>3, <1>4, <1>5

(* No step forgets an accepted nonce too early.                            *)
LEMMA RememberedStep == Inv /\ Remembered /\ [Next]_vars => Remembered'
<1> SUFFICES ASSUME Inv, Remembered, [Next]_vars PROVE Remembered'
  OBVIOUS
<1>1. /\ TypeOK
      /\ accepted \subseteq Acceptance
      /\ accepted' \subseteq Acceptance
      /\ \A e \in accepted : Known(e)
  BY NextInv DEF Inv, TypeOK, Remembered
<1>2. ASSUME NEW entry \in Entries, NEW i \in Intents,
             DenyIntent(entry, i) \/ FailIntent(entry, i)
      PROVE  Remembered'
  <2>1. PICK ms : /\ state' = MergeDeltas(i, state, ms)
                  /\ RecordEvictions(i, ms)
    BY <1>2 DEF DenyIntent, FailIntent
  <2>2. /\ EarlyReasons(i, state) = {}
        /\ accepted' = accepted
        /\ clock' = clock
    BY <1>2 DEF DenyIntent, FailIntent, Deny, EndCall
  <2>3. Readable(i)
    BY <1>1, <2>2, IntentIsReadable
  <2>4. \A e \in accepted : Known(e)'
    BY <1>1, <2>1, <2>2, <2>3, MergeRemembers
  <2>5. QED BY <2>2, <2>4 DEF Remembered
<1>3. ASSUME NEW entry \in Entries, NEW i \in Intents,
             AllowExecute(entry, i) \/ AllowRelease(entry, i)
      PROVE  Remembered'
  <2> DEFINE acc == out'.accepts
             ms  == Merged(i, {}, entry[2])
  <2>1. /\ Readable(i)
        /\ state'.nonces = MergeDeltas(i, state, ms).nonces
        /\ RecordEvictions(i, ms)
        /\ "Replay" \in ms
        /\ clock' = clock
        /\ accepted' = accepted \cup {acc}
        /\ acc.agent_id = i.agent_id
        /\ EntryOf(acc) = [nonce |-> i.nonce, ts |-> i.timestamp]
    BY <1>3, AllowedCall DEF EntryOf
  <2> HIDE DEF acc, ms
  <2>2. ASSUME NEW e \in accepted' PROVE Known(e)'
    <3>1. e \in Acceptance
      BY <1>1
    <3>2. Known(e) \/ e = acc
      BY <1>1, <2>1
    <3>3. QED BY <1>1, <2>1, <3>1, <3>2, MergeRemembers
  <2>3. QED BY <2>2 DEF Remembered
<1>4. ASSUME UNCHANGED <<accepted, evicted>>, state'.nonces = state.nonces, clock' >= clock,
             clock' \in Nat
      PROVE  Remembered'
  <2> SUFFICES ASSUME NEW e \in accepted PROVE Known(e)'
    BY <1>4 DEF Remembered
  <2>1. /\ Known(e)
        /\ e.timestamp \in Nat
        /\ clock \in Nat
        /\ ReplayWindow \in Nat
    BY <1>1, LimitsAssumption, EngineAssumption DEF Acceptance, TypeOK
  <2>2. QED BY <1>4, <2>1 DEF Known
<1>5. clock \in Nat /\ state \in State
  BY <1>1, EngineAssumption DEF TypeOK
<1>6. ASSUME NEW entry \in Entries, NEW i \in Intents, RejectIntent(entry, i)
      PROVE  Remembered'
  BY <1>4, <1>5, <1>6 DEF RejectIntent, history, Deny, EndCall
<1>7. CASE Tick \/ SetKillSwitch
  <2>1. state'.nonces = state.nonces
    BY <1>5, <1>7 DEF Tick, SetKillSwitch, State
  <2>2. QED BY <1>4, <1>5, <1>7, <2>1 DEF Tick, SetKillSwitch, history
<1>8. CASE UNCHANGED vars
  BY <1>4, <1>5, <1>8 DEF vars, history
<1>9. QED BY <1>2, <1>3, <1>6, <1>7, <1>8 DEF Next, Evaluate

(* The replay list remembers every accepted nonce.                         *)
LEMMA RememberedHolds == Spec => []Remembered
<1>1. Init => Remembered
  BY DEF Init, Remembered
<1>2. QED BY <1>1, InvHolds, RememberedStep, PTL DEF Spec

(* The nonce of an allowed intent was not allowed before within the replay *)
(* window, less the skew of the timestamps, unless max_nonces_per_agent    *)
(* had dropped it: entries are pruned by the intent's own timestamp, which *)
(* may be ahead of the next intent's by the skew, and they are entered by  *)
(* denied intents, too (ReplayModule.ts).                                  *)
THEOREM NoncesAreNotReplayed == Spec => NoReplay
<1>1. ASSUME Inv, Remembered, Next, out'.decision = "ALLOW", NEW e \in accepted,
             e.agent_id = out'.accepts.agent_id, e.nonce = out'.accepts.nonce
      PROVE  \/ out'.accepts.timestamp - e.timestamp > ReplayWindow - Skew
             \/ <<e.agent_id, EntryOf(e)>> \in evicted
  <2>1. PICK entry \in Entries, i \in Intents :
          AllowExecute(entry, i) \/ AllowRelease(entry, i)
    BY <1>1, WhatAllows
  <2> DEFINE a == i.agent_id
             list == state.nonces[a]
  <2>2. /\ Readable(i)
        /\ Denying(i, state) = {}
        /\ e.agent_id = a
        /\ e.nonce = i.nonce
        /\ out'.accepts.timestamp = i.timestamp
    BY <1>1, <2>1, AllowedCall
  <2>3. /\ state \in State
        /\ a \in Agents
        /\ list \in Seq(NonceEntry)
        /\ e.timestamp \in Nat
        /\ i.timestamp \in Nat
        /\ ReplayWindow \in Nat
        /\ Skew \in Nat
        /\ clock \in Nat
    <3>1. /\ state \in State
          /\ e \in Acceptance
          /\ clock \in 0 .. MaxTime
      BY <1>1 DEF Inv, TypeOK
    <3>2. a \in Agents /\ i.timestamp \in Nat
      BY <2>2 DEF Readable
    <3>3. list \in Seq(NonceEntry)
      BY <3>1, <3>2 DEF State
    <3>4. e.timestamp \in Nat
      BY <3>1 DEF Acceptance
    <3>5. QED BY <3>1, <3>2, <3>3, <3>4, LimitsAssumption, EngineAssumption
  <2>4. clock <= i.timestamp + Skew
    <3>1. i.timestamp \in Instants
      BY DEF Intents, ExecuteIntents, ReleaseIntents
    <3>2. QED BY <3>1 DEF Instants
  <2>5. ReplayReasons(i, state) = {}
    <3>1. "Replay" \in Merged(i, Denying(i, state), entry[2])
      BY <2>2, AllowedMergesReplay
    <3>2. Reasons("Replay", i, state) = {}
      BY <3>1, MergedModulesAllow
    <3>3. QED BY <3>2, Zenon DEF Reasons
  <2>6. CASE Lists(list, EntryOf(e))
    <3>1. PICK j \in 1 .. Len(list) : list[j] = EntryOf(e)
      BY <2>3, <2>6 DEF Lists
    <3>2. CASE list[j].ts >= i.timestamp - ReplayWindow
      <4>1. Lists(RecentNonces(i, state), EntryOf(e))
        BY <2>3, <3>1, <3>2, PruneKeeps DEF RecentNonces
      <4>2. QED BY <2>2, <2>5, <4>1 DEF Lists, ReplayReasons, EntryOf
    <3>3. CASE ~(list[j].ts >= i.timestamp - ReplayWindow)
      <4>1. ~(e.timestamp >= i.timestamp - ReplayWindow)
        BY <3>1, <3>3 DEF EntryOf
      <4>2. QED BY <2>2, <2>3, <4>1
    <3>4. QED BY <3>2, <3>3
  <2>7. CASE e.timestamp + ReplayWindow < clock
    BY <2>2, <2>3, <2>4, <2>7
  <2>8. Known(e)
    BY <1>1 DEF Remembered
  <2>9. QED BY <2>2, <2>6, <2>7, <2>8 DEF Known
<1>2. Inv /\ Remembered /\ [Next]_vars =>
        [ out'.decision = "ALLOW" =>
            LET i == out'.accepts
            IN  \A e \in accepted :
                  (e.agent_id = i.agent_id /\ e.nonce = i.nonce) =>
                    \/ i.timestamp - e.timestamp > ReplayWindow - Skew
                    \/ <<e.agent_id, [nonce |-> e.nonce, ts |-> e.timestamp]>> \in evicted ]_vars
  BY <1>1 DEF EntryOf
<1>3. QED BY <1>2, InvHolds, RememberedHolds, PTL DEF Spec, NoReplay

-----------------------------------------------------------------------------
(***************************************************************************)
(* The velocity counter                                                    *)
(***************************************************************************)

Within(E, c) ==
  {e \in E : e.timestamp >= c.window_start /\ e.timestamp < c.window_start + VelocityWindow}

(* The counter c has counted what of the EXECUTEs E falls in its window,   *)
(* and none lies after it.                                                 *)
Counts(c, E) ==
  IF c = Undefined THEN E = {}
  ELSE /\ c.count <= MaxActions
       /\ \A e \in E : e.timestamp < c.window_start + VelocityWindow
       /\ IsFiniteSet(Within(E, c))
       /\ Cardinality(Within(E, c)) <= c.count

(* Counter d comes after c: a later window, or more of the same.           *)
After(d, c) ==
  \/ d.window_start > c.window_start
  \/ d.window_start = c.window_start /\ d.count > c.count

(* What the velocity module makes of a counter when it allows: one that    *)
(* comes after and that has counted what was accepted up to this intent,   *)
(* whether or not the intent itself is then accepted.                      *)
LEMMA VelocityStep ==
  ASSUME NEW i, Readable(i), NEW s \in State, VelocityReasons(i, s) = {},
         NEW E \in SUBSET Acceptance, Counts(s.counters[i.agent_id], E),
         NEW acc, acc.timestamp = i.timestamp, NEW F, F = E \/ F = E \cup {acc}
  PROVE  /\ CounterDelta(i, s) \in Counter
         /\ Counts(CounterDelta(i, s), F)
         /\ s.counters[i.agent_id] # Undefined =>
              After(CounterDelta(i, s), s.counters[i.agent_id])
<1> DEFINE c == s.counters[i.agent_id]
           d == CounterDelta(i, s)
           t == i.timestamp
<1>1. /\ c \in Counter \cup {Undefined}
      /\ d \in Counter
      /\ t \in Nat
      /\ VelocityWindow \in Nat /\ VelocityWindow > 0
      /\ MaxActions \in Nat
      /\ Undefined \notin Counter
  <2>1. c \in Counter \cup {Undefined} /\ t \in Nat
    BY DEF State, Readable
  <2>2. d \in Counter
    BY CounterType
  <2>3. /\ VelocityWindow \in Nat \ {0}
        /\ MaxActions \in Nat
        /\ Undefined \notin Counter
    BY LimitsAssumption DEF Counter
  <2>4. QED BY <2>1, <2>2, <2>3
<1>2. d.count <= MaxActions
  BY <1>1 DEF VelocityReasons, Counter
<1>3. \A e \in E : e.timestamp \in Nat
  BY DEF Acceptance
<1>4. d = IF c = Undefined \/ t >= c.window_start + VelocityWindow
          THEN [window_start |-> t, count |-> 1]
          ELSE [window_start |-> c.window_start, count |-> c.count + 1]
  BY DEF CounterDelta
<1>5. Counts(c, E)
  OBVIOUS
<1>6. d # Undefined
  BY <1>1
<1> HIDE DEF c, d, t
<1>7. CASE c = Undefined \/ t >= c.window_start + VelocityWindow
  <2>1. d.window_start = t /\ d.count = 1
    BY <1>4, <1>7
  <2>2. \A e \in E : e.timestamp < t
    BY <1>1, <1>3, <1>5, <1>7 DEF Counts, Counter
  <2>3. \A e \in F : e.timestamp < t + VelocityWindow
    BY <1>1, <1>3, <2>2 DEF t
  <2>4. Within(F, d) \subseteq {acc}
    BY <1>1, <1>3, <2>1, <2>2 DEF Within
  <2>5. IsFiniteSet({acc}) /\ Cardinality({acc}) = 1
    BY FS_Singleton
  <2>6. /\ IsFiniteSet(Within(F, d))
        /\ Cardinality(Within(F, d)) <= 1
    BY <2>4, <2>5, FS_Subset
  <2>7. Counts(d, F)
    BY <1>2, <1>6, <2>1, <2>3, <2>6 DEF Counts
  <2>8. c # Undefined => After(d, c)
    BY <1>1, <1>7, <2>1 DEF After, Counter
  <2>9. QED BY <1>1, <2>7, <2>8 DEF c, d
<1>8. CASE ~(c = Undefined \/ t >= c.window_start + VelocityWindow)
  <2>1. /\ c \in Counter
        /\ c # Undefined
        /\ d.window_start = c.window_start
        /\ d.count = c.count + 1
        /\ c.window_start \in Nat
        /\ c.count \in Nat
        /\ t < c.window_start + VelocityWindow
    BY <1>1, <1>4, <1>8 DEF Counter
  <2>2. /\ \A e \in E : e.timestamp < c.window_start + VelocityWindow
        /\ IsFiniteSet(Within(E, c))
        /\ Cardinality(Within(E, c)) <= c.count
    BY <1>5, <2>1 DEF Counts
  <2>3. \A e \in F : e.timestamp < d.window_start + VelocityWindow
    BY <2>1, <2>2 DEF t
  <2>4. Within(F, d) \subseteq Within(E, c) \cup {acc}
    BY <2>1 DEF Within
  <2>5. /\ IsFiniteSet(Within(E, c) \cup {acc})
        /\ Cardinality(Within(E, c) \cup {acc}) =
             IF acc \in Within(E, c) THEN Cardinality(Within(E, c))
             ELSE Cardinality(Within(E, c)) + 1
    BY <2>2, FS_AddElement
  <2>6. Cardinality(Within(E, c)) \in Nat
    BY <2>2, FS_CardinalityType
  <2>7. Cardinality(Within(E, c) \cup {acc}) <= d.count
    BY <2>1, <2>2, <2>5, <2>6
  <2>8. /\ IsFiniteSet(Within(F, d))
        /\ Cardinality(Within(F, d)) \in Nat
        /\ Cardinality(Within(F, d)) <= Cardinality(Within(E, c) \cup {acc})
    BY <2>4, <2>5, FS_Subset, FS_CardinalityType
  <2>9. Cardinality(Within(F, d)) <= d.count
    BY <2>1, <2>5, <2>6, <2>7, <2>8
  <2>10. Counts(d, F)
    BY <1>2, <1>6, <2>3, <2>8, <2>9 DEF Counts
  <2>11. After(d, c)
    BY <2>1 DEF After
  <2>12. QED BY <1>1, <2>10, <2>11 DEF c, d
<1>9. QED BY <1>7, <1>8

(* What is inductive, of each agent: its counter has counted its EXECUTEs, *)
(* its authorizations are those it was issued, and none of them was made   *)
(* with a counter that comes after the one it has now.                     *)
CountedOf(a) ==
  /\ Counts(state.counters[a], Executed(a))
  /\ IsFiniteSet(Issued(a))
  /\ state.active_auths[a] = Issued(a)
  /\ \A x \in Issued(a) : ~After(x.counter, state.counters[a])

Counted == \A a \in Agents : CountedOf(a)

(* A step that accepts nothing and leaves an agent's counter and its       *)
(* authorizations alone.                                                   *)
LEMMA CountedKept ==
  ASSUME NEW a \in Agents, CountedOf(a), Executed(a)' = Executed(a),
         state'.counters[a] = state.counters[a],
         state'.active_auths[a] = state.active_auths[a]
  PROVE  CountedOf(a)'
<1>1. Issued(a)' = Issued(a)
  BY DEF Issued
<1>2. QED BY <1>1 DEF CountedOf

(* A counter that comes after the agent's comes after, and differs from,   *)
(* those of all authorizations it was issued.                              *)
LEMMA IssuedBefore ==
  ASSUME Inv, NEW a \in Agents, CountedOf(a), NEW d \in Counter,
         state.counters[a] # Undefined => After(d, state.counters[a])
  PROVE  \A x \in Issued(a) : ~After(x.counter, d) /\ x.counter # d
<1> SUFFICES ASSUME NEW x \in Issued(a)
             PROVE  ~After(x.counter, d) /\ x.counter # d
  OBVIOUS
<1> DEFINE c == state.counters[a]
<1>1. PICK e \in Executed(a) : x = e.auth
  BY DEF Issued
<1>2. x.counter \in Counter
  BY <1>1 DEF Executed, Inv, TypeOK, Acceptance, AuthId, Counter
<1>3. c # Undefined
  BY <1>1 DEF CountedOf, Counts
<1>4. c \in Counter
  BY <1>3 DEF Inv, TypeOK, State
<1>5. After(d, c) /\ ~After(x.counter, c)
  BY <1>3 DEF CountedOf
<1>6. QED BY <1>2, <1>4, <1>5 DEF After, Counter

(* What an evaluation has merged, before an authorization is added: each   *)
(* counter is as it was, or what the velocity module makes of it.          *)
LEMMA MergedCounters ==
  ASSUME NEW i, Readable(i), NEW s \in State, NEW mode, NEW a \in Agents
  PROVE  LET ms == Merged(i, Denying(i, s), mode)
             r  == MergeDeltas(i, s, ms)
         IN  IF a = i.agent_id /\ "Velocity" \in ms
             THEN r.counters[a] = CounterDelta(i, s) /\ VelocityReasons(i, s) = {}
             ELSE r.counters[a] = s.counters[a]
<1> DEFINE ms == Merged(i, Denying(i, s), mode)
           r  == MergeDeltas(i, s, ms)
<1>1. "Velocity" \in ms => Reasons("Velocity", i, s) = {}
  BY MergedModulesAllow
<1>2. Reasons("Velocity", i, s) = VelocityReasons(i, s)
  BY Zenon DEF Reasons
<1> HIDE DEF ms
<1>3. IF a = i.agent_id /\ "Velocity" \in ms
      THEN r.counters[a] = CounterDelta(i, s)
      ELSE r.counters[a] = s.counters[a]
  BY DEF MergeDeltas, State
<1>4. QED BY <1>1, <1>2, <1>3 DEF ms

(* A denial that has merged the velocity module's delta counts an intent   *)
(* that was not accepted.                                                  *)
LEMMA CountedAnyway ==
  ASSUME Inv, Counted, NEW i, Readable(i), NEW mode,
         state' = MergeDeltas(i, state, Merged(i, Denying(i, state), mode)),
         accepted' = accepted
  PROVE  Counted'
<1> SUFFICES ASSUME NEW a \in Agents PROVE CountedOf(a)'
  BY DEF Counted
<1> DEFINE ms == Merged(i, Denying(i, state), mode)
<1>1. /\ state \in State
      /\ Executed(a) \in SUBSET Acceptance
      /\ CountedOf(a)
  BY DEF Inv, TypeOK, Counted, Executed
<1>2. /\ Executed(a)' = Executed(a)
      /\ Issued(a)' = Issued(a)
  BY DEF Executed, Issued
<1>3. state'.active_auths[a] = state.active_auths[a]
  BY <1>1, MergeSlots
<1>4. IF a = i.agent_id /\ "Velocity" \in ms
      THEN state'.counters[a] = CounterDelta(i, state) /\ VelocityReasons(i, state) = {}
      ELSE state'.counters[a] = state.counters[a]
  BY <1>1, MergedCounters
<1> HIDE DEF ms
<1>5. CASE ~(a = i.agent_id /\ "Velocity" \in ms)
  BY <1>1, <1>2, <1>3, <1>4, <1>5, CountedKept
<1>6. CASE a = i.agent_id /\ "Velocity" \in ms
  <2>1. Counts(state.counters[i.agent_id], Executed(a))
    BY <1>1, <1>6 DEF CountedOf
  <2>2. /\ Counts(CounterDelta(i, state), Executed(a))
        /\ state.counters[a] # Undefined => After(CounterDelta(i, state), state.counters[a])
        /\ CounterDelta(i, state) \in Counter
    <3> DEFINE acc == [timestamp |-> i.timestamp]
    <3>1. acc.timestamp = i.timestamp
      OBVIOUS
    <3>2. QED BY <1>1, <1>4, <1>6, <2>1, <3>1, VelocityStep
  <2>3. \A x \in Issued(a) : ~After(x.counter, CounterDelta(i, state))
    BY <1>1, <2>2, IssuedBefore
  <2>4. QED BY <1>1, <1>2, <1>3, <1>4, <1>6, <2>2, <2>3 DEF CountedOf
<1>7. QED BY <1>5, <1>6

(* An allowed EXECUTE is counted and given an authorization that the agent *)
(* did not have.                                                           *)
LEMMA ExecuteIsNew ==
  ASSUME Inv, Counted, NEW entry \in Entries, NEW i \in Intents, AllowExecute(entry, i)
  PROVE  LET auth == NewAuth(i, MergeDeltas(i, state, Merged(i, {}, entry[2])))
         IN  /\ i.agent_id \in Agents
             /\ auth \notin Issued(i.agent_id)
             /\ Issued(i.agent_id)' = Issued(i.agent_id) \cup {auth}
             /\ state'.active_auths =
                  [state.active_auths EXCEPT ![i.agent_id] = @ \cup {auth}]
             /\ out'.accepts.agent_id = i.agent_id
             /\ Counted'
<1> DEFINE a       == i.agent_id
           ms      == Merged(i, {}, entry[2])
           working == MergeDeltas(i, state, ms)
           auth    == NewAuth(i, working)
           acceptance == [ type |-> "EXECUTE", agent_id |-> a, auth |-> auth,
                           nonce |-> i.nonce, timestamp |-> i.timestamp,
                           request |-> i.request ]
<1>1. /\ i.type = "EXECUTE"
      /\ state' = WithAuth(i, working)
      /\ accepted' = accepted \cup {acceptance}
      /\ out'.accepts = acceptance
      /\ EarlyReasons(i, state) = {}
      /\ Denying(i, state) = {}
  BY DEF AllowExecute, Allow
<1>2. /\ Readable(i)
      /\ state \in State
      /\ working \in State
      /\ a \in Agents
  BY <1>1, WorkingState, IntentIsReadable DEF Inv, TypeOK, Readable
<1>3. "Velocity" \in ms
  BY <1>1, ExecuteMergesAll
<1>4. /\ working.counters[a] = CounterDelta(i, state)
      /\ VelocityReasons(i, state) = {}
      /\ \A b \in Agents : b # a => working.counters[b] = state.counters[b]
  <2>1. ASSUME NEW b \in Agents
        PROVE  IF b = a /\ "Velocity" \in ms
               THEN /\ working.counters[b] = CounterDelta(i, state)
                    /\ VelocityReasons(i, state) = {}
               ELSE working.counters[b] = state.counters[b]
    <3> DEFINE merged == Merged(i, Denying(i, state), entry[2])
    <3>1. IF b = a /\ "Velocity" \in merged
          THEN /\ MergeDeltas(i, state, merged).counters[b] = CounterDelta(i, state)
               /\ VelocityReasons(i, state) = {}
          ELSE MergeDeltas(i, state, merged).counters[b] = state.counters[b]
      BY <1>2, MergedCounters
    <3>2. merged = ms
      BY <1>1
    <3> HIDE DEF merged, ms
    <3>3. QED BY <3>1, <3>2
  <2>2. QED BY <1>2, <1>3, <2>1
<1>5. \A b \in Agents : working.active_auths[b] = state.active_auths[b]
  BY <1>2, MergeSlots
<1>6. /\ auth.counter = CounterDelta(i, state)
      /\ acceptance.auth = auth
      /\ acceptance.agent_id = a
      /\ acceptance.type = "EXECUTE"
      /\ acceptance.timestamp = i.timestamp
  BY <1>4 DEF NewAuth
<1> HIDE DEF working, auth, acceptance, ms
<1>7. /\ state'.counters = working.counters
      /\ state'.active_auths = [working.active_auths EXCEPT ![a] = @ \cup {auth}]
  BY <1>1, <1>2 DEF WithAuth, MergeInto, State, auth
<1>8. working.active_auths = state.active_auths
  BY <1>2, <1>5 DEF State
<1>9. Executed(a)' = Executed(a) \cup {acceptance}
  BY <1>1, <1>6 DEF Executed
<1>10. Issued(a)' = Issued(a) \cup {auth}
  BY <1>6, <1>9 DEF Issued
<1>11. /\ CountedOf(a)
       /\ Executed(a) \in SUBSET Acceptance
  BY <1>2 DEF Counted, Inv, TypeOK, Executed
<1>12. /\ CounterDelta(i, state) \in Counter
       /\ Counts(CounterDelta(i, state), Executed(a) \cup {acceptance})
       /\ state.counters[a] # Undefined => After(CounterDelta(i, state), state.counters[a])
  <2>1. Counts(state.counters[i.agent_id], Executed(a))
    BY <1>11 DEF CountedOf
  <2>2. QED BY <1>2, <1>4, <1>6, <1>11, <2>1, VelocityStep
<1>13. \A x \in Issued(a) : /\ ~After(x.counter, CounterDelta(i, state))
                            /\ x.counter # CounterDelta(i, state)
  BY <1>2, <1>11, <1>12, IssuedBefore
<1>14. auth \notin Issued(a)
  BY <1>6, <1>13
<1>15. CountedOf(a)'
  <2>1. state'.counters[a] = CounterDelta(i, state)
    BY <1>4, <1>7
  <2>2. Counts(state'.counters[a], Executed(a)')
    BY <1>9, <1>12, <2>1
  <2>3. IsFiniteSet(Issued(a)')
    BY <1>10, <1>11, FS_AddElement DEF CountedOf
  <2>4. state'.active_auths[a] = Issued(a)'
    BY <1>2, <1>7, <1>8, <1>10, <1>11 DEF CountedOf, State
  <2>5. ~After(auth.counter, CounterDelta(i, state))
    BY <1>6, <1>12 DEF After, Counter
  <2>6. \A x \in Issued(a)' : ~After(x.counter, state'.counters[a])
    BY <1>10, <1>13, <2>1, <2>5
  <2>7. QED BY <2>2, <2>3, <2>4, <2>6 DEF CountedOf
<1>16. ASSUME NEW b \in Agents, b # a PROVE CountedOf(b)'
  <2>1. Executed(b)' = Executed(b)
    BY <1>1, <1>6, <1>16 DEF Executed
  <2>2. state'.counters[b] = state.counters[b]
    BY <1>4, <1>7, <1>16
  <2>3. state'.active_auths[b] = state.active_auths[b]
    BY <1>2, <1>7, <1>8, <1>16 DEF State
  <2>4. QED BY <1>16, <2>1, <2>2, <2>3, CountedKept DEF Counted
<1>17. Counted'
  BY <1>15, <1>16 DEF Counted
<1>18. QED
  BY <1>1, <1>2, <1>6, <1>7, <1>8, <1>10, <1>14, <1>17 DEF working, auth, ms

(* Every step keeps the counters and the authorizations in order.          *)
LEMMA CountedStep == Inv /\ Counted /\ [Next]_vars => Counted'
<1> SUFFICES ASSUME Inv, Counted, [Next]_vars PROVE Counted'
  OBVIOUS
<1>1. /\ TypeOK
      /\ state \in State
  BY DEF Inv, TypeOK
<1>2. ASSUME accepted' = accepted, state'.counters = state.counters,
             state'.active_auths = state.active_auths
      PROVE  Counted'
  <2> SUFFICES ASSUME NEW a \in Agents PROVE CountedOf(a)'
    BY DEF Counted
  <2>1. Executed(a)' = Executed(a)
    BY <1>2 DEF Executed
  <2>2. QED BY <1>2, <2>1, CountedKept DEF Counted
<1>3. ASSUME NEW entry \in Entries, NEW i \in Intents, RejectIntent(entry, i)
      PROVE  Counted'
  BY <1>2, <1>3 DEF RejectIntent, history
<1>4. ASSUME NEW entry \in Entries, NEW i \in Intents,
             DenyIntent(entry, i) \/ FailIntent(entry, i)
      PROVE  Counted'
  <2>1. /\ EarlyReasons(i, state) = {}
        /\ state' = MergeDeltas(i, state, Merged(i, Denying(i, state), entry[2]))
        /\ accepted' = accepted
    BY <1>4 DEF DenyIntent, FailIntent
  <2>2. Readable(i)
    BY <1>1, <2>1, IntentIsReadable
  <2>3. QED BY <2>1, <2>2, CountedAnyway
<1>5. ASSUME NEW entry \in Entries, NEW i \in Intents, AllowExecute(entry, i)
      PROVE  Counted'
  BY <1>5, ExecuteIsNew
<1>6. ASSUME NEW entry \in Entries, NEW i \in Intents, AllowRelease(entry, i)
      PROVE  Counted'
  <2> DEFINE ms == Merged(i, {}, entry[2])
  <2>1. /\ EarlyReasons(i, state) = {}
        /\ i.type = "RELEASE"
        /\ state' = MergeDeltas(i, state, ms)
        /\ accepted' = accepted \cup {out'.accepts}
        /\ out'.accepts.type # "EXECUTE"
    BY <1>6 DEF AllowRelease, Allow, WithAuth
  <2>2. Readable(i)
    BY <1>1, <2>1, IntentIsReadable
  <2>3. "Velocity" \notin ms
    BY <2>1, ReleaseMerges
  <2> HIDE DEF ms
  <2>4. state'.counters = state.counters
    BY <2>1, <2>3 DEF MergeDeltas
  <2> SUFFICES ASSUME NEW a \in Agents PROVE CountedOf(a)'
    BY DEF Counted
  <2>5. state'.active_auths[a] = state.active_auths[a]
    BY <1>1, <2>1, <2>2, MergeSlots
  <2>6. Executed(a)' = Executed(a)
    BY <2>1 DEF Executed
  <2>7. QED BY <2>4, <2>5, <2>6, CountedKept DEF Counted
<1>7. CASE Tick \/ SetKillSwitch
  <2>1. /\ state'.counters = state.counters
        /\ state'.active_auths = state.active_auths
        /\ accepted' = accepted
    BY <1>1, <1>7 DEF Tick, SetKillSwitch, State, history
  <2>2. QED BY <1>2, <2>1
<1>8. CASE UNCHANGED vars
  BY <1>2, <1>8 DEF vars, history
<1>9. QED BY <1>3, <1>4, <1>5, <1>6, <1>7, <1>8 DEF Next, Evaluate

(* The counters are in order in every reachable state.                     *)
LEMMA CountedHolds == Spec => []Counted
<1>1. Init => Counted
  <2> SUFFICES ASSUME Init, NEW a \in Agents PROVE CountedOf(a)
    BY DEF Counted
  <2>1. Executed(a) = {} /\ Issued(a) = {}
    BY DEF Init, Issued, Executed
  <2>2. state.counters[a] = Undefined /\ state.active_auths[a] = {}
    BY DEF Init, InitState
  <2>3. QED BY <2>1, <2>2, FS_EmptySet DEF CountedOf, Counts
<1>2. QED BY <1>1, InvHolds, CountedStep, PTL DEF Spec

(* The counter of the open velocity window is at most max_actions and has  *)
(* counted every EXECUTE accepted in that window, those with an old        *)
(* timestamp too; intents denied after the velocity module, in collect-all *)
(* mode, only add to it (VelocityModule.ts).                               *)
THEOREM VelocityCounted == Spec => []VelocityBound
<1>1. Counted => VelocityBound
  <2> SUFFICES ASSUME Counted, NEW a \in Agents, state.counters[a] # Undefined
               PROVE  LET c == state.counters[a]
                      IN  /\ c.count <= MaxActions
                          /\ Cardinality(Within(Executed(a), c)) <= c.count
    BY DEF VelocityBound, Within
  <2>1. CountedOf(a)
    BY DEF Counted
  <2>2. QED BY <2>1 DEF CountedOf, Counts
<1>2. QED BY <1>1, CountedHolds, PTL

(* An authorization id never takes the place of another: it hashes the     *)
(* state after the velocity module has counted the EXECUTE, and counters   *)
(* only ever go up or on to a later window, so that it is new even when    *)
(* nonce and timestamp come again (PolicyEngine.ts:432-508).               *)
THEOREM AuthorizationsAreFresh == Spec => FreshAuthorization
<1>1. ASSUME Inv, Counted, Next, out'.decision = "ALLOW", out'.accepts.type = "EXECUTE"
      PROVE  LET a == out'.accepts.agent_id
             IN  /\ Cardinality(state'.active_auths[a]) = Cardinality(state.active_auths[a]) + 1
                 /\ \A e \in Executed(a) : e.auth \in state'.active_auths[a]
  <2>1. PICK entry \in Entries, i \in Intents : AllowExecute(entry, i)
    <3>1. ASSUME NEW entry, NEW i, AllowRelease(entry, i) PROVE FALSE
      BY <1>1, <3>1 DEF AllowRelease, Allow
    <3>2. QED BY <1>1, <3>1, WhatAllows
  <2> DEFINE a    == i.agent_id
             auth == NewAuth(i, MergeDeltas(i, state, Merged(i, {}, entry[2])))
  <2>2. /\ a \in Agents
        /\ auth \notin Issued(a)
        /\ state'.active_auths = [state.active_auths EXCEPT ![a] = @ \cup {auth}]
        /\ out'.accepts.agent_id = a
    BY <1>1, <2>1, ExecuteIsNew
  <2>3. /\ state.active_auths[a] = Issued(a)
        /\ IsFiniteSet(Issued(a))
        /\ state.active_auths \in [Agents -> SUBSET AuthId]
    BY <1>1, <2>2 DEF Counted, CountedOf, Inv, TypeOK, State
  <2> HIDE DEF auth, a
  <2>4. state'.active_auths[a] = Issued(a) \cup {auth}
    BY <2>2, <2>3
  <2>5. Cardinality(Issued(a) \cup {auth}) = Cardinality(Issued(a)) + 1
    BY <2>2, <2>3, FS_AddElement
  <2>6. \A e \in Executed(a) : e.auth \in Issued(a)
    BY DEF Issued
  <2>7. QED BY <2>2, <2>3, <2>4, <2>5, <2>6
<1>2. Inv /\ Counted /\ [Next]_vars =>
        [ (out'.decision = "ALLOW" /\ out'.accepts.type = "EXECUTE") =>
            LET a == out'.accepts.agent_id
            IN  /\ Cardinality(state'.active_auths[a]) = Cardinality(state.active_auths[a]) + 1
                /\ \A e \in Executed(a) : e.auth \in state'.active_auths[a] ]_vars
  BY <1>1, Zenon
<1>3. QED BY <1>2, InvHolds, CountedHolds, PTL DEF Spec, FreshAuthorization

-----------------------------------------------------------------------------
(***************************************************************************)
(* Tool calls                                                              *)
(***************************************************************************)

(* The entries of a list of tool calls since q that are of the tools T.    *)
AnyTool == Tools \cup {Undefined}
Since(q, T) == {x \in CallEntry : x.ts >= q /\ x.tool \in T}

(* The calls an agent had accepted since q that are of the tools T.        *)
CallsSince(a, q, T) ==
  {e \in Executed(a) : /\ e.request.tool_call
                       /\ e.timestamp >= q
                       /\ e.request.tool \in T}

(* A list grows by the call of an intent, and loses only what is older     *)
(* than the window before it.                                              *)
LEMMA CallsAreTallied ==
  ASSUME NEW i, Readable(i), i.type = "EXECUTE", NEW s \in State, NEW q \in Int,
         q >= i.timestamp - ToolWindow, NEW T \in SUBSET AnyTool
  PROVE  /\ Tally(s.calls[i.agent_id], Since(q, T)) \in Nat
         /\ Tally(CallsDelta(i, s), Since(q, T)) \in Nat
         /\ Tally(CallsDelta(i, s), Since(q, T)) >= Tally(s.calls[i.agent_id], Since(q, T))
         /\ i.request.tool_call /\ i.timestamp >= q /\ i.request.tool \in T
              => Tally(CallsDelta(i, s), Since(q, T)) >=
                   Tally(s.calls[i.agent_id], Since(q, T)) + 1
<1> DEFINE list   == s.calls[i.agent_id]
           recent == RecentCalls(i, s)
           entry  == [ts |-> i.timestamp, tool |-> i.request.tool]
           Q      == Since(q, T)
<1>1. /\ list \in Seq(CallEntry)
      /\ CallsDelta(i, s) \in Seq(CallEntry)
      /\ recent \in Seq(CallEntry)
      /\ entry \in CallEntry
  <2>1. list \in Seq(CallEntry)
    BY DEF State, Readable
  <2>2. recent \in Seq(CallEntry)
    BY <2>1, PruneType DEF RecentCalls
  <2>3. entry \in CallEntry
    BY LimitsAssumption DEF Readable, CallEntry, Request
  <2>4. QED BY <2>1, <2>2, <2>3, CallsType
<1>2. CallsDelta(i, s) = IF i.request.tool_call THEN Append(recent, entry) ELSE list
  BY DEF CallsDelta
<1>3. /\ i.timestamp >= q /\ i.request.tool \in T => entry \in Q
      /\ \A x \in Q : x.ts >= i.timestamp - ToolWindow
  <2>1. /\ i.timestamp \in Nat
        /\ ToolWindow \in Nat
        /\ \A x \in CallEntry : x.ts \in Nat
    BY LimitsAssumption DEF Readable, CallEntry
  <2>2. QED BY <1>1, <2>1 DEF Since
<1>4. Tally(list, Q) <= Tally(recent, Q)
  <2>1. Q = {x \in Q : x.ts >= i.timestamp - ToolWindow}
    BY <1>3
  <2> HIDE DEF Q
  <2>2. Tally(recent, Q) = Tally(list, Q)
    BY <1>1, <2>1, PruneTally DEF RecentCalls
  <2>3. Tally(list, Q) \in Nat
    BY <1>1, <1>2, TallyAppend
  <2>4. QED BY <2>2, <2>3
<1> HIDE DEF list, recent, entry, Q
<1>5. /\ Tally(list, Q) \in Nat
      /\ Tally(recent, Q) \in Nat
      /\ Tally(CallsDelta(i, s), Q) \in Nat
  <2>1. \A l \in Seq(CallEntry) : Len(l) \in Nat
    OBVIOUS
  <2>2. \A l \in Seq(CallEntry) : Cardinality(Marked(l, Len(l), Q)) \in 0 .. Len(l)
    BY <2>1, MarkedNext
  <2>3. QED BY <1>1, <2>1, <2>2 DEF Tally
<1>6. /\ entry \in Q => Tally(Append(recent, entry), Q) = Tally(recent, Q) + 1
      /\ entry \notin Q => Tally(Append(recent, entry), Q) = Tally(recent, Q)
  BY <1>1, TallyAppend
<1>7. CASE i.request.tool_call
  <2>1. Tally(CallsDelta(i, s), Q) >= Tally(list, Q)
    BY <1>2, <1>4, <1>5, <1>6, <1>7
  <2>2. entry \in Q => Tally(CallsDelta(i, s), Q) >= Tally(list, Q) + 1
    BY <1>2, <1>4, <1>5, <1>6, <1>7
  <2>3. QED BY <1>3, <1>5, <2>1, <2>2 DEF list, Q
<1>8. CASE ~i.request.tool_call
  BY <1>2, <1>5, <1>8 DEF list, Q
<1>9. QED BY <1>7, <1>8

(* A tool call that the module allows is within both limits, counted with  *)
(* those on the list since any instant of its window.                      *)
LEMMA AllowedCallFits ==
  ASSUME NEW i, Readable(i), i.type = "EXECUTE", i.request.tool_call, NEW s \in State,
         ToolAmplificationReasons(i, s) = {},
         NEW q \in Int, q >= i.timestamp - ToolWindow
  PROVE  /\ Tally(s.calls[i.agent_id], Since(q, AnyTool)) + 1 <= MaxCalls[i.agent_id]
         /\ i.request.tool \in DOMAIN MaxCallsByTool[i.agent_id] =>
              Tally(s.calls[i.agent_id], Since(q, {i.request.tool})) + 1
                <= MaxCallsByTool[i.agent_id][i.request.tool]
<1> DEFINE a      == i.agent_id
           list   == s.calls[a]
           recent == RecentCalls(i, s)
           tool   == i.request.tool
           ofTool == {k \in DOMAIN recent : recent[k].tool = tool}
<1>1. /\ a \in Agents
      /\ list \in Seq(CallEntry)
      /\ recent \in Seq(CallEntry)
      /\ MaxCalls[a] \in Nat
      /\ tool \in DOMAIN MaxCallsByTool[a] => MaxCallsByTool[a][tool] \in Nat
  <2>1. a \in Agents /\ list \in Seq(CallEntry)
    BY DEF State, Readable
  <2>2. recent \in Seq(CallEntry)
    BY <2>1, PruneType DEF RecentCalls
  <2>3. QED BY <2>1, <2>2, LimitsAssumption
<1>2. /\ ~(Len(recent) + 1 > MaxCalls[a])
      /\ tool \in DOMAIN MaxCallsByTool[a] =>
           ~(Cardinality(ofTool) + 1 > MaxCallsByTool[a][tool])
  BY DEF ToolAmplificationReasons
<1>3. \A T : \A x \in Since(q, T) : x.ts >= i.timestamp - ToolWindow
  <2>1. /\ i.timestamp \in Nat
        /\ ToolWindow \in Nat
        /\ \A x \in CallEntry : x.ts \in Nat
    BY LimitsAssumption DEF Readable, CallEntry
  <2>2. QED BY <2>1 DEF Since
<1>4. \A T : Tally(list, Since(q, T)) <= Tally(recent, Since(q, T))
  <2> SUFFICES ASSUME NEW T
               PROVE  Tally(list, Since(q, T)) <= Tally(recent, Since(q, T))
    OBVIOUS
  <2> DEFINE Q == Since(q, T)
  <2>1. Q = {x \in Q : x.ts >= i.timestamp - ToolWindow}
    BY <1>3
  <2> HIDE DEF Q
  <2>2. Tally(recent, Q) = Tally(list, Q)
    BY <1>1, <2>1, PruneTally DEF RecentCalls
  <2>3. Tally(list, Q) \in Nat
    <3>1. Len(list) \in Nat
      BY <1>1
    <3>2. QED BY <3>1, MarkedNext DEF Tally
  <2>4. QED BY <2>2, <2>3 DEF Q
<1> HIDE DEF list, recent
<1>5. /\ Len(recent) \in Nat
      /\ Len(list) \in Nat
      /\ DOMAIN recent = 1 .. Len(recent)
  BY <1>1
<1>6. \A Q : /\ Tally(list, Q) \in Nat
             /\ Tally(recent, Q) \in 0 .. Len(recent)
             /\ IsFiniteSet(Marked(recent, Len(recent), Q))
  BY <1>5, MarkedNext DEF Tally
<1>7. Tally(list, Since(q, AnyTool)) + 1 <= MaxCalls[a]
  <2> DEFINE x == Tally(list, Since(q, AnyTool))
             y == Tally(recent, Since(q, AnyTool))
  <2>1. x \in Nat /\ y \in 0 .. Len(recent) /\ x <= y
    BY <1>4, <1>6
  <2> HIDE DEF x, y
  <2>2. x + 1 <= MaxCalls[a]
    BY <1>1, <1>2, <1>5, <2>1
  <2>3. QED BY <2>2 DEF x
<1>8. ASSUME tool \in DOMAIN MaxCallsByTool[a]
      PROVE  Tally(list, Since(q, {tool})) + 1 <= MaxCallsByTool[a][tool]
  <2> DEFINE x == Tally(list, Since(q, {tool}))
             y == Tally(recent, Since(q, {tool}))
             m == MaxCallsByTool[a][tool]
  <2>1. x \in Nat /\ y \in Nat /\ x <= y
    BY <1>4, <1>5, <1>6
  <2>2. Marked(recent, Len(recent), Since(q, {tool})) \subseteq ofTool
    BY <1>5 DEF Marked, Since
  <2>3. IsFiniteSet(ofTool)
    <3>1. IsFiniteSet(1 .. Len(recent))
      BY <1>5, FS_Interval
    <3>2. QED BY <1>5, <3>1, FS_Subset
  <2>4. y <= Cardinality(ofTool) /\ Cardinality(ofTool) \in Nat
    BY <2>2, <2>3, FS_Subset, FS_CardinalityType DEF Tally
  <2>5. m \in Nat /\ ~(Cardinality(ofTool) + 1 > m)
    BY <1>1, <1>2, <1>8
  <2> HIDE DEF x, y, m, ofTool
  <2>6. x + 1 <= m
    BY <2>1, <2>4, <2>5
  <2>7. QED BY <2>6 DEF x, m
<1>9. QED BY <1>7, <1>8 DEF list

(* What is inductive, of each agent: the calls it had accepted since any   *)
(* instant of the window are on its list.                                  *)
TalliedOf(a) ==
  /\ IsFiniteSet(Executed(a))
  /\ \A e \in Executed(a) : e.request.tool \in AnyTool
  /\ \A q \in Int : \A T \in SUBSET AnyTool :
       q >= clock - ToolWindow =>
         Cardinality(CallsSince(a, q, T)) <= Tally(state.calls[a], Since(q, T))

(* ToolCallBound, of one agent.                                            *)
CallsIn(a, t) ==
  {e \in Executed(a) : /\ e.request.tool_call
                       /\ e.timestamp <= t
                       /\ e.timestamp >= t - (ToolWindow - Skew)}

BoundedOf(a) ==
  \A t \in 0 .. MaxTime :
    /\ Cardinality(CallsIn(a, t)) <= MaxCalls[a]
    /\ \A tool \in DOMAIN MaxCallsByTool[a] :
         Cardinality({e \in CallsIn(a, t) : e.request.tool = tool}) <= MaxCallsByTool[a][tool]

Tallied == \A a \in Agents : TalliedOf(a) /\ BoundedOf(a)

(* A step that accepts no EXECUTE of an agent and takes no recent call off *)
(* its list.                                                               *)
LEMMA TalliedKept ==
  ASSUME TypeOK, clock' \in Nat, clock' >= clock,
         NEW a \in Agents, TalliedOf(a), BoundedOf(a), Executed(a)' = Executed(a),
         \A q \in Int : \A T \in SUBSET AnyTool :
           q >= clock - ToolWindow =>
             /\ Tally(state.calls[a], Since(q, T)) \in Nat
             /\ Tally(state'.calls[a], Since(q, T)) \in Nat
             /\ Tally(state'.calls[a], Since(q, T)) >= Tally(state.calls[a], Since(q, T))
  PROVE  TalliedOf(a)' /\ BoundedOf(a)'
<1>1. /\ clock \in Nat
      /\ ToolWindow \in Nat
  BY LimitsAssumption, EngineAssumption DEF TypeOK
<1>2. \A q, T : CallsSince(a, q, T)' = CallsSince(a, q, T)
  BY DEF CallsSince
<1>3. BoundedOf(a)'
  BY DEF BoundedOf, CallsIn
<1>4. ASSUME NEW q \in Int, NEW T \in SUBSET AnyTool, q >= clock' - ToolWindow
      PROVE  Cardinality(CallsSince(a, q, T)) <= Tally(state'.calls[a], Since(q, T))
  <2> DEFINE n == Cardinality(CallsSince(a, q, T))
             x == Tally(state.calls[a], Since(q, T))
             y == Tally(state'.calls[a], Since(q, T))
  <2>1. q >= clock - ToolWindow
    BY <1>1, <1>4
  <2>2. n <= x
    BY <2>1 DEF TalliedOf
  <2>3. x \in Nat /\ y \in Nat /\ y >= x
    BY <2>1
  <2>4. n \in Nat
    <3>1. CallsSince(a, q, T) \subseteq Executed(a)
      BY DEF CallsSince
    <3>2. QED BY <3>1, FS_Subset, FS_CardinalityType DEF TalliedOf
  <2> HIDE DEF n, x, y
  <2>5. n <= y
    BY <2>2, <2>3, <2>4
  <2>6. QED BY <2>5 DEF n, y
<1>5. QED BY <1>2, <1>3, <1>4 DEF TalliedOf

(* The tally of a list of calls is a number.                               *)
LEMMA TallyIsNat ==
  ASSUME TypeOK, NEW a \in Agents, NEW Q
  PROVE  Tally(state.calls[a], Q) \in Nat
<1>1. Len(state.calls[a]) \in Nat
  BY DEF TypeOK, State
<1>2. Cardinality(Marked(state.calls[a], Len(state.calls[a]), Q)) \in 0 .. Len(state.calls[a])
  BY <1>1, MarkedNext
<1>3. QED BY <1>1, <1>2 DEF Tally

(* So do the steps that leave the lists and what is accepted alone.        *)
LEMMA TalliedAnyway ==
  ASSUME TypeOK, Tallied, clock' \in Nat, clock' >= clock,
         state'.calls = state.calls,
         \A a \in Agents : Executed(a)' = Executed(a)
  PROVE  Tallied'
<1> SUFFICES ASSUME NEW a \in Agents PROVE TalliedOf(a)' /\ BoundedOf(a)'
  BY DEF Tallied
<1>1. \A Q : /\ Tally(state.calls[a], Q) \in Nat
             /\ Tally(state'.calls[a], Q) = Tally(state.calls[a], Q)
  BY TallyIsNat
<1>2. TalliedOf(a) /\ BoundedOf(a)
  BY DEF Tallied
<1>3. QED BY <1>1, <1>2, TalliedKept

(* What an evaluation makes of the lists of calls.                         *)
LEMMA MergedCalls ==
  ASSUME NEW i, Readable(i), NEW s \in State, NEW ms, NEW a \in Agents
  PROVE  MergeDeltas(i, s, ms).calls[a] =
           IF a = i.agent_id /\ "ToolAmplification" \in ms
           THEN CallsDelta(i, s) ELSE s.calls[a]
BY DEF MergeDeltas, State, Readable

(* The instant of an intent is not after the clock, nor older than the     *)
(* skew.                                                                   *)
LEMMA IntentIsRecent ==
  ASSUME TypeOK, NEW i \in Intents
  PROVE  /\ clock \in Nat
         /\ i.timestamp \in Nat
         /\ Skew \in Nat
         /\ i.timestamp <= clock
         /\ clock <= i.timestamp + Skew
<1>1. i.timestamp \in Instants
  BY DEF Intents, ExecuteIntents, ReleaseIntents
<1>2. QED BY <1>1, EngineAssumption DEF Instants, TypeOK

(* A denial takes no recent call off a list; it may put one on.            *)
LEMMA DeniedCalls ==
  ASSUME TypeOK, Tallied, NEW i \in Intents, Readable(i), NEW mode,
         state' = MergeDeltas(i, state, Merged(i, Denying(i, state), mode)),
         accepted' = accepted, clock' = clock
  PROVE  Tallied'
<1> SUFFICES ASSUME NEW a \in Agents PROVE TalliedOf(a)' /\ BoundedOf(a)'
  BY DEF Tallied
<1> DEFINE ms == Merged(i, Denying(i, state), mode)
<1>1. /\ TalliedOf(a)
      /\ BoundedOf(a)
      /\ state \in State
      /\ Executed(a)' = Executed(a)
  BY DEF Tallied, TypeOK, Executed
<1>2. /\ clock \in Nat
      /\ i.timestamp \in Nat
      /\ ToolWindow \in Nat
      /\ i.timestamp <= clock
      /\ clock' \in Nat
      /\ clock' >= clock
  BY IntentIsRecent, LimitsAssumption
<1>3. state'.calls[a] = IF a = i.agent_id /\ "ToolAmplification" \in ms
                        THEN CallsDelta(i, state) ELSE state.calls[a]
  BY <1>1, MergedCalls
<1>4. "ToolAmplification" \in ms => i.type = "EXECUTE"
  BY ReleaseMerges DEF Readable
<1> HIDE DEF ms
<1>5. CASE a = i.agent_id /\ "ToolAmplification" \in ms
  <2>1. ASSUME NEW q \in Int, NEW T \in SUBSET AnyTool, q >= clock - ToolWindow
        PROVE  /\ Tally(state.calls[a], Since(q, T)) \in Nat
               /\ Tally(state'.calls[a], Since(q, T)) \in Nat
               /\ Tally(state'.calls[a], Since(q, T)) >= Tally(state.calls[a], Since(q, T))
    <3>1. q >= i.timestamp - ToolWindow
      BY <1>2, <2>1
    <3>2. QED BY <1>1, <1>3, <1>4, <1>5, <3>1, CallsAreTallied
  <2>2. QED BY <1>1, <1>2, <2>1, TalliedKept
<1>6. CASE ~(a = i.agent_id /\ "ToolAmplification" \in ms)
  <2>1. \A Q : /\ Tally(state.calls[a], Q) \in Nat
               /\ Tally(state'.calls[a], Q) = Tally(state.calls[a], Q)
    BY <1>3, <1>6, TallyIsNat
  <2>2. QED BY <1>1, <1>2, <2>1, TalliedKept
<1>7. QED BY <1>5, <1>6

(* Adding one element adds at most one.                                    *)
LEMMA AddsOne ==
  ASSUME NEW S, IsFiniteSet(S), NEW x, NEW T, T \subseteq S \cup {x}
  PROVE  /\ IsFiniteSet(T)
         /\ Cardinality(T) \in Nat
         /\ Cardinality(S) \in Nat
         /\ Cardinality(T) <= Cardinality(S) + 1
<1>1. /\ IsFiniteSet(S \cup {x})
      /\ Cardinality(S \cup {x}) = IF x \in S THEN Cardinality(S) ELSE Cardinality(S) + 1
  BY FS_AddElement
<1>2. /\ IsFiniteSet(T)
      /\ Cardinality(T) <= Cardinality(S \cup {x})
  BY <1>1, FS_Subset
<1>3. /\ Cardinality(T) \in Nat
      /\ Cardinality(S) \in Nat
      /\ Cardinality(S \cup {x}) \in Nat
  BY <1>1, <1>2, FS_CardinalityType
<1>4. QED BY <1>1, <1>2, <1>3

(* An allowed EXECUTE puts its call on the list, and fits the limits with  *)
(* those before it.                                                        *)
LEMMA ExecutedCall ==
  ASSUME Inv, Tallied, NEW entry \in Entries, NEW i \in Intents, AllowExecute(entry, i)
  PROVE  TalliedOf(i.agent_id)' /\ BoundedOf(i.agent_id)'
<1> DEFINE a       == i.agent_id
           ms      == Merged(i, {}, entry[2])
           working == MergeDeltas(i, state, ms)
           acc     == out'.accepts
<1>1. /\ i.type = "EXECUTE"
      /\ state' = WithAuth(i, working)
      /\ EarlyReasons(i, state) = {}
      /\ Denying(i, state) = {}
      /\ accepted' = accepted \cup {acc}
      /\ acc.type = "EXECUTE"
      /\ acc.agent_id = a
      /\ acc.timestamp = i.timestamp
      /\ acc.request = i.request
      /\ clock' = clock
  BY DEF AllowExecute, Allow, EndCall
<1>2. /\ Readable(i)
      /\ state \in State
      /\ a \in Agents
      /\ TypeOK
  BY <1>1, IntentIsReadable DEF Inv, TypeOK, Readable
<1>3. /\ TalliedOf(a)
      /\ BoundedOf(a)
  BY <1>2 DEF Tallied
<1>4. /\ clock \in Nat
      /\ i.timestamp \in Nat
      /\ ToolWindow \in Nat
      /\ Skew \in Nat
      /\ i.timestamp <= clock
      /\ clock <= i.timestamp + Skew
  BY <1>2, IntentIsRecent, LimitsAssumption
<1>5. /\ 6 \in DOMAIN Modules(i)
      /\ Modules(i)[6] = "ToolAmplification"
  BY <1>1 DEF Modules, ExecuteModules
<1>6. "ToolAmplification" \in ms
  BY <1>5 DEF Merged
<1>7. ToolAmplificationReasons(i, state) = {}
  <2>1. Reasons("ToolAmplification", i, state) = {}
    BY <1>1, <1>5 DEF Denying
  <2>2. QED BY <2>1, Zenon DEF Reasons
<1>8. state'.calls[a] = CallsDelta(i, state)
  <2>1. working.calls[a] = CallsDelta(i, state)
    BY <1>2, <1>6, MergedCalls
  <2>2. WithAuth(i, working).calls = working.calls
    BY DEF WithAuth, MergeDeltas
  <2>3. QED BY <1>1, <2>1, <2>2
<1>9. Executed(a)' = Executed(a) \cup {acc}
  BY <1>1 DEF Executed
<1>10. i.request.tool \in AnyTool
  BY <1>1, <1>2, LimitsAssumption DEF Readable, Request, AnyTool
<1> HIDE DEF working, acc, ms
<1>11. IsFiniteSet(Executed(a)')
  BY <1>3, <1>9, FS_AddElement DEF TalliedOf
<1>12. \A e \in Executed(a)' : e.request.tool \in AnyTool
  BY <1>1, <1>3, <1>9, <1>10 DEF TalliedOf
<1>13. \A q, T : IsFiniteSet(CallsSince(a, q, T)) /\ Cardinality(CallsSince(a, q, T)) \in Nat
  <2> SUFFICES ASSUME NEW q, NEW T
               PROVE  /\ IsFiniteSet(CallsSince(a, q, T))
                      /\ Cardinality(CallsSince(a, q, T)) \in Nat
    OBVIOUS
  <2>1. CallsSince(a, q, T) \subseteq Executed(a)
    BY DEF CallsSince
  <2>2. QED BY <1>3, <2>1, FS_Subset, FS_CardinalityType DEF TalliedOf
<1>14. ASSUME NEW q \in Int, NEW T \in SUBSET AnyTool, q >= clock - ToolWindow
       PROVE  Cardinality(CallsSince(a, q, T))' <= Tally(state'.calls[a], Since(q, T))
  <2> DEFINE n == Cardinality(CallsSince(a, q, T))
             m == Cardinality(CallsSince(a, q, T)')
             x == Tally(state.calls[a], Since(q, T))
             y == Tally(CallsDelta(i, state), Since(q, T))
             new == i.request.tool_call /\ i.timestamp >= q /\ i.request.tool \in T
  <2>1. q >= i.timestamp - ToolWindow
    BY <1>4, <1>14
  <2>2. /\ x \in Nat
        /\ y \in Nat
        /\ y >= x
        /\ new => y >= x + 1
    BY <1>1, <1>2, <2>1, CallsAreTallied
  <2>3. n <= x /\ n \in Nat
    BY <1>3, <1>13, <1>14 DEF TalliedOf
  <2>4. CASE new
    <3>1. CallsSince(a, q, T)' \subseteq CallsSince(a, q, T) \cup {acc}
      BY <1>9 DEF CallsSince
    <3>2. m \in Nat /\ m <= n + 1
      BY <1>13, <3>1, AddsOne
    <3> HIDE DEF n, m, x, y
    <3>3. m <= y
      BY <2>2, <2>3, <2>4, <3>2
    <3>4. QED BY <1>8, <3>3 DEF m, y
  <2>5. CASE ~new
    <3>1. CallsSince(a, q, T)' = CallsSince(a, q, T)
      BY <1>1, <1>9, <2>5 DEF CallsSince
    <3> HIDE DEF x, y
    <3>2. n <= y
      BY <2>2, <2>3
    <3>3. QED BY <1>8, <3>1, <3>2 DEF y
  <2>6. QED BY <2>4, <2>5
<1>15. TalliedOf(a)'
  BY <1>1, <1>11, <1>12, <1>14 DEF TalliedOf
<1>16. ASSUME NEW t \in 0 .. MaxTime
       PROVE  /\ Cardinality(CallsIn(a, t)') <= MaxCalls[a]
              /\ \A tool \in DOMAIN MaxCallsByTool[a] :
                   Cardinality({e \in CallsIn(a, t)' : e.request.tool = tool})
                     <= MaxCallsByTool[a][tool]
  <2> DEFINE q   == t - (ToolWindow - Skew)
             new == i.request.tool_call /\ i.timestamp <= t /\ i.timestamp >= q
  <2>1. t \in Nat /\ q \in Int
    BY <1>4, EngineAssumption
  <2>2. CASE ~new
    <3>1. CallsIn(a, t)' = CallsIn(a, t)
      BY <1>1, <1>9, <2>2 DEF CallsIn
    <3>2. QED BY <1>3, <3>1 DEF BoundedOf
  <2>3. CASE new
    <3>1. q >= clock - ToolWindow /\ q >= i.timestamp - ToolWindow
      BY <1>4, <2>1, <2>3
    <3>2. CallsIn(a, t)' \subseteq CallsSince(a, q, AnyTool) \cup {acc}
      BY <1>3, <1>9 DEF CallsIn, CallsSince, TalliedOf
    <3> HIDE DEF q
    <3>3. /\ AnyTool \in SUBSET AnyTool
          /\ Cardinality(CallsSince(a, q, AnyTool)) <= Tally(state.calls[a], Since(q, AnyTool))
      BY <1>3, <2>1, <3>1 DEF TalliedOf
    <3>4. /\ Tally(state.calls[a], Since(q, AnyTool)) + 1 <= MaxCalls[a]
          /\ i.request.tool \in DOMAIN MaxCallsByTool[a] =>
               Tally(state.calls[a], Since(q, {i.request.tool})) + 1
                 <= MaxCallsByTool[a][i.request.tool]
      BY <1>1, <1>2, <1>7, <2>1, <2>3, <3>1, AllowedCallFits
    <3>5. /\ MaxCalls[a] \in Nat
          /\ \A Q : Tally(state.calls[a], Q) \in Nat
          /\ \A tool \in DOMAIN MaxCallsByTool[a] : MaxCallsByTool[a][tool] \in Nat
      BY <1>2, LimitsAssumption, TallyIsNat
    <3>6. Cardinality(CallsIn(a, t)') <= MaxCalls[a]
      <4> DEFINE n == Cardinality(CallsSince(a, q, AnyTool))
                 m == Cardinality(CallsIn(a, t)')
                 x == Tally(state.calls[a], Since(q, AnyTool))
      <4>1. n \in Nat /\ m \in Nat /\ m <= n + 1
        BY <1>13, <3>2, AddsOne
      <4>2. x \in Nat /\ n <= x /\ x + 1 <= MaxCalls[a]
        BY <3>3, <3>4, <3>5
      <4> HIDE DEF n, m, x
      <4>3. m <= MaxCalls[a]
        BY <3>5, <4>1, <4>2
      <4>4. QED BY <4>3 DEF m
    <3>7. ASSUME NEW tool \in DOMAIN MaxCallsByTool[a]
          PROVE  Cardinality({e \in CallsIn(a, t)' : e.request.tool = tool})
                   <= MaxCallsByTool[a][tool]
      <4>1. CASE tool = i.request.tool
        <5> DEFINE S == {e \in CallsIn(a, t)' : e.request.tool = tool}
                   n == Cardinality(CallsSince(a, q, {tool}))
                   m == Cardinality(S)
                   x == Tally(state.calls[a], Since(q, {tool}))
                   l == MaxCallsByTool[a][tool]
        <5>1. S \subseteq CallsSince(a, q, {tool}) \cup {acc}
          BY <3>2 DEF CallsSince
        <5> HIDE DEF S
        <5>2. n \in Nat /\ m \in Nat /\ m <= n + 1
          BY <1>13, <5>1, AddsOne
        <5>3. {tool} \in SUBSET AnyTool
          BY <1>10, <4>1
        <5>4. n <= x
          BY <1>3, <2>1, <3>1, <5>3 DEF TalliedOf
        <5>5. x \in Nat /\ l \in Nat /\ x + 1 <= l
          BY <3>4, <3>5, <3>7, <4>1
        <5> HIDE DEF n, m, x, l
        <5>6. m <= l
          BY <5>2, <5>4, <5>5
        <5>7. QED BY <5>6 DEF m, l, S
      <4>2. CASE tool # i.request.tool
        <5>1. {e \in CallsIn(a, t)' : e.request.tool = tool}
                = {e \in CallsIn(a, t) : e.request.tool = tool}
          BY <1>1, <1>9, <4>2 DEF CallsIn
        <5>2. QED BY <1>3, <3>7, <5>1 DEF BoundedOf
      <4>3. QED BY <4>1, <4>2
    <3>8. QED BY <3>6, <3>7
  <2>4. QED BY <2>2, <2>3
<1>17. BoundedOf(a)'
  BY <1>16 DEF BoundedOf
<1>18. QED BY <1>15, <1>17

(* Every step keeps the tool calls tallied and within their limits.        *)
LEMMA TalliedStep == Inv /\ Tallied /\ [Next]_vars => Tallied'
<1> SUFFICES ASSUME Inv, Tallied, [Next]_vars PROVE Tallied'
  OBVIOUS
<1>1. /\ TypeOK
      /\ state \in State
      /\ clock \in Nat
  BY EngineAssumption DEF Inv, TypeOK
<1>2. ASSUME accepted' = accepted, state'.calls = state.calls, clock' \in {clock, clock + 1}
      PROVE  Tallied'
  <2>1. \A a \in Agents : Executed(a)' = Executed(a)
    BY <1>2 DEF Executed
  <2>2. clock' \in Nat /\ clock' >= clock
    BY <1>1, <1>2
  <2>3. QED BY <1>1, <1>2, <2>1, <2>2, TalliedAnyway
<1>3. ASSUME NEW entry \in Entries, NEW i \in Intents, RejectIntent(entry, i)
      PROVE  Tallied'
  BY <1>2, <1>3 DEF RejectIntent, history, Deny, EndCall
<1>4. ASSUME NEW entry \in Entries, NEW i \in Intents,
             DenyIntent(entry, i) \/ FailIntent(entry, i)
      PROVE  Tallied'
  <2>1. /\ EarlyReasons(i, state) = {}
        /\ state' = MergeDeltas(i, state, Merged(i, Denying(i, state), entry[2]))
        /\ accepted' = accepted
    BY <1>4 DEF DenyIntent, FailIntent
  <2>2. clock' = clock
    <3>1. ASSUME NEW reasons, NEW events, Deny(entry, reasons, events)
          PROVE  clock' = clock
      BY <3>1 DEF Deny, EndCall
    <3>2. QED BY <1>4, <3>1, Zenon DEF DenyIntent, FailIntent
  <2>3. Readable(i)
    BY <1>1, <2>1, IntentIsReadable
  <2>4. QED BY <1>1, <2>1, <2>2, <2>3, DeniedCalls
<1>5. ASSUME NEW entry \in Entries, NEW i \in Intents, AllowExecute(entry, i),
             NEW a \in Agents, a # i.agent_id
      PROVE  TalliedOf(a)' /\ BoundedOf(a)'
  <2> DEFINE working == MergeDeltas(i, state, Merged(i, {}, entry[2]))
  <2>1. /\ EarlyReasons(i, state) = {}
        /\ state' = WithAuth(i, working)
        /\ accepted' = accepted \cup {out'.accepts}
        /\ out'.accepts.agent_id = i.agent_id
        /\ clock' = clock
    BY <1>5 DEF AllowExecute, Allow, EndCall
  <2>2. Readable(i)
    BY <1>1, <2>1, IntentIsReadable
  <2>3. working.calls[a] = state.calls[a]
    BY <1>1, <1>5, <2>2, MergedCalls
  <2>4. WithAuth(i, working).calls = working.calls
    BY DEF WithAuth, MergeDeltas
  <2> HIDE DEF working
  <2>5. Executed(a)' = Executed(a)
    BY <1>5, <2>1 DEF Executed
  <2>6. /\ TalliedOf(a)
        /\ BoundedOf(a)
        /\ clock' \in Nat
        /\ clock' >= clock
    BY <1>1, <2>1 DEF Tallied
  <2>7. \A Q : /\ Tally(state.calls[a], Q) \in Nat
               /\ Tally(state'.calls[a], Q) = Tally(state.calls[a], Q)
    BY <1>1, <2>1, <2>3, <2>4, TallyIsNat
  <2>8. QED BY <1>1, <2>5, <2>6, <2>7, TalliedKept
<1>6. ASSUME NEW entry \in Entries, NEW i \in Intents, AllowExecute(entry, i)
      PROVE  Tallied'
  BY <1>5, <1>6, ExecutedCall DEF Tallied
<1>7. ASSUME NEW entry \in Entries, NEW i \in Intents, AllowRelease(entry, i)
      PROVE  Tallied'
  <2> DEFINE ms == Merged(i, {}, entry[2])
  <2>1. /\ i.type = "RELEASE"
        /\ state' = MergeDeltas(i, state, ms)
        /\ accepted' = accepted \cup {out'.accepts}
        /\ out'.accepts.type # "EXECUTE"
        /\ clock' = clock
    BY <1>7 DEF AllowRelease, Allow, WithAuth, EndCall
  <2>2. "ToolAmplification" \notin ms
    BY <2>1, ReleaseMerges
  <2> HIDE DEF ms
  <2>3. state'.calls = state.calls
    BY <2>1, <2>2 DEF MergeDeltas
  <2>4. \A a \in Agents : Executed(a)' = Executed(a)
    BY <2>1 DEF Executed
  <2>5. clock' \in Nat /\ clock' >= clock
    BY <1>1, <2>1
  <2>6. QED BY <1>1, <2>3, <2>4, <2>5, TalliedAnyway
<1>8. CASE Tick \/ SetKillSwitch
  <2>1. /\ state'.calls = state.calls
        /\ accepted' = accepted
        /\ clock' \in {clock, clock + 1}
    BY <1>1, <1>8 DEF Tick, SetKillSwitch, State, history
  <2>2. QED BY <1>2, <2>1
<1>9. CASE UNCHANGED vars
  BY <1>2, <1>9 DEF vars, history
<1>10. QED BY <1>3, <1>4, <1>6, <1>7, <1>8, <1>9 DEF Next, Evaluate

(* In any interval as long as the tool window less the skew no agent has   *)
(* more tool calls accepted than max_calls, nor more of one tool than      *)
(* max_calls_by_tool, although the list is pruned by the timestamp of each *)
(* intent and those may come out of order (ToolAmplificationModule.ts).    *)
THEOREM ToolCallsBounded == Spec => []ToolCallBound
<1>1. Init => Tallied
  <2> SUFFICES ASSUME Init, NEW a \in Agents PROVE TalliedOf(a) /\ BoundedOf(a)
    BY DEF Tallied
  <2>1. Executed(a) = {}
    BY DEF Init, Executed
  <2>2. /\ \A q, T : CallsSince(a, q, T) = {}
        /\ \A t : CallsIn(a, t) = {}
        /\ \A t, tool : {e \in CallsIn(a, t) : e.request.tool = tool} = {}
    BY <2>1 DEF CallsSince, CallsIn
  <2>3. /\ IsFiniteSet({})
        /\ Cardinality({}) = 0
    BY FS_EmptySet
  <2>4. /\ \A q, T : Cardinality(CallsSince(a, q, T)) = 0
        /\ \A t : Cardinality(CallsIn(a, t)) = 0
        /\ \A t, tool : Cardinality({e \in CallsIn(a, t) : e.request.tool = tool}) = 0
    BY <2>2, <2>3, Zenon
  <2>5. \A Q : Tally(state.calls[a], Q) \in Nat
    BY InitInv, TallyIsNat DEF Inv
  <2>6. \A n \in Nat : 0 <= n
    OBVIOUS
  <2>7. TalliedOf(a)
    BY <2>1, <2>3, <2>4, <2>5, <2>6, Zenon DEF TalliedOf
  <2>8. /\ MaxCalls[a] \in Nat
        /\ \A tool \in DOMAIN MaxCallsByTool[a] : MaxCallsByTool[a][tool] \in Nat
    BY LimitsAssumption
  <2>9. BoundedOf(a)
    BY <2>4, <2>6, <2>8, Zenon DEF BoundedOf
  <2>10. QED BY <2>7, <2>9
<1>2. Tallied => ToolCallBound
  BY DEF Tallied, BoundedOf, CallsIn, ToolCallBound
<1>3. QED BY <1>1, <1>2, InvHolds, TalliedStep, PTL DEF Spec

-----------------------------------------------------------------------------
(***************************************************************************)
(* Bursts                                                                  *)
(***************************************************************************)

Apart(v, w) == v >= w + VelocityWindow \/ w >= v + VelocityWindow

(* The counter an EXECUTE was authorised with, by its place in the window  *)
(* and that window's place before the counter c: the first of a window     *)
(* carries the timestamp the window starts at.                             *)
Placed(e, c) ==
  LET k == e.auth.counter
  IN  /\ k.count \in 1 .. MaxActions
      /\ k.window_start - Skew <= e.timestamp
      /\ e.timestamp < k.window_start + VelocityWindow
      /\ k.count = 1 => e.timestamp = k.window_start
      /\ c # Undefined
      /\ \/ k.window_start = c.window_start /\ k.count <= c.count
         \/ k.window_start + VelocityWindow <= c.window_start

(* What is inductive, of each agent: its EXECUTEs have taken different     *)
(* places in windows that do not overlap.                                  *)
SpacedOf(a) ==
  LET c == state.counters[a]
  IN  /\ c # Undefined => c.window_start <= clock /\ c.count >= 1
      /\ \A e \in Executed(a) : Placed(e, c)
      /\ \A e, f \in Executed(a) :
           /\ e.auth.counter = f.auth.counter => e = f
           /\ \/ e.auth.counter.window_start = f.auth.counter.window_start
              \/ Apart(e.auth.counter.window_start, f.auth.counter.window_start)

Spaced == \A a \in Agents : SpacedOf(a)

(* What the velocity module makes of a counter when it allows: places      *)
(* taken stay taken, and the next is another one.                          *)
LEMMA NextPlace ==
  ASSUME TypeOK, Spaced, NEW i \in Intents, Readable(i),
         VelocityReasons(i, state) = {}
  PROVE  LET c == state.counters[i.agent_id]
             d == CounterDelta(i, state)
         IN  /\ d \in Counter
             /\ d # Undefined
             /\ d.window_start <= clock
             /\ d.count \in 1 .. MaxActions
             /\ d.window_start - Skew <= i.timestamp
             /\ i.timestamp < d.window_start + VelocityWindow
             /\ d.count = 1 => i.timestamp = d.window_start
             /\ \A e \in Executed(i.agent_id) :
                  /\ Placed(e, d)
                  /\ e.auth.counter # d
                  /\ \/ e.auth.counter.window_start = d.window_start
                     \/ Apart(e.auth.counter.window_start, d.window_start)
<1> DEFINE a == i.agent_id
           c == state.counters[a]
           d == CounterDelta(i, state)
           t == i.timestamp
<1>1. /\ a \in Agents
      /\ state \in State
      /\ SpacedOf(a)
  BY DEF TypeOK, Spaced, Readable
<1>2. /\ c \in Counter \cup {Undefined}
      /\ d \in Counter
      /\ t \in Nat
      /\ VelocityWindow \in Nat /\ VelocityWindow > 0
      /\ MaxActions \in Nat
      /\ Skew \in Nat
      /\ clock \in Nat
      /\ Undefined \notin Counter
      /\ t <= clock
      /\ clock <= t + Skew
  <2>1. c \in Counter \cup {Undefined}
    BY <1>1 DEF State
  <2>2. d \in Counter
    BY <1>1, CounterType
  <2>3. /\ VelocityWindow \in Nat \ {0}
        /\ MaxActions \in Nat
        /\ Undefined \notin Counter
    BY LimitsAssumption DEF Counter
  <2>4. QED BY <2>1, <2>2, <2>3, IntentIsRecent
<1>3. d.count <= MaxActions
  BY <1>2 DEF VelocityReasons, Counter
<1>4. d = IF c = Undefined \/ t >= c.window_start + VelocityWindow
          THEN [window_start |-> t, count |-> 1]
          ELSE [window_start |-> c.window_start, count |-> c.count + 1]
  BY DEF CounterDelta
<1>5. /\ c # Undefined => c.window_start <= clock /\ c.count >= 1
      /\ \A e \in Executed(a) : Placed(e, c)
  BY <1>1 DEF SpacedOf
<1>6. \A e \in Executed(a) : e.auth.counter \in Counter
  BY DEF Executed, TypeOK, Acceptance, AuthId, Counter
<1> HIDE DEF c, d, t, a
<1>7. CASE c = Undefined \/ t >= c.window_start + VelocityWindow
  <2>1. d.window_start = t /\ d.count = 1
    BY <1>4, <1>7
  <2>2. ASSUME NEW e \in Executed(a)
        PROVE  /\ Placed(e, d)
               /\ e.auth.counter # d
               /\ Apart(e.auth.counter.window_start, d.window_start)
    <3> DEFINE k == e.auth.counter
    <3>1. /\ Placed(e, c)
          /\ k \in Counter
      BY <1>5, <1>6
    <3>2. /\ c # Undefined
          /\ c \in Counter
      BY <1>2, <3>1 DEF Placed
    <3>3. /\ k.window_start \in Nat
          /\ k.window_start <= c.window_start
          /\ c.window_start \in Nat
          /\ c.window_start + VelocityWindow <= t
      BY <1>2, <1>7, <3>1, <3>2 DEF Placed, Counter
    <3>4. k.window_start + VelocityWindow <= t
      BY <1>2, <3>3
    <3>5. Placed(e, d)
      BY <1>2, <2>1, <3>1, <3>4 DEF Placed
    <3>6. k # d
      BY <1>2, <2>1, <3>3, <3>4
    <3>7. QED BY <2>1, <3>4, <3>5, <3>6 DEF Apart
  <2>3. /\ d # Undefined
        /\ d.window_start <= clock
        /\ d.count \in 1 .. MaxActions
        /\ d.window_start - Skew <= t
        /\ t < d.window_start + VelocityWindow
        /\ d.count = 1 => t = d.window_start
    BY <1>2, <1>3, <2>1
  <2>4. QED BY <1>2, <2>2, <2>3 DEF d, t, a
<1>8. CASE ~(c = Undefined \/ t >= c.window_start + VelocityWindow)
  <2>1. /\ c \in Counter
        /\ c # Undefined
        /\ d.window_start = c.window_start
        /\ d.count = c.count + 1
        /\ c.window_start \in Nat
        /\ c.count \in Nat
        /\ t < c.window_start + VelocityWindow
        /\ c.window_start <= clock
        /\ c.count >= 1
    BY <1>2, <1>4, <1>5, <1>8 DEF Counter
  <2>2. ASSUME NEW e \in Executed(a)
        PROVE  /\ Placed(e, d)
               /\ e.auth.counter # d
               /\ \/ e.auth.counter.window_start = d.window_start
                  \/ Apart(e.auth.counter.window_start, d.window_start)
    <3> DEFINE k == e.auth.counter
    <3>1. /\ Placed(e, c)
          /\ k \in Counter
      BY <1>5, <1>6
    <3>2. /\ k.window_start \in Nat
          /\ k.count \in Nat
          /\ \/ k.window_start = c.window_start /\ k.count <= c.count
             \/ k.window_start + VelocityWindow <= c.window_start
      BY <3>1 DEF Placed, Counter
    <3>3. \/ k.window_start = d.window_start /\ k.count < d.count
          \/ k.window_start + VelocityWindow <= d.window_start
      BY <2>1, <3>2
    <3>4. Placed(e, d)
      <4>1. \/ k.window_start = d.window_start /\ k.count <= d.count
            \/ k.window_start + VelocityWindow <= d.window_start
        BY <2>1, <3>2
      <4>2. QED BY <1>2, <3>1, <4>1 DEF Placed
    <3>5. k # d
      BY <1>2, <2>1, <3>2, <3>3
    <3>6. QED BY <3>3, <3>4, <3>5 DEF Apart
  <2>3. /\ d # Undefined
        /\ d.window_start <= clock
        /\ d.count \in 1 .. MaxActions
        /\ d.window_start - Skew <= t
        /\ t < d.window_start + VelocityWindow
        /\ d.count = 1 => t = d.window_start
    BY <1>2, <1>3, <2>1
  <2>4. QED BY <1>2, <2>2, <2>3 DEF d, t, a
<1>9. QED BY <1>7, <1>8

(* A step that accepts no EXECUTE of an agent and moves its counter as the *)
(* velocity module does, or not at all.                                    *)
LEMMA SpacedKept ==
  ASSUME TypeOK, Spaced, NEW a \in Agents, Executed(a)' = Executed(a),
         clock' \in Nat, clock' >= clock,
         \/ state'.counters[a] = state.counters[a]
         \/ \E i \in Intents : /\ Readable(i)
                               /\ i.agent_id = a
                               /\ VelocityReasons(i, state) = {}
                               /\ state'.counters[a] = CounterDelta(i, state)
  PROVE  SpacedOf(a)'
<1>1. /\ SpacedOf(a)
      /\ clock \in Nat
      /\ state.counters[a] \in Counter \cup {Undefined}
  BY EngineAssumption DEF Spaced, TypeOK, State
<1>2. CASE state'.counters[a] = state.counters[a]
  <2>1. state.counters[a] # Undefined => state.counters[a].window_start \in Nat
    BY <1>1 DEF Counter
  <2>2. state.counters[a] # Undefined =>
          state.counters[a].window_start <= clock' /\ state.counters[a].count >= 1
    BY <1>1, <2>1 DEF SpacedOf
  <2>3. QED BY <1>1, <1>2, <2>2 DEF SpacedOf
<1>3. ASSUME NEW i \in Intents, Readable(i), i.agent_id = a,
             VelocityReasons(i, state) = {},
             state'.counters[a] = CounterDelta(i, state)
      PROVE  SpacedOf(a)'
  <2> DEFINE d == CounterDelta(i, state)
  <2>1. /\ d \in Counter
        /\ d.window_start <= clock
        /\ d.count \in 1 .. MaxActions
        /\ \A e \in Executed(a) : Placed(e, d)
    BY <1>3, NextPlace
  <2>2. d.window_start <= clock' /\ d.count >= 1
    BY <1>1, <2>1, LimitsAssumption DEF Counter
  <2>3. state'.counters[a] = d
    BY <1>3
  <2> HIDE DEF d
  <2>4. QED BY <1>1, <2>1, <2>2, <2>3 DEF SpacedOf
<1>4. QED BY <1>2, <1>3

(* An allowed EXECUTE takes the next place.                                *)
LEMMA ExecutePlaced ==
  ASSUME Inv, Spaced, NEW entry \in Entries, NEW i \in Intents, AllowExecute(entry, i)
  PROVE  Spaced'
<1> DEFINE a       == i.agent_id
           ms      == Merged(i, {}, entry[2])
           working == MergeDeltas(i, state, ms)
           d       == CounterDelta(i, state)
           acc     == out'.accepts
<1>1. /\ i.type = "EXECUTE"
      /\ state' = WithAuth(i, working)
      /\ EarlyReasons(i, state) = {}
      /\ Denying(i, state) = {}
      /\ accepted' = accepted \cup {acc}
      /\ acc.type = "EXECUTE"
      /\ acc.agent_id = a
      /\ acc.timestamp = i.timestamp
      /\ acc.auth.counter = working.counters[a]
      /\ clock' = clock
  BY DEF AllowExecute, Allow, EndCall, NewAuth
<1>2. /\ Readable(i)
      /\ state \in State
      /\ a \in Agents
      /\ TypeOK
      /\ clock \in Nat
  BY <1>1, IntentIsReadable, EngineAssumption DEF Inv, TypeOK, Readable
<1>3. VelocityReasons(i, state) = {}
  <2>1. /\ 8 \in DOMAIN Modules(i)
        /\ Modules(i)[8] = "Velocity"
    BY <1>1 DEF Modules, ExecuteModules
  <2>2. Reasons("Velocity", i, state) = {}
    BY <1>1, <2>1 DEF Denying
  <2>3. QED BY <2>2, Zenon DEF Reasons
<1>4. "Velocity" \in ms
  BY <1>1, ExecuteMergesAll
<1>5. /\ working.counters[a] = d
      /\ \A b \in Agents : b # a => working.counters[b] = state.counters[b]
  BY <1>2, <1>4 DEF MergeDeltas, State
<1>6. WithAuth(i, working).counters = working.counters
  BY DEF WithAuth, MergeDeltas
<1>7. /\ d \in Counter
      /\ d # Undefined
      /\ d.window_start <= clock
      /\ d.count \in 1 .. MaxActions
      /\ d.window_start - Skew <= i.timestamp
      /\ i.timestamp < d.window_start + VelocityWindow
      /\ d.count = 1 => i.timestamp = d.window_start
      /\ \A e \in Executed(a) :
           /\ Placed(e, d)
           /\ e.auth.counter # d
           /\ \/ e.auth.counter.window_start = d.window_start
              \/ Apart(e.auth.counter.window_start, d.window_start)
  BY <1>2, <1>3, NextPlace
<1> HIDE DEF ms, working, d, acc
<1>8. Executed(a)' = Executed(a) \cup {acc}
  BY <1>1 DEF Executed
<1>9. /\ state'.counters[a] = d
      /\ acc.auth.counter = d
      /\ SpacedOf(a)
  BY <1>1, <1>2, <1>5, <1>6 DEF Spaced
<1>10. d.window_start \in Nat /\ d.count \in Nat
  BY <1>7 DEF Counter
<1>11. Placed(acc, d)
  BY <1>1, <1>7, <1>9, <1>10 DEF Placed
<1>12. SpacedOf(a)'
  <2>1. d.window_start <= clock' /\ d.count >= 1
    BY <1>1, <1>7, <1>10
  <2>2. \A e \in Executed(a)' : Placed(e, d)
    BY <1>7, <1>8, <1>11
  <2>3. ASSUME NEW e \in Executed(a)', NEW f \in Executed(a)'
        PROVE  /\ e.auth.counter = f.auth.counter => e = f
               /\ \/ e.auth.counter.window_start = f.auth.counter.window_start
                  \/ Apart(e.auth.counter.window_start, f.auth.counter.window_start)
    <3>1. CASE e \in Executed(a) /\ f \in Executed(a)
      BY <1>9, <3>1 DEF SpacedOf
    <3>2. CASE e = acc /\ f \in Executed(a)
      BY <1>7, <1>9, <3>2 DEF Apart
    <3>3. CASE e \in Executed(a) /\ f = acc
      BY <1>7, <1>9, <3>3
    <3>4. CASE e = acc /\ f = acc
      BY <3>4
    <3>5. QED BY <1>8, <2>3, <3>1, <3>2, <3>3, <3>4
  <2>4. QED BY <1>9, <2>1, <2>2, <2>3 DEF SpacedOf
<1>13. ASSUME NEW b \in Agents, b # a PROVE SpacedOf(b)'
  <2>1. Executed(b)' = Executed(b)
    BY <1>1, <1>13 DEF Executed
  <2>2. state'.counters[b] = state.counters[b]
    BY <1>1, <1>5, <1>6, <1>13
  <2>3. clock' \in Nat /\ clock' >= clock
    BY <1>1, <1>2
  <2>4. QED BY <1>2, <2>1, <2>2, <2>3, SpacedKept
<1>14. QED BY <1>12, <1>13 DEF Spaced

(* Every step keeps the places apart.                                      *)
LEMMA SpacedStep == Inv /\ Spaced /\ [Next]_vars => Spaced'
<1> SUFFICES ASSUME Inv, Spaced, [Next]_vars PROVE Spaced'
  OBVIOUS
<1>1. /\ TypeOK
      /\ state \in State
      /\ clock \in Nat
  BY EngineAssumption DEF Inv, TypeOK
<1>2. ASSUME \A a \in Agents : Executed(a)' = Executed(a),
             state'.counters = state.counters,
             clock' \in {clock, clock + 1}
      PROVE  Spaced'
  <2>1. clock' \in Nat /\ clock' >= clock
    BY <1>1, <1>2
  <2>2. \A a \in Agents : SpacedOf(a)'
    BY <1>1, <1>2, <2>1, SpacedKept
  <2>3. QED BY <2>2 DEF Spaced
<1>3. ASSUME NEW entry \in Entries, NEW i \in Intents, RejectIntent(entry, i)
      PROVE  Spaced'
  <2>1. /\ state'.counters = state.counters
        /\ clock' \in {clock, clock + 1}
        /\ accepted' = accepted
    BY <1>3 DEF RejectIntent, history, Deny, EndCall
  <2>2. QED BY <1>2, <2>1 DEF Executed
<1>4. ASSUME NEW entry \in Entries, NEW i \in Intents,
             DenyIntent(entry, i) \/ FailIntent(entry, i)
      PROVE  Spaced'
  <2> DEFINE ms == Merged(i, Denying(i, state), entry[2])
  <2>1. /\ EarlyReasons(i, state) = {}
        /\ state' = MergeDeltas(i, state, ms)
        /\ accepted' = accepted
    BY <1>4 DEF DenyIntent, FailIntent
  <2>2. clock' = clock
    <3>1. ASSUME NEW reasons, NEW events, Deny(entry, reasons, events)
          PROVE  clock' = clock
      BY <3>1 DEF Deny, EndCall
    <3>2. QED BY <1>4, <3>1, Zenon DEF DenyIntent, FailIntent
  <2>3. Readable(i)
    BY <1>1, <2>1, IntentIsReadable
  <2>4. ASSUME NEW a \in Agents PROVE SpacedOf(a)'
    <3>1. IF a = i.agent_id /\ "Velocity" \in ms
          THEN state'.counters[a] = CounterDelta(i, state) /\ VelocityReasons(i, state) = {}
          ELSE state'.counters[a] = state.counters[a]
      BY <1>1, <2>1, <2>3, MergedCounters
    <3>2. Executed(a)' = Executed(a)
      BY <2>1 DEF Executed
    <3>3. clock' \in Nat /\ clock' >= clock
      BY <1>1, <2>2
    <3> HIDE DEF ms
    <3>4. \/ state'.counters[a] = state.counters[a]
          \/ \E j \in Intents : /\ Readable(j)
                                /\ j.agent_id = a
                                /\ VelocityReasons(j, state) = {}
                                /\ state'.counters[a] = CounterDelta(j, state)
      BY <2>3, <3>1, Zenon
    <3>5. QED BY <1>1, <3>2, <3>3, <3>4, SpacedKept
  <2>5. QED BY <2>4 DEF Spaced
<1>5. ASSUME NEW entry \in Entries, NEW i \in Intents, AllowRelease(entry, i)
      PROVE  Spaced'
  <2> DEFINE ms == Merged(i, {}, entry[2])
  <2>1. /\ i.type = "RELEASE"
        /\ state' = MergeDeltas(i, state, ms)
        /\ accepted' = accepted \cup {out'.accepts}
        /\ out'.accepts.type # "EXECUTE"
        /\ clock' = clock
    BY <1>5 DEF AllowRelease, Allow, WithAuth, EndCall
  <2>2. "Velocity" \notin ms
    BY <2>1, ReleaseMerges
  <2> HIDE DEF ms
  <2>3. state'.counters = state.counters
    BY <2>1, <2>2 DEF MergeDeltas
  <2>4. \A a \in Agents : Executed(a)' = Executed(a)
    BY <2>1 DEF Executed
  <2>5. QED BY <1>2, <2>1, <2>3, <2>4
<1>6. CASE Tick \/ SetKillSwitch
  <2>1. /\ state'.counters = state.counters
        /\ accepted' = accepted
        /\ clock' \in {clock, clock + 1}
    BY <1>1, <1>6 DEF Tick, SetKillSwitch, State, history
  <2>2. QED BY <1>2, <2>1 DEF Executed
<1>7. CASE UNCHANGED vars
  <2>1. QED BY <1>2, <1>7 DEF vars, history, Executed
<1>8. QED BY <1>3, <1>4, <1>5, <1>6, <1>7, ExecutePlaced DEF Next, Evaluate

(* In an interval shorter by the skew than a window there are places of    *)
(* two windows at most, and not the first of both.                         *)
LEMMA PlacesOfBurst ==
  ASSUME Inv, NEW a \in Agents, SpacedOf(a), NEW t \in Nat,
         NEW burst, burst # {},
         burst = {e \in Executed(a) :
                    e.timestamp >= t /\ e.timestamp < t + VelocityWindow - Skew}
  PROVE  Cardinality(burst) < 2 * MaxActions
<1> DEFINE c    == state.counters[a]
           W(e) == e.auth.counter.window_start
           N(e) == e.auth.counter.count
<1>1. /\ VelocityWindow \in Nat /\ VelocityWindow > 0
      /\ MaxActions \in Nat
      /\ Skew \in Nat
  BY LimitsAssumption, EngineAssumption
<1>2. ASSUME NEW e \in burst
      PROVE  /\ e \in Executed(a)
             /\ W(e) \in Nat
             /\ N(e) \in 1 .. MaxActions
             /\ t - VelocityWindow < W(e)
             /\ W(e) < t + VelocityWindow
             /\ N(e) = 1 => /\ W(e) >= t
                            /\ W(e) < t + VelocityWindow - Skew
             /\ e.auth.counter = [window_start |-> W(e), count |-> N(e)]
  <2>1. /\ e \in Executed(a)
        /\ e.timestamp >= t
        /\ e.timestamp < t + VelocityWindow - Skew
    BY <1>2
  <2>2. e.auth.counter \in [window_start : Nat, count : Nat] /\ e.timestamp \in Nat
    BY <2>1 DEF Executed, Inv, TypeOK, Acceptance, AuthId
  <2>3. Placed(e, c)
    BY <2>1 DEF SpacedOf
  <2>4. /\ N(e) \in 1 .. MaxActions
        /\ W(e) - Skew <= e.timestamp
        /\ e.timestamp < W(e) + VelocityWindow
        /\ N(e) = 1 => e.timestamp = W(e)
    BY <2>3 DEF Placed
  <2>5. W(e) \in Nat
    BY <2>2
  <2>6. e.auth.counter = [window_start |-> W(e), count |-> N(e)]
    BY <2>2
  <2> HIDE DEF W, N
  <2>7. QED BY <1>1, <2>1, <2>2, <2>4, <2>5, <2>6
<1>3. ASSUME NEW e \in burst, NEW f \in burst
      PROVE  /\ W(e) = W(f) /\ N(e) = N(f) => e = f
             /\ W(e) = W(f) \/ Apart(W(e), W(f))
  <2>1. e \in Executed(a) /\ f \in Executed(a)
    BY <1>2
  <2>2. /\ e.auth.counter = f.auth.counter => e = f
        /\ W(e) = W(f) \/ Apart(W(e), W(f))
    BY <2>1 DEF SpacedOf
  <2>3. W(e) = W(f) /\ N(e) = N(f) => e.auth.counter = f.auth.counter
    BY <1>2
  <2> HIDE DEF W, N
  <2>4. QED BY <2>2, <2>3
<1>4. PICK e0 \in burst : TRUE
  OBVIOUS
<1>5. PICK e1 \in burst : (\E f \in burst : W(f) # W(e0)) => W(e1) # W(e0)
  BY <1>4
<1> DEFINE w0 == W(e0)
           w1 == W(e1)
           h  == [e \in burst |-> <<W(e), N(e)>>]
<1> HIDE DEF W, N
<1>6. ASSUME NEW e \in burst PROVE W(e) \in {w0, w1}
  <2>1. /\ w0 \in Nat /\ w1 \in Nat /\ W(e) \in Nat
        /\ t - VelocityWindow < w0 /\ w0 < t + VelocityWindow
        /\ t - VelocityWindow < w1 /\ w1 < t + VelocityWindow
        /\ t - VelocityWindow < W(e) /\ W(e) < t + VelocityWindow
    BY <1>2, <1>4, <1>5
  <2>2. /\ W(e) = w0 \/ Apart(W(e), w0)
        /\ W(e) = w1 \/ Apart(W(e), w1)
        /\ w1 = w0 \/ Apart(w1, w0)
    BY <1>3, <1>4, <1>5
  <2>3. W(e) # w0 => w1 # w0
    BY <1>5
  <2> HIDE DEF w0, w1
  <2>4. QED BY <1>1, <2>1, <2>2, <2>3 DEF Apart
<1>7. MaxActions >= 1
  <2>1. N(e0) \in 1 .. MaxActions
    BY <1>2, <1>4
  <2>2. QED BY <1>1, <2>1
<1>8. CASE w0 = w1
  <2> DEFINE g == [e \in burst |-> N(e)]
             M == 1 .. MaxActions
  <2>1. g \in [burst -> M]
    BY <1>2
  <2>2. \A e, f \in burst : g[e] = g[f] => e = f
    BY <1>3, <1>6, <1>8
  <2> HIDE DEF g
  <2>3. g \in Injection(burst, M)
    BY <2>1, <2>2, Fun_IsInj
  <2>4. IsFiniteSet(M) /\ Cardinality(M) = MaxActions
    BY <1>1, <1>7, FS_Interval
  <2> HIDE DEF M
  <2>5. IsFiniteSet(burst) /\ Cardinality(burst) <= MaxActions
    BY <2>3, <2>4, FS_Injection
  <2>6. Cardinality(burst) \in Nat
    BY <2>5, FS_CardinalityType
  <2>7. QED BY <1>1, <1>7, <2>5, <2>6
<1>9. CASE w0 # w1
  <2> DEFINE w == IF w0 < w1 THEN w0 ELSE w1
             v == IF w0 < w1 THEN w1 ELSE w0
             y == IF w < t THEN <<w, 1>> ELSE <<v, 1>>
             P == {w0, w1} \X (1 .. MaxActions)
  <2>1. /\ w0 \in Nat /\ w1 \in Nat
        /\ Apart(w0, w1)
    BY <1>2, <1>3, <1>4, <1>5, <1>9
  <2>2. /\ w \in {w0, w1} /\ v \in {w0, w1}
        /\ w \in Nat /\ v \in Nat
        /\ v >= w + VelocityWindow
    <3> HIDE DEF w0, w1
    <3>1. QED BY <1>1, <2>1 DEF Apart
  <2>3. y \in P
    BY <1>7, <2>2
  <2>4. ASSUME NEW e \in burst PROVE <<W(e), N(e)>> \in P \ {y}
    <3>1. <<W(e), N(e)>> \in P
      BY <1>2, <1>6
    <3>2. N(e) = 1 => W(e) >= t /\ W(e) < t + VelocityWindow - Skew
      BY <1>2, <2>4
    <3>3. ~(N(e) = 1 /\ W(e) = w /\ w < t)
      <4> HIDE DEF w
      <4>1. QED BY <2>2, <3>2
    <3>4. ~(N(e) = 1 /\ W(e) = v /\ ~(w < t))
      <4> HIDE DEF w, v
      <4>1. QED BY <1>1, <2>2, <3>2
    <3>5. <<W(e), N(e)>> # y
      <4> HIDE DEF w, v
      <4>1. QED BY <3>3, <3>4
    <3> HIDE DEF P, y
    <3>6. QED BY <3>1, <3>5
  <2>5. h \in [burst -> P \ {y}]
    BY <2>4
  <2>6. \A e, f \in burst : h[e] = h[f] => e = f
    BY <1>3
  <2> HIDE DEF h, P, y
  <2>7. h \in Injection(burst, P \ {y})
    BY <2>5, <2>6, Fun_IsInj
  <2>8. IsFiniteSet(P) /\ Cardinality(P) = 2 * MaxActions
    <3>1. IsFiniteSet({w0, w1}) /\ Cardinality({w0, w1}) = 2
      <4>1. IsFiniteSet({w0}) /\ Cardinality({w0}) = 1
        BY FS_Singleton
      <4>2. /\ IsFiniteSet({w0} \cup {w1})
            /\ Cardinality({w0} \cup {w1}) = Cardinality({w0}) + 1
        BY <1>9, <4>1, FS_AddElement
      <4>3. {w0} \cup {w1} = {w0, w1}
        OBVIOUS
      <4>4. QED BY <4>1, <4>2, <4>3
    <3>2. IsFiniteSet(1 .. MaxActions) /\ Cardinality(1 .. MaxActions) = MaxActions
      BY <1>1, <1>7, FS_Interval
    <3>3. QED BY <3>1, <3>2, FS_Product DEF P
  <2>9. IsFiniteSet(P \ {y}) /\ Cardinality(P \ {y}) = Cardinality(P) - 1
    BY <2>3, <2>8, FS_RemoveElement
  <2>10. /\ IsFiniteSet(burst)
         /\ Cardinality(burst) <= Cardinality(P \ {y})
    BY <2>7, <2>9, FS_Injection
  <2>11. Cardinality(burst) \in Nat
    BY <2>10, FS_CardinalityType
  <2>12. QED BY <1>1, <2>8, <2>9, <2>10, <2>11
<1>10. QED BY <1>8, <1>9

(* An interval as long as the velocity window less the skew sees fewer     *)
(* than twice max_actions EXECUTEs of an agent, and this for every window, *)
(* limit and skew: a burst may straddle two of the fixed windows, but not  *)
(* with both of the EXECUTEs that opened them (VelocityModule.ts).         *)
THEOREM BurstsBounded == Spec => []VelocityBurst
<1>1. Init => Spaced
  <2> SUFFICES ASSUME Init, NEW a \in Agents PROVE SpacedOf(a)
    BY DEF Spaced
  <2>1. Executed(a) = {} /\ state.counters[a] = Undefined
    BY DEF Init, InitState, Executed
  <2>2. QED BY <2>1 DEF SpacedOf
<1>2. Inv /\ Spaced => VelocityBurst
  <2> SUFFICES ASSUME Inv, Spaced, NEW a \in Agents, NEW t \in 0 .. MaxTime
               PROVE  LET burst == {e \in Executed(a) :
                            e.timestamp >= t /\ e.timestamp < t + VelocityWindow - Skew}
                      IN  burst = {} \/ Cardinality(burst) < 2 * MaxActions
    BY DEF VelocityBurst
  <2>1. t \in Nat /\ SpacedOf(a)
    BY EngineAssumption DEF Spaced
  <2>2. QED BY <2>1, PlacesOfBurst
<1>3. QED BY <1>1, <1>2, InvHolds, SpacedStep, PTL DEF Spec
=============================================================================
