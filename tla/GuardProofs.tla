----------------------------- MODULE GuardProofs -----------------------------
(***************************************************************************)
(* What Guard.tla promises, for any number of calls that overlap, fail and *)
(* are cut off by crashes.  Of the audit adapter: no guard and no client   *)
(* appends an event twice, none is forgotten, and no callback runs ahead   *)
(* of the events of its decision.  Of the state: what is stored belongs to *)
(* whole calls.  When calls do not overlap, each guard and each client     *)
(* appends in the order of the log; and if, besides, neither a save nor    *)
(* the process fails, the guard implements GuardPromise.tla, charges the   *)
(* state exactly what was served and lets no more take effect than the     *)
(* budget.                                                                 *)
(***************************************************************************)
EXTENDS GuardService, PolicyPipelineProofs, FiniteSetTheorems

EventTypes == {"INTENT_RECEIVED", "DECISION", "AUTH_EMITTED"}

Busy == {"loaded", "appending", "appended", "executing", "executed", "saving", "saved"}

(***************************************************************************)
(* The inductive invariant                                                 *)
(***************************************************************************)

(* A call that is under way holds a state, and an intent to evaluate.      *)
Holding ==
  /\ DOMAIN intent = Calls
  /\ \A c \in Calls :
       /\ pc[c] \in Busy => held[c] \in State
       /\ pc[c] = "loaded" /\ intent[c].agent_id \in Agents => Readable(intent[c])

(* The log numbers its events.                                             *)
LogNumbered == \A k \in DOMAIN log : log[k].run = crashes /\ log[k].position = k

(* An event of an earlier process, or among the first of this one.         *)
NumberedBy(e, run, last) ==
  \/ e.run < run
  \/ e.run = run /\ e.position <= last

(* What a guard or a client appends is before its cursor.                  *)
TrailNumbered == \A k \in DOMAIN trail : NumberedBy(trail[k], crashes, cursor[by[k]])

(* What a call has to append is before its cursor, has not been appended   *)
(* for its guard or client, is there once, and no other call has it.       *)
BatchNew ==
  \A c \in Calls :
    /\ \A k \in DOMAIN batch[c] :
         /\ NumberedBy(batch[c][k], crashes, cursor[ObjectOf[c]])
         /\ \A j \in DOMAIN trail : by[j] = ObjectOf[c] => trail[j] # batch[c][k]
         /\ \A d \in Calls \ {c} : ObjectOf[d] = ObjectOf[c] =>
              \A j \in DOMAIN batch[d] : batch[d][j] # batch[c][k]
    /\ \A j, k \in DOMAIN batch[c] : batch[c][j] = batch[c][k] => j = k

(* Only a call that is appending has anything to append.                   *)
BatchPending == \A c \in Calls : pc[c] # "appending" => batch[c] = << >>

(* A call that has not been evaluated has left no trace.                   *)
NoTraceYet ==
  \A c \in Calls : pc[c] \in {"idle", "loaded"} =>
    /\ c \notin allowed
    /\ \A k \in DOMAIN log : log[k].call # c

Audited(c) ==
  \A type \in EventTypes : \E k \in DOMAIN trail : trail[k].call = c /\ trail[k].type = type

InBatch(c) ==
  \A type \in EventTypes : \E k \in DOMAIN batch[c] : batch[c][k].call = c /\ batch[c][k].type = type

(* The events of an allowed call are about to be appended, or are.         *)
AllowedIsAudited ==
  \A c \in allowed :
    /\ pc[c] = "appending" => InBatch(c)
    /\ pc[c] = "appended" => Audited(c)

Inv ==
  /\ TypeOK
  /\ Holding
  /\ LogNumbered
  /\ TrailNumbered
  /\ BatchNew
  /\ BatchPending
  /\ NoTraceYet
  /\ AllowedIsAudited
  /\ ExecutedIsAudited
  /\ AuditedOnce
  /\ NoEventDropped

(***************************************************************************)
(* What an evaluation returns                                              *)
(***************************************************************************)

(* The events of an evaluation; on ALLOW there are all three.              *)
LEMMA EvaluationEvents ==
  ASSUME NEW i, NEW s, NEW mode
  PROVE  LET out == Evaluation(i, s, mode)
         IN  /\ out.events \in Seq(EventTypes)
             /\ out.decision = "ALLOW" =>
                  out.events = <<"INTENT_RECEIVED", "DECISION", "AUTH_EMITTED">>
<1> DEFINE out     == Evaluation(i, s, mode)
           working == MergeDeltas(i, s, Merged(i, Denying(i, s), mode))
<1>1. \/ \E next : out = [decision |-> "DENY", next |-> next, events |-> << >>]
      \/ \E next : out = [decision |-> "DENY", next |-> next,
                          events |-> <<"INTENT_RECEIVED", "DECISION">>]
      \/ \E next : out = [decision |-> "DENY", next |-> next, events |-> <<"INTENT_RECEIVED">>]
      \/ \E next : out = [decision |-> "ALLOW", next |-> next,
                          events |-> <<"INTENT_RECEIVED", "DECISION", "AUTH_EMITTED">>]
  <2> HIDE DEF working
  <2>1. out = LET Denied(next, events) == [decision |-> "DENY", next |-> next, events |-> events]
              IN  IF EarlyReasons(i, s) # {} THEN Denied(s, << >>)
                  ELSE IF Denying(i, s) # {} THEN Denied(working, <<"INTENT_RECEIVED", "DECISION">>)
                  ELSE IF ~(Hashable(working) /\ CanSign) THEN Denied(working, <<"INTENT_RECEIVED">>)
                  ELSE [ decision |-> "ALLOW",
                         next     |-> WithAuth(i, working),
                         events   |-> <<"INTENT_RECEIVED", "DECISION", "AUTH_EMITTED">> ]
    BY Zenon DEF Evaluation, working
  <2> HIDE DEF out
  <2>2. QED BY <2>1
<1> HIDE DEF out
<1>2. out.events \in Seq(EventTypes)
  <2>1. out.events \in { << >>, <<"INTENT_RECEIVED", "DECISION">>, <<"INTENT_RECEIVED">>,
                         <<"INTENT_RECEIVED", "DECISION", "AUTH_EMITTED">> }
    BY <1>1
  <2>2. /\ << >> \in Seq(EventTypes)
        /\ <<"INTENT_RECEIVED">> \in Seq(EventTypes)
        /\ <<"INTENT_RECEIVED", "DECISION">> \in Seq(EventTypes)
        /\ <<"INTENT_RECEIVED", "DECISION", "AUTH_EMITTED">> \in Seq(EventTypes)
    BY DEF EventTypes
  <2>3. QED BY <2>1, <2>2
<1>3. out.decision = "ALLOW" =>
        out.events = <<"INTENT_RECEIVED", "DECISION", "AUTH_EMITTED">>
  BY <1>1
<1>4. QED BY <1>2, <1>3 DEF out

(***************************************************************************)
(* The steps                                                               *)
(***************************************************************************)

Stages == Ended \cup Busy \cup {"idle"}

(* The events of the log are of calls.                                     *)
LEMMA LoggedEvent ==
  ASSUME TypeOK, NEW e \in ToSet(log)
  PROVE  e.call \in Calls
<1>1. PICK k \in DOMAIN log : e = log[k]
  BY DEF ToSet
<1>2. log \in Seq(AuditEvent)
  BY DEF TypeOK
<1>3. e \in AuditEvent
  BY <1>1, <1>2, ElementOfSeq
<1>4. QED BY <1>3 DEF AuditEvent

(* A call goes to another stage and appends nothing.                       *)
LEMMA CallMoves ==
  ASSUME Inv, NEW c \in Calls, NEW stage \in Stages \ {"idle", "appending", "appended"},
         pc[c] \notin {"appending", "failed"},
         pc' = [pc EXCEPT ![c] = stage],
         stage = "loaded" => pc[c] = "idle",
         stage = "executing" => Audited(c),
         UNCHANGED <<trail, log, cursor, batch, allowed, crashes, by>>,
         effects' = effects \/ (effects' = effects \cup {c} /\ Audited(c)),
         store' \in State,
         held' \in [Calls -> State \cup {None}],
         \A d \in Calls \ {c} : held'[d] = held[d] /\ intent'[d] = intent[d],
         stage \in Busy => held'[c] \in State,
         DOMAIN intent' = Calls,
         stage = "loaded" /\ intent'[c].agent_id \in Agents => Readable(intent'[c])
  PROVE  Inv'
<1>1. /\ \A d \in Calls \ {c} : pc'[d] = pc[d]
      /\ pc'[c] = stage
  BY DEF Inv, TypeOK
<1>2. TypeOK'
  <2>1. pc' \in [Calls -> Ended \cup { "idle", "loaded", "appending", "appended",
                                        "executing", "executed", "saving", "saved" }]
    BY DEF Inv, TypeOK, Stages, Busy
  <2>2. {allowed, effects}' \subseteq SUBSET Calls
    BY DEF Inv, TypeOK
  <2>3. QED BY <2>1, <2>2 DEF Inv, TypeOK
<1>3. Holding'
  BY <1>1 DEF Inv, Holding
<1>4. LogNumbered' /\ TrailNumbered' /\ BatchNew' /\ AuditedOnce'
  BY DEF Inv, LogNumbered, TrailNumbered, BatchNew, NumberedBy, AuditedOnce
<1>5. BatchPending'
  BY <1>1 DEF Inv, BatchPending
<1>6. NoTraceYet'
  BY <1>1 DEF Inv, NoTraceYet, Stages
<1>7. AllowedIsAudited'
  BY <1>1 DEF Inv, AllowedIsAudited, Audited, InBatch
<1>8. ExecutedIsAudited'
  BY <1>1 DEF Inv, ExecutedIsAudited, Audited, EventTypes
<1>9. NoEventDropped'
  <2> SUFFICES ASSUME NEW e \in ToSet(log)
               PROVE  e \in ToSet(trail) \/ e \in ToSet(batch[e.call]) \/ pc'[e.call] = "failed"
    BY DEF NoEventDropped
  <2>1. e \in ToSet(trail) \/ e \in ToSet(batch[e.call]) \/ pc[e.call] = "failed"
    BY DEF Inv, NoEventDropped
  <2>2. e.call \in Calls
    BY LoggedEvent DEF Inv
  <2>3. QED BY <1>1, <2>1, <2>2
<1>10. QED BY <1>2, <1>3, <1>4, <1>5, <1>6, <1>7, <1>8, <1>9 DEF Inv

(* An evaluation numbers its events behind the log and hands its call what *)
(* the log then holds behind the cursor, these events included.            *)
LEMMA EvaluationCollects ==
  ASSUME Inv, NEW c \in Calls, Evaluate(c)
  PROVE  \E new \in Seq(AuditEvent), got \in Seq(AuditEvent) :
           /\ log' = log \o new
           /\ cursor' = [cursor EXCEPT ![ObjectOf[c]] = Len(log) + Len(new)]
           /\ batch' = [batch EXCEPT ![c] = got]
           /\ \A k \in 1 .. Len(new) : /\ new[k].call = c
                                       /\ new[k].run = crashes
                                       /\ new[k].position = Len(log) + k
           /\ Len(got) = Len(log) + Len(new) - cursor[ObjectOf[c]]
           /\ \A k \in 1 .. Len(got) : /\ got[k].run = crashes
                                       /\ got[k].position = cursor[ObjectOf[c]] + k
           /\ \A k \in 1 .. Len(new) : new[k] \in ToSet(got)
           /\ \/ allowed' = allowed
              \/ /\ allowed' = allowed \cup {c}
                 /\ \A type \in EventTypes : \E k \in 1 .. Len(new) : new[k].type = type
<1> DEFINE out  == Evaluation(intent[c], held[c], "fail-fast")
           new  == [k \in DOMAIN out.events |-> Event(c, out.events[k], Len(log) + k)]
           from == cursor[ObjectOf[c]]
           got  == CollectNewEvents(log', from)
<1>1. /\ out.events \in Seq(EventTypes)
      /\ out.decision = "ALLOW" => out.events = <<"INTENT_RECEIVED", "DECISION", "AUTH_EMITTED">>
  BY EvaluationEvents
<1>2. /\ log' = log \o new
      /\ batch' = [batch EXCEPT ![c] = got]
      /\ cursor' = [cursor EXCEPT ![ObjectOf[c]] = Len(log')]
      /\ allowed' = IF out.decision = "ALLOW" THEN allowed \cup {c} ELSE allowed
  BY DEF Evaluate
<1>3. /\ log \in Seq(AuditEvent) /\ Len(log) \in Nat /\ DOMAIN log = 1 .. Len(log)
      /\ from \in 0 .. Len(log) /\ crashes \in 0 .. MaxCrashes
  <2>1. ObjectOf[c] \in Objects
    BY DEF Objects
  <2>2. QED BY <2>1, LenProperties DEF Inv, TypeOK
<1> HIDE DEF out, from
<1>4. DOMAIN out.events = 1 .. Len(out.events) /\ Len(out.events) \in Nat
  BY <1>1, LenProperties
<1>5. \A k \in 1 .. Len(out.events) : new[k] = Event(c, out.events[k], Len(log) + k)
  BY <1>4
<1>6. \A k \in 1 .. Len(out.events) : new[k] \in AuditEvent
  <2> SUFFICES ASSUME NEW k \in 1 .. Len(out.events)
               PROVE  Event(c, out.events[k], Len(log) + k) \in AuditEvent
    BY <1>5
  <2>1. out.events[k] \in EventTypes
    BY <1>1, ElementOfSeq
  <2>2. Len(log) + k \in Nat \ {0}
    BY <1>3, <1>4
  <2>3. QED BY <1>3, <2>1, <2>2 DEF Event, AuditEvent, EventTypes
<1>7. new \in [1 .. Len(out.events) -> AuditEvent]
  BY <1>4, <1>6
<1>8. new \in Seq(AuditEvent) /\ Len(new) = Len(out.events)
  <2> HIDE DEF new
  <2>1. new \in Seq(AuditEvent)
    BY <1>4, <1>7, SeqDef
  <2>2. DOMAIN new = 1 .. Len(out.events)
    BY <1>7
  <2>3. QED BY <1>4, <2>1, <2>2, LenProperties
<1>9. \A k \in 1 .. Len(new) : /\ new[k].call = c
                               /\ new[k].run = crashes
                               /\ new[k].position = Len(log) + k
                               /\ new[k].type = out.events[k]
  BY <1>5, <1>8 DEF Event
<1> HIDE DEF new
<1>10. /\ Len(log') = Len(log) + Len(new) /\ Len(new) \in Nat
       /\ \A k \in 1 .. Len(log) + Len(new) :
            /\ log'[k] = IF k <= Len(log) THEN log[k] ELSE new[k - Len(log)]
            /\ log'[k] \in AuditEvent
            /\ log'[k].run = crashes /\ log'[k].position = k
  <2>1. /\ Len(log \o new) = Len(log) + Len(new) /\ Len(new) \in Nat
        /\ log \o new \in Seq(AuditEvent)
        /\ \A k \in 1 .. Len(log) + Len(new) :
             (log \o new)[k] = IF k <= Len(log) THEN log[k] ELSE new[k - Len(log)]
    BY <1>3, <1>8, ConcatProperties, LenProperties
  <2>2. ASSUME NEW k \in 1 .. Len(log) + Len(new)
        PROVE  log'[k] \in AuditEvent
    BY <1>2, <2>1, ElementOfSeq
  <2>3. ASSUME NEW k \in 1 .. Len(log) + Len(new)
        PROVE  log'[k].run = crashes /\ log'[k].position = k
    <3>1. CASE k <= Len(log)
      BY <1>2, <1>3, <2>1, <3>1 DEF Inv, LogNumbered
    <3>2. CASE ~(k <= Len(log))
      <4>1. k - Len(log) \in 1 .. Len(new) /\ Len(log) + (k - Len(log)) = k
        BY <1>3, <2>1, <3>2
      <4>2. QED BY <1>2, <1>9, <2>1, <3>2, <4>1
    <3>3. QED BY <3>1, <3>2
  <2>4. QED BY <1>2, <2>1, <2>2, <2>3
<1>11. /\ got \in Seq(AuditEvent)
       /\ Len(got) = Len(log) + Len(new) - from
       /\ \A k \in 1 .. Len(got) : got[k] = log'[from + k]
  <2>1. \A k \in from + 1 .. Len(log') : log'[k] \in AuditEvent
    BY <1>3, <1>10
  <2>2. from + 1 \in Int /\ Len(log') \in Int /\ from <= Len(log')
    BY <1>3, <1>10
  <2>3. /\ SubSeq(log', from + 1, Len(log')) \in Seq(AuditEvent)
        /\ Len(SubSeq(log', from + 1, Len(log')))
             = IF from + 1 <= Len(log') THEN Len(log') - (from + 1) + 1 ELSE 0
        /\ \A k \in 1 .. Len(log') - (from + 1) + 1 :
             SubSeq(log', from + 1, Len(log'))[k] = log'[from + 1 + k - 1]
    BY <2>1, <2>2, SubSeqProperties
  <2>4. got = SubSeq(log', from + 1, Len(log'))
    BY DEF CollectNewEvents
  <2> HIDE DEF got
  <2>5. Len(got) = Len(log') - from
    BY <1>3, <1>10, <2>2, <2>3, <2>4
  <2>6. ASSUME NEW k \in 1 .. Len(got)
        PROVE  got[k] = log'[from + k]
    <3>1. k \in 1 .. Len(log') - (from + 1) + 1 /\ from + 1 + k - 1 = from + k
      BY <1>3, <1>10, <2>5
    <3>2. got[k] = log'[from + 1 + k - 1]
      BY <2>3, <2>4, <3>1
    <3>3. QED BY <3>1, <3>2
  <2>7. Len(got) = Len(log) + Len(new) - from
    <3>1. /\ Len(log') = Len(log) + Len(new)
          /\ Len(log) \in Int /\ Len(new) \in Int /\ from \in Int
      BY <1>3, <1>10
    <3>2. QED BY <2>5, <3>1
  <2>8. got \in Seq(AuditEvent)
    BY <2>3, <2>4
  <2>9. QED BY <2>6, <2>7, <2>8
<1> HIDE DEF got
<1>12. \A k \in 1 .. Len(got) : got[k].run = crashes /\ got[k].position = from + k
  <2> SUFFICES ASSUME NEW k \in 1 .. Len(got)
               PROVE  got[k].run = crashes /\ got[k].position = from + k
    OBVIOUS
  <2>1. from + k \in 1 .. Len(log) + Len(new)
    BY <1>3, <1>10, <1>11
  <2>2. QED BY <1>10, <1>11, <2>1
<1>13. \A k \in 1 .. Len(new) : new[k] \in ToSet(got)
  <2> SUFFICES ASSUME NEW k \in 1 .. Len(new)
               PROVE  new[k] \in ToSet(got)
    OBVIOUS
  <2>1. /\ Len(log) + k - from \in 1 .. Len(got) /\ from + (Len(log) + k - from) = Len(log) + k
        /\ Len(log) + k \in 1 .. Len(log) + Len(new) /\ ~(Len(log) + k <= Len(log))
        /\ Len(log) + k - Len(log) = k
    BY <1>3, <1>10, <1>11
  <2>2. new[k] = got[Len(log) + k - from]
    BY <1>10, <1>11, <2>1
  <2>3. DOMAIN got = 1 .. Len(got)
    BY <1>11, LenProperties
  <2>4. QED BY <2>1, <2>2, <2>3 DEF ToSet
<1>14. out.decision = "ALLOW" => \A type \in EventTypes : \E k \in 1 .. Len(new) : new[k].type = type
  <2> SUFFICES ASSUME out.decision = "ALLOW", NEW type \in EventTypes
               PROVE  \E k \in 1 .. Len(new) : new[k].type = type
    OBVIOUS
  <2>1. Len(new) = 3 /\ out.events = <<"INTENT_RECEIVED", "DECISION", "AUTH_EMITTED">>
    BY <1>1, <1>8
  <2>2. \E k \in 1 .. 3 : out.events[k] = type
    BY <2>1 DEF EventTypes
  <2>3. QED BY <1>9, <2>1, <2>2
<1>15. /\ log' = log \o new
       /\ cursor' = [cursor EXCEPT ![ObjectOf[c]] = Len(log) + Len(new)]
       /\ batch' = [batch EXCEPT ![c] = got]
       /\ Len(got) = Len(log) + Len(new) - cursor[ObjectOf[c]]
       /\ \A k \in 1 .. Len(got) : got[k].run = crashes /\ got[k].position = cursor[ObjectOf[c]] + k
       /\ \/ allowed' = allowed
          \/ /\ allowed' = allowed \cup {c}
             /\ \A type \in EventTypes : \E k \in 1 .. Len(new) : new[k].type = type
  BY <1>2, <1>10, <1>11, <1>12, <1>14 DEF from
<1>16. new \in Seq(AuditEvent) /\ got \in Seq(AuditEvent)
  BY <1>8, <1>11
<1>17. QED BY <1>9, <1>13, <1>15, <1>16

(* An evaluation keeps the invariant.                                      *)
LEMMA EvaluateKeeps ==
  ASSUME Inv, NEW c \in Calls, Evaluate(c)
  PROVE  Inv'
<1>1. PICK new \in Seq(AuditEvent), got \in Seq(AuditEvent) :
        /\ log' = log \o new
        /\ cursor' = [cursor EXCEPT ![ObjectOf[c]] = Len(log) + Len(new)]
        /\ batch' = [batch EXCEPT ![c] = got]
        /\ \A k \in 1 .. Len(new) : /\ new[k].call = c
                                    /\ new[k].run = crashes
                                    /\ new[k].position = Len(log) + k
        /\ Len(got) = Len(log) + Len(new) - cursor[ObjectOf[c]]
        /\ \A k \in 1 .. Len(got) : /\ got[k].run = crashes
                                    /\ got[k].position = cursor[ObjectOf[c]] + k
        /\ \A k \in 1 .. Len(new) : new[k] \in ToSet(got)
        /\ \/ allowed' = allowed
           \/ /\ allowed' = allowed \cup {c}
              /\ \A type \in EventTypes : \E k \in 1 .. Len(new) : new[k].type = type
  BY EvaluationCollects
<1>2. /\ log \in Seq(AuditEvent) /\ Len(log) \in Nat /\ Len(new) \in Nat /\ Len(got) \in Nat
      /\ DOMAIN log = 1 .. Len(log) /\ DOMAIN new = 1 .. Len(new) /\ DOMAIN got = 1 .. Len(got)
  BY LenProperties DEF Inv, TypeOK
<1>0. /\ cursor \in [Objects -> 0 .. Len(log)] /\ crashes \in Nat
      /\ \A d \in Calls : ObjectOf[d] \in Objects
  BY GuardAssumption DEF Inv, TypeOK, Objects
<1>3. /\ log' \in Seq(AuditEvent)
      /\ Len(log') = Len(log) + Len(new)
      /\ DOMAIN log' = 1 .. Len(log) + Len(new)
      /\ \A k \in 1 .. Len(log) + Len(new) :
           log'[k] = IF k <= Len(log) THEN log[k] ELSE new[k - Len(log)]
  BY <1>1, <1>2, ConcatProperties, LenProperties
<1>4. /\ pc[c] = "loaded" /\ pc'[c] = "appending"
      /\ \A d \in Calls \ {c} : pc'[d] = pc[d] /\ held'[d] = held[d] /\ batch'[d] = batch[d]
      /\ batch'[c] = got
      /\ held'[c] = Evaluation(intent[c], held[c], "fail-fast").next
      /\ UNCHANGED <<store, trail, intent, crashes, effects, by>>
  BY <1>1 DEF Evaluate, Inv, TypeOK
<1>5. held'[c] \in State
  BY <1>4, EvaluationState DEF Inv, Holding, Busy
<1>6. TypeOK'
  <2>1. pc' \in [Calls -> Ended \cup { "idle", "loaded", "appending", "appended",
                                        "executing", "executed", "saving", "saved" }]
    BY DEF Evaluate, Inv, TypeOK
  <2>2. held' \in [Calls -> State \cup {None}]
    BY <1>4, <1>5 DEF Evaluate, Inv, TypeOK
  <2>3. batch' \in [Calls -> Seq(AuditEvent)]
    BY <1>1 DEF Inv, TypeOK
  <2>4. {allowed, effects}' \subseteq SUBSET Calls
    BY <1>1, <1>4 DEF Inv, TypeOK
  <2>5. {trail, log}' \subseteq Seq(AuditEvent)
    BY <1>3, <1>4 DEF Inv, TypeOK
  <2>6. cursor' \in [Objects -> 0 .. Len(log')]
    <3>1. \A o \in Objects : cursor[o] \in 0 .. Len(log')
      BY <1>0, <1>2, <1>3
    <3>2. Len(log) + Len(new) \in 0 .. Len(log')
      BY <1>2, <1>3
    <3>3. QED BY <1>0, <1>1, <3>1, <3>2
  <2>7. store' \in State /\ crashes' \in 0 .. MaxCrashes /\ by' \in Seq(Objects) /\ Len(by') = Len(trail')
    BY <1>4 DEF Inv, TypeOK
  <2>8. QED BY <2>1, <2>2, <2>3, <2>4, <2>5, <2>6, <2>7 DEF TypeOK
<1>7. Holding'
  BY <1>4, <1>5 DEF Inv, Holding, Busy
<1>8. LogNumbered'
  <2>1. ASSUME NEW k \in 1 .. Len(log) + Len(new)
        PROVE  log'[k].run = crashes /\ log'[k].position = k
    <3>1. CASE k <= Len(log)
      <4>1. k \in DOMAIN log /\ log'[k] = log[k]
        BY <1>2, <1>3, <3>1
      <4>2. QED BY <4>1 DEF Inv, LogNumbered
    <3>2. CASE ~(k <= Len(log))
      <4>1. k - Len(log) \in 1 .. Len(new) /\ Len(log) + (k - Len(log)) = k
        BY <1>2, <3>2
      <4>2. log'[k] = new[k - Len(log)]
        BY <1>3, <3>2
      <4>3. QED BY <1>1, <4>1, <4>2
    <3>3. QED BY <3>1, <3>2
  <2>2. QED BY <1>3, <1>4, <2>1 DEF LogNumbered
<1>9. ASSUME NEW e \in AuditEvent, NEW o \in Objects, NumberedBy(e, crashes, cursor[o])
      PROVE  NumberedBy(e, crashes, cursor'[o])
  <2>1. cursor[o] \in Nat /\ cursor'[o] \in Nat /\ cursor[o] <= cursor'[o]
    <3>1. CASE o = ObjectOf[c]
      BY <1>0, <1>1, <1>2, <3>1
    <3>2. CASE o # ObjectOf[c]
      BY <1>0, <1>1, <1>2, <3>2
    <3>3. QED BY <3>1, <3>2
  <2>2. QED BY <1>9, <2>1 DEF NumberedBy, AuditEvent
<1>10. TrailNumbered'
  <2>1. \A k \in DOMAIN trail : trail[k] \in AuditEvent /\ by[k] \in Objects
    BY LenProperties, ElementOfSeq DEF Inv, TypeOK
  <2>2. QED BY <1>4, <1>9, <2>1 DEF Inv, TrailNumbered
<1>11. BatchNew'
  <2>1. ASSUME NEW d \in Calls \ {c}, NEW k \in DOMAIN batch[d]
        PROVE  /\ batch[d][k] \in AuditEvent
               /\ NumberedBy(batch[d][k], crashes, cursor[ObjectOf[d]])
               /\ NumberedBy(batch[d][k], crashes, cursor'[ObjectOf[d]])
    <3>1. batch[d] \in Seq(AuditEvent)
      BY DEF Inv, TypeOK
    <3>2. batch[d][k] \in AuditEvent
      BY <3>1, LenProperties, ElementOfSeq
    <3>3. NumberedBy(batch[d][k], crashes, cursor[ObjectOf[d]])
      BY DEF Inv, BatchNew
    <3>4. QED BY <1>0, <1>9, <3>2, <3>3
  <2>2. ASSUME NEW e, NumberedBy(e, crashes, cursor[ObjectOf[c]]), NEW k \in DOMAIN got
        PROVE  got[k] # e
    <3>1. got[k].run = crashes /\ got[k].position = cursor[ObjectOf[c]] + k
      BY <1>1, <1>2
    <3>2. cursor[ObjectOf[c]] \in Nat /\ k \in Nat \ {0}
      BY <1>0, <1>2
    <3>3. ~NumberedBy(got[k], crashes, cursor[ObjectOf[c]])
      BY <1>0, <3>1, <3>2 DEF NumberedBy
    <3>4. QED BY <2>2, <3>3
  <2>3. ASSUME NEW k \in DOMAIN got
        PROVE  /\ NumberedBy(got[k], crashes, cursor'[ObjectOf[c]])
               /\ \A j \in DOMAIN trail : by[j] = ObjectOf[c] => trail[j] # got[k]
               /\ \A d \in Calls \ {c} : ObjectOf[d] = ObjectOf[c] =>
                    \A j \in DOMAIN batch[d] : batch[d][j] # got[k]
    <3>1. got[k].run = crashes /\ got[k].position = cursor[ObjectOf[c]] + k
      BY <1>1, <1>2
    <3>2. got[k].position <= Len(log) + Len(new) /\ cursor'[ObjectOf[c]] = Len(log) + Len(new)
      BY <1>0, <1>1, <1>2, <3>1
    <3>3. NumberedBy(got[k], crashes, cursor'[ObjectOf[c]])
      BY <3>1, <3>2 DEF NumberedBy
    <3>4. \A j \in DOMAIN trail : by[j] = ObjectOf[c] => trail[j] # got[k]
      BY <2>2 DEF Inv, TrailNumbered
    <3>5. \A d \in Calls \ {c} : ObjectOf[d] = ObjectOf[c] =>
            \A j \in DOMAIN batch[d] : batch[d][j] # got[k]
      BY <2>1, <2>2
    <3>6. QED BY <3>3, <3>4, <3>5
  <2>4. \A j, k \in DOMAIN got : got[j] = got[k] => j = k
    <3> SUFFICES ASSUME NEW j \in DOMAIN got, NEW k \in DOMAIN got, got[j] = got[k]
                 PROVE  j = k
      OBVIOUS
    <3>1. /\ got[j].position = cursor[ObjectOf[c]] + j /\ got[k].position = cursor[ObjectOf[c]] + k
          /\ cursor[ObjectOf[c]] \in Nat /\ j \in Nat /\ k \in Nat
      BY <1>0, <1>1, <1>2
    <3>2. QED BY <3>1
  <2>5. ASSUME NEW d \in Calls
        PROVE  /\ \A k \in DOMAIN batch'[d] :
                    /\ NumberedBy(batch'[d][k], crashes, cursor'[ObjectOf[d]])
                    /\ \A j \in DOMAIN trail : by[j] = ObjectOf[d] => trail[j] # batch'[d][k]
                    /\ \A b \in Calls \ {d} : ObjectOf[b] = ObjectOf[d] =>
                         \A j \in DOMAIN batch'[b] : batch'[b][j] # batch'[d][k]
               /\ \A j, k \in DOMAIN batch'[d] : batch'[d][j] = batch'[d][k] => j = k
    <3>1. CASE d = c
      <4>1. batch'[d] = got /\ \A b \in Calls \ {d} : batch'[b] = batch[b]
        BY <1>4, <3>1
      <4>2. QED BY <3>1, <4>1, <2>3, <2>4
    <3>2. CASE d # c
      <4>1. batch'[d] = batch[d]
        BY <1>4, <3>2
      <4>2. ASSUME NEW k \in DOMAIN batch[d], NEW b \in Calls \ {d}, ObjectOf[b] = ObjectOf[d],
                   NEW j \in DOMAIN batch'[b]
            PROVE  batch'[b][j] # batch[d][k]
        <5>1. CASE b = c
          BY <1>4, <2>3, <3>2, <4>2, <5>1
        <5>2. CASE b # c
          BY <1>4, <4>2, <5>2 DEF Inv, BatchNew
        <5>3. QED BY <5>1, <5>2
      <4>3. QED BY <2>1, <3>2, <4>1, <4>2 DEF Inv, BatchNew
    <3>3. QED BY <3>1, <3>2
  <2>6. QED BY <1>4, <2>5 DEF BatchNew
<1>12. BatchPending'
  BY <1>4 DEF Inv, BatchPending
<1>13. NoTraceYet'
  <2> SUFFICES ASSUME NEW d \in Calls, pc'[d] \in {"idle", "loaded"}
               PROVE  d \notin allowed' /\ \A k \in DOMAIN log' : log'[k].call # d
    BY DEF NoTraceYet
  <2>1. d # c /\ pc'[d] = pc[d]
    BY <1>4
  <2>2. d \notin allowed /\ \A k \in DOMAIN log : log[k].call # d
    BY <2>1 DEF Inv, NoTraceYet
  <2>3. ASSUME NEW k \in 1 .. Len(log) + Len(new)
        PROVE  log'[k].call # d
    <3>1. CASE k <= Len(log)
      <4>1. k \in DOMAIN log
        BY <1>2, <2>3, <3>1
      <4>2. log'[k] = log[k]
        BY <1>2, <1>3, <4>1
      <4>3. QED BY <2>2, <4>1, <4>2
    <3>2. CASE ~(k <= Len(log))
      <4>1. k - Len(log) \in 1 .. Len(new) /\ log'[k] = new[k - Len(log)]
        BY <1>2, <1>3, <3>2
      <4>2. QED BY <1>1, <2>1, <4>1
    <3>3. QED BY <3>1, <3>2
  <2>4. QED BY <1>1, <1>3, <2>1, <2>2, <2>3
<1>14. AllowedIsAudited'
  <2>1. c \notin allowed
    BY <1>4 DEF Inv, NoTraceYet
  <2>2. ASSUME NEW d \in allowed'
        PROVE  /\ pc'[d] = "appending" => InBatch(d)'
               /\ pc'[d] = "appended" => Audited(d)'
    <3>1. CASE d = c
      <4>1. pc'[d] = "appending" /\ batch'[d] = got
        BY <1>4, <3>1
      <4>2. \A type \in EventTypes : \E k \in 1 .. Len(new) : new[k].type = type
        <5>1. d \in allowed'
          OBVIOUS
        <5>2. allowed' # allowed
          BY <2>1, <3>1, <5>1
        <5>3. QED BY <1>1, <5>2
      <4>3. ASSUME NEW type \in EventTypes
            PROVE  \E k \in DOMAIN got : got[k].call = c /\ got[k].type = type
        <5>1. PICK k \in 1 .. Len(new) : new[k].type = type
          BY <4>2
        <5>2. new[k].call = c /\ new[k] \in ToSet(got)
          BY <1>1
        <5>3. QED BY <5>1, <5>2 DEF ToSet
      <4>4. QED BY <3>1, <4>1, <4>3 DEF InBatch
    <3>2. CASE d # c
      <4>1. d \in allowed /\ d \in Calls
        BY <1>1, <2>2, <3>2 DEF Inv, TypeOK
      <4>2. pc'[d] = pc[d] /\ batch'[d] = batch[d] /\ trail' = trail
        BY <1>4, <3>2, <4>1
      <4>3. QED BY <4>1, <4>2 DEF Inv, AllowedIsAudited, Audited, InBatch
    <3>3. QED BY <3>1, <3>2
  <2>3. QED BY <2>2 DEF AllowedIsAudited
<1>15. ExecutedIsAudited' /\ AuditedOnce'
  BY <1>4 DEF Inv, ExecutedIsAudited, AuditedOnce
<1>16. NoEventDropped'
  <2> SUFFICES ASSUME NEW e \in ToSet(log')
               PROVE  e \in ToSet(trail) \/ e \in ToSet(batch'[e.call]) \/ pc'[e.call] = "failed"
    BY <1>4 DEF NoEventDropped
  <2>1. PICK k \in 1 .. Len(log) + Len(new) : e = log'[k]
    BY <1>3 DEF ToSet
  <2>2. CASE k <= Len(log)
    <3>1. k \in DOMAIN log /\ e = log[k]
      BY <1>2, <1>3, <2>1, <2>2
    <3>2. e \in ToSet(log)
      BY <3>1 DEF ToSet
    <3>3. e.call \in Calls
      BY <3>2, LoggedEvent DEF Inv
    <3>4. e.call # c
      BY <1>4, <3>1 DEF Inv, NoTraceYet
    <3>5. e \in ToSet(trail) \/ e \in ToSet(batch[e.call]) \/ pc[e.call] = "failed"
      BY <3>2 DEF Inv, NoEventDropped
    <3>6. QED BY <1>4, <3>3, <3>4, <3>5
  <2>3. CASE ~(k <= Len(log))
    <3>1. k - Len(log) \in 1 .. Len(new) /\ e = new[k - Len(log)]
      BY <1>2, <1>3, <2>1, <2>3
    <3>2. e.call = c /\ e \in ToSet(got)
      BY <1>1, <3>1
    <3>3. QED BY <1>4, <3>2
  <2>4. QED BY <2>2, <2>3
<1>17. QED BY <1>6, <1>7, <1>8, <1>10, <1>11, <1>12, <1>13, <1>14, <1>15, <1>16 DEF Inv

(* An append names the guard or the client that made it.                   *)
LEMMA AppendNames ==
  ASSUME Inv, NEW c \in Calls, AppendLands(c)
  PROVE  /\ by' \in Seq(Objects) /\ Len(by') = Len(trail')
         /\ \A k \in 1 .. Len(trail) + Len(batch[c]) :
              by'[k] = IF k <= Len(trail) THEN by[k] ELSE ObjectOf[c]
<1>0. /\ trail \in Seq(AuditEvent) /\ batch[c] \in Seq(AuditEvent)
      /\ Len(trail) \in Nat /\ Len(batch[c]) \in Nat
      /\ DOMAIN batch[c] = 1 .. Len(batch[c])
  BY LenProperties DEF Inv, TypeOK
<1> DEFINE mine == [k \in DOMAIN batch[c] |-> ObjectOf[c]]
<1>1. by' = by \o mine /\ trail' = trail \o batch[c]
  BY DEF AppendLands
<1>2. ObjectOf[c] \in Objects
  BY DEF Objects
<1>3. mine \in [1 .. Len(batch[c]) -> Objects]
  BY <1>0, <1>2
<1>4. \A k \in 1 .. Len(batch[c]) : mine[k] = ObjectOf[c]
  BY <1>0
<1> HIDE DEF mine
<1>5. mine \in Seq(Objects) /\ Len(mine) = Len(batch[c])
  <2>1. mine \in Seq(Objects)
    BY <1>0, <1>3, SeqDef
  <2>2. DOMAIN mine = 1 .. Len(batch[c])
    BY <1>3
  <2>3. QED BY <1>0, <2>1, <2>2, LenProperties
<1>6. by \in Seq(Objects) /\ Len(by) = Len(trail)
  BY DEF Inv, TypeOK
<1>7. /\ by' \in Seq(Objects) /\ Len(by') = Len(by) + Len(mine)
      /\ \A k \in 1 .. Len(by) + Len(mine) :
           by'[k] = IF k <= Len(by) THEN by[k] ELSE mine[k - Len(by)]
  BY <1>1, <1>5, <1>6, ConcatProperties
<1>8. Len(trail') = Len(trail) + Len(batch[c])
  BY <1>0, <1>1, ConcatProperties
<1>9. ASSUME NEW k \in 1 .. Len(trail) + Len(batch[c]), ~(k <= Len(trail))
      PROVE  mine[k - Len(by)] = ObjectOf[c]
  <2>1. k - Len(by) \in 1 .. Len(batch[c])
    BY <1>0, <1>6, <1>9
  <2>2. QED BY <1>4, <2>1
<1>10. QED BY <1>5, <1>6, <1>7, <1>8, <1>9

(* The events of a call reach the audit adapter.                           *)
LEMMA AppendKeeps ==
  ASSUME Inv, NEW c \in Calls, AppendLands(c)
  PROVE  Inv'
<1>1. /\ trail \in Seq(AuditEvent) /\ batch[c] \in Seq(AuditEvent)
      /\ Len(trail) \in Nat /\ Len(batch[c]) \in Nat
      /\ DOMAIN trail = 1 .. Len(trail) /\ DOMAIN batch[c] = 1 .. Len(batch[c])
  BY LenProperties DEF Inv, TypeOK
<1>2. /\ trail' \in Seq(AuditEvent)
      /\ DOMAIN trail' = 1 .. Len(trail) + Len(batch[c])
      /\ \A k \in 1 .. Len(trail) + Len(batch[c]) :
           trail'[k] = IF k <= Len(trail) THEN trail[k] ELSE batch[c][k - Len(trail)]
  BY <1>1, ConcatProperties, LenProperties DEF AppendLands
<1>3. /\ pc[c] = "appending" /\ pc'[c] = "appended"
      /\ batch'[c] = << >>
      /\ \A d \in Calls \ {c} : pc'[d] = pc[d] /\ batch'[d] = batch[d]
      /\ UNCHANGED <<store, log, cursor, intent, held, allowed, crashes, effects>>
  BY DEF AppendLands, Inv, TypeOK
<1>0. /\ by' \in Seq(Objects) /\ Len(by') = Len(trail')
      /\ \A k \in 1 .. Len(trail) + Len(batch[c]) :
           by'[k] = IF k <= Len(trail) THEN by[k] ELSE ObjectOf[c]
  BY AppendNames
<1>4. ASSUME NEW k \in DOMAIN trail'
      PROVE  \/ k \in DOMAIN trail /\ trail'[k] = trail[k] /\ by'[k] = by[k]
             \/ /\ k - Len(trail) \in DOMAIN batch[c] /\ k > Len(trail)
                /\ trail'[k] = batch[c][k - Len(trail)] /\ by'[k] = ObjectOf[c]
  BY <1>0, <1>1, <1>2
<1>5. \A k \in DOMAIN trail : k \in DOMAIN trail' /\ trail'[k] = trail[k] /\ by'[k] = by[k]
  BY <1>0, <1>1, <1>2
<1>6. ASSUME NEW k \in DOMAIN batch[c]
      PROVE  Len(trail) + k \in DOMAIN trail' /\ trail'[Len(trail) + k] = batch[c][k]
  <2>1. /\ Len(trail) + k \in 1 .. Len(trail) + Len(batch[c])
        /\ ~(Len(trail) + k <= Len(trail)) /\ Len(trail) + k - Len(trail) = k
    BY <1>1
  <2>2. QED BY <1>2, <2>1
<1>7. TypeOK'
  <2>1. pc' \in [Calls -> Ended \cup { "idle", "loaded", "appending", "appended",
                                        "executing", "executed", "saving", "saved" }]
    BY DEF AppendLands, Inv, TypeOK
  <2>2. batch' \in [Calls -> Seq(AuditEvent)]
    BY DEF AppendLands, Inv, TypeOK
  <2>3. {allowed, effects}' \subseteq SUBSET Calls /\ {trail, log}' \subseteq Seq(AuditEvent)
    BY <1>2, <1>3 DEF Inv, TypeOK
  <2>4. QED BY <1>0, <1>3, <2>1, <2>2, <2>3 DEF Inv, TypeOK
<1>8. Holding'
  BY <1>3 DEF Inv, Holding, Busy
<1>9. LogNumbered'
  BY <1>3 DEF Inv, LogNumbered
<1>10. TrailNumbered'
  BY <1>3, <1>4 DEF Inv, TrailNumbered, BatchNew
<1>11. BatchNew'
  <2>1. ASSUME NEW d \in Calls \ {c}, NEW k \in DOMAIN batch[d], NEW j \in DOMAIN trail',
               by'[j] = ObjectOf[d]
        PROVE  trail'[j] # batch[d][k]
    <3>1. CASE j \in DOMAIN trail
      BY <1>5, <2>1, <3>1 DEF Inv, BatchNew
    <3>2. CASE j \notin DOMAIN trail
      <4>1. j - Len(trail) \in DOMAIN batch[c] /\ trail'[j] = batch[c][j - Len(trail)] /\ by'[j] = ObjectOf[c]
        BY <1>4, <3>2
      <4>2. c \in Calls \ {d} /\ ObjectOf[c] = ObjectOf[d]
        BY <2>1, <4>1
      <4>3. \A i \in DOMAIN batch[c] : batch[c][i] # batch[d][k]
        BY <4>2 DEF Inv, BatchNew
      <4>4. QED BY <4>1, <4>3
    <3>3. QED BY <3>1, <3>2
  <2>2. DOMAIN batch'[c] = {}
    BY <1>3
  <2>3. ASSUME NEW d \in Calls
        PROVE  /\ \A k \in DOMAIN batch'[d] :
                    /\ NumberedBy(batch'[d][k], crashes, cursor[ObjectOf[d]])
                    /\ \A j \in DOMAIN trail' : by'[j] = ObjectOf[d] => trail'[j] # batch'[d][k]
                    /\ \A b \in Calls \ {d} : ObjectOf[b] = ObjectOf[d] =>
                         \A j \in DOMAIN batch'[b] : batch'[b][j] # batch'[d][k]
               /\ \A j, k \in DOMAIN batch'[d] : batch'[d][j] = batch'[d][k] => j = k
    <3>1. CASE d = c
      BY <2>2, <3>1
    <3>2. CASE d # c
      <4>1. batch'[d] = batch[d]
        BY <1>3, <3>2
      <4>2. ASSUME NEW k \in DOMAIN batch[d], NEW b \in Calls \ {d}, ObjectOf[b] = ObjectOf[d],
                   NEW j \in DOMAIN batch'[b]
            PROVE  batch'[b][j] # batch[d][k]
        <5>1. b # c
          BY <2>2, <4>2
        <5>2. batch'[b] = batch[b]
          BY <1>3, <5>1
        <5>3. QED BY <4>2, <5>2 DEF Inv, BatchNew
      <4>3. QED BY <4>1, <4>2, <3>2, <2>1 DEF Inv, BatchNew
    <3>3. QED BY <3>1, <3>2
  <2>4. QED BY <1>3, <2>3 DEF BatchNew
<1>12. BatchPending'
  BY <1>3 DEF Inv, BatchPending
<1>13. NoTraceYet'
  BY <1>3 DEF Inv, NoTraceYet
<1>14. \A d \in Calls : Audited(d) => Audited(d)'
  BY <1>5 DEF Audited
<1>15. AllowedIsAudited'
  <2> SUFFICES ASSUME NEW d \in allowed
               PROVE  /\ pc'[d] = "appending" => InBatch(d)'
                      /\ pc'[d] = "appended" => Audited(d)'
    BY <1>3 DEF AllowedIsAudited
  <2>1. d \in Calls
    BY DEF Inv, TypeOK
  <2>2. CASE d = c
    <3>1. InBatch(c)
      BY <1>3, <2>2 DEF Inv, AllowedIsAudited
    <3>2. \A type \in EventTypes :
            \E k \in DOMAIN trail' : trail'[k].call = c /\ trail'[k].type = type
      BY <1>6, <3>1 DEF InBatch
    <3>3. QED BY <1>3, <2>2, <3>2 DEF Audited
  <2>3. CASE d # c
    BY <1>3, <1>14, <2>1, <2>3 DEF Inv, AllowedIsAudited, InBatch
  <2>4. QED BY <2>2, <2>3
<1>16. ExecutedIsAudited'
  <2>1. \A d \in effects \cup {b \in Calls : pc[b] = "executing"} : Audited(d)
    BY DEF Inv, ExecutedIsAudited, Audited, EventTypes
  <2>2. effects \subseteq Calls
    BY DEF Inv, TypeOK
  <2>3. \A d \in effects' \cup {b \in Calls : pc'[b] = "executing"} : Audited(d)'
    BY <1>3, <1>14, <2>1, <2>2
  <2>4. QED BY <2>3 DEF ExecutedIsAudited, Audited, EventTypes
<1>17. AuditedOnce'
  <2> SUFFICES ASSUME NEW j \in DOMAIN trail', NEW k \in DOMAIN trail', trail'[j] = trail'[k],
                      by'[j] = by'[k]
               PROVE  j = k
    BY DEF AuditedOnce
  <2>1. CASE j \in DOMAIN trail /\ k \in DOMAIN trail
    BY <1>5, <2>1 DEF Inv, AuditedOnce
  <2>2. CASE j \notin DOMAIN trail /\ k \notin DOMAIN trail
    <3>1. /\ j - Len(trail) \in DOMAIN batch[c] /\ trail'[j] = batch[c][j - Len(trail)]
          /\ k - Len(trail) \in DOMAIN batch[c] /\ trail'[k] = batch[c][k - Len(trail)]
      BY <1>4, <2>2
    <3>2. j - Len(trail) = k - Len(trail)
      BY <3>1 DEF Inv, BatchNew
    <3>3. j \in Int /\ k \in Int
      BY <1>2
    <3>4. QED BY <1>1, <3>2, <3>3
  <2>3. CASE j \in DOMAIN trail /\ k \notin DOMAIN trail
    BY <1>4, <1>5, <2>3 DEF Inv, BatchNew
  <2>4. CASE j \notin DOMAIN trail /\ k \in DOMAIN trail
    BY <1>4, <1>5, <2>4 DEF Inv, BatchNew
  <2>5. QED BY <2>1, <2>2, <2>3, <2>4
<1>18. NoEventDropped'
  <2> SUFFICES ASSUME NEW e \in ToSet(log)
               PROVE  e \in ToSet(trail') \/ e \in ToSet(batch'[e.call]) \/ pc'[e.call] = "failed"
    BY <1>3 DEF NoEventDropped
  <2>1. e.call \in Calls
    BY LoggedEvent DEF Inv
  <2>2. e \in ToSet(trail) \/ e \in ToSet(batch[e.call]) \/ pc[e.call] = "failed"
    BY DEF Inv, NoEventDropped
  <2>3. CASE e \in ToSet(trail)
    BY <1>5, <2>3 DEF ToSet
  <2>4. CASE e \in ToSet(batch[c])
    BY <1>6, <2>4 DEF ToSet
  <2>5. CASE e.call # c
    BY <1>3, <2>1, <2>2, <2>3, <2>5
  <2>6. QED BY <1>3, <2>2, <2>3, <2>4, <2>5
<1>19. QED BY <1>7, <1>8, <1>9, <1>10, <1>11, <1>12, <1>13, <1>15, <1>16, <1>17, <1>18 DEF Inv

(* A call that throws drops what it held and had to append.                *)
LEMMA FailureKeeps ==
  ASSUME Inv, NEW c \in Calls, EndAt(c, "failed"), pc[c] \notin {"failed", "loaded"},
         UNCHANGED <<store, trail, log, cursor, crashes, effects, by>>
  PROVE  Inv'
<1>1. /\ pc'[c] = "failed" /\ batch'[c] = << >>
      /\ \A d \in Calls \ {c} : pc'[d] = pc[d] /\ batch'[d] = batch[d] /\ held'[d] = held[d]
      /\ UNCHANGED <<intent, allowed>>
  BY DEF EndAt, Inv, TypeOK
<1>2. TypeOK'
  <2>1. pc' \in [Calls -> Ended \cup { "idle", "loaded", "appending", "appended",
                                        "executing", "executed", "saving", "saved" }]
    BY DEF EndAt, Inv, TypeOK, Ended
  <2>2. batch' \in [Calls -> Seq(AuditEvent)] /\ held' \in [Calls -> State \cup {None}]
    BY DEF EndAt, Inv, TypeOK
  <2>3. {allowed, effects}' \subseteq SUBSET Calls /\ {trail, log}' \subseteq Seq(AuditEvent)
    BY <1>1 DEF Inv, TypeOK
  <2>4. QED BY <2>1, <2>2, <2>3 DEF Inv, TypeOK
<1>3. Holding'
  BY <1>1 DEF Inv, Holding, Busy
<1>4. LogNumbered' /\ TrailNumbered' /\ AuditedOnce'
  BY DEF Inv, LogNumbered, TrailNumbered, AuditedOnce
<1>5. BatchNew'
  <2>1. DOMAIN batch'[c] = {}
    BY <1>1
  <2>2. ASSUME NEW d \in Calls
        PROVE  /\ \A k \in DOMAIN batch'[d] :
                    /\ NumberedBy(batch'[d][k], crashes, cursor[ObjectOf[d]])
                    /\ \A j \in DOMAIN trail : by[j] = ObjectOf[d] => trail[j] # batch'[d][k]
                    /\ \A b \in Calls \ {d} : ObjectOf[b] = ObjectOf[d] =>
                         \A j \in DOMAIN batch'[b] : batch'[b][j] # batch'[d][k]
               /\ \A j, k \in DOMAIN batch'[d] : batch'[d][j] = batch'[d][k] => j = k
    <3>1. CASE d = c
      BY <2>1, <3>1
    <3>2. CASE d # c
      <4>1. batch'[d] = batch[d]
        BY <1>1, <3>2
      <4>2. \A b \in Calls : \A j \in DOMAIN batch'[b] : j \in DOMAIN batch[b] /\ batch'[b][j] = batch[b][j]
        BY <1>1, <2>1
      <4>3. QED BY <4>1, <4>2 DEF Inv, BatchNew
    <3>3. QED BY <3>1, <3>2
  <2>3. QED BY <2>2 DEF BatchNew
<1>6. BatchPending' /\ NoTraceYet'
  BY <1>1 DEF Inv, BatchPending, NoTraceYet
<1>7. AllowedIsAudited'
  <2>1. allowed \subseteq Calls
    BY DEF Inv, TypeOK
  <2>2. QED BY <1>1, <2>1 DEF Inv, AllowedIsAudited, Audited, InBatch
<1>8. ExecutedIsAudited'
  BY <1>1 DEF Inv, ExecutedIsAudited
<1>9. NoEventDropped'
  <2> SUFFICES ASSUME NEW e \in ToSet(log)
               PROVE  e \in ToSet(trail) \/ e \in ToSet(batch'[e.call]) \/ pc'[e.call] = "failed"
    BY DEF NoEventDropped
  <2>1. e.call \in Calls
    BY LoggedEvent DEF Inv
  <2>2. e \in ToSet(trail) \/ e \in ToSet(batch[e.call]) \/ pc[e.call] = "failed"
    BY DEF Inv, NoEventDropped
  <2>3. QED BY <1>1, <2>1, <2>2
<1>10. QED BY <1>2, <1>3, <1>4, <1>5, <1>6, <1>7, <1>8, <1>9 DEF Inv

(* A crash cuts off every call; what is in the adapters stays.             *)
LEMMA CrashKeeps ==
  ASSUME Inv, Crash
  PROVE  Inv'
<1>1. /\ log' = << >> /\ cursor' = [o \in Objects |-> 0]
      /\ crashes' = crashes + 1 /\ crashes < MaxCrashes
      /\ pc' = [c \in Calls |-> IF c \in InFlight THEN "failed" ELSE pc[c]]
      /\ held' = [c \in Calls |-> None]
      /\ batch' = [c \in Calls |-> << >>]
      /\ UNCHANGED <<store, trail, intent, allowed, effects, by>>
  BY DEF Crash, Restarted
<1>2. Len(log') = 0 /\ DOMAIN log' = {} /\ crashes \in Nat
  BY <1>1, GuardAssumption DEF Inv, TypeOK
<1>3. \A c \in Calls : pc'[c] \in Ended \cup {"idle"} /\ (pc'[c] = "idle" => pc[c] = "idle")
  BY <1>1 DEF InFlight, Ended, Inv, TypeOK
<1>4. \A c \in Calls : batch'[c] = << >> /\ DOMAIN batch'[c] = {}
  BY <1>1
<1>5. TypeOK'
  <2>1. pc' \in [Calls -> Ended \cup { "idle", "loaded", "appending", "appended",
                                        "executing", "executed", "saving", "saved" }]
    BY <1>1, <1>3
  <2>2. batch' \in [Calls -> Seq(AuditEvent)] /\ held' \in [Calls -> State \cup {None}]
    BY <1>1
  <2>3. {allowed, effects}' \subseteq SUBSET Calls /\ {trail, log}' \subseteq Seq(AuditEvent)
    BY <1>1 DEF Inv, TypeOK
  <2>4. /\ cursor' \in [Objects -> 0 .. Len(log')] /\ crashes' \in 0 .. MaxCrashes /\ store' \in State
        /\ by' \in Seq(Objects) /\ Len(by') = Len(trail')
    BY <1>1, <1>2, GuardAssumption DEF Inv, TypeOK
  <2>5. QED BY <2>1, <2>2, <2>3, <2>4 DEF TypeOK
<1>6. Holding'
  BY <1>1, <1>3 DEF Inv, Holding, Busy, Ended
<1>7. LogNumbered'
  BY <1>1, <1>2 DEF LogNumbered
<1>8. TrailNumbered'
  <2>1. ASSUME NEW k \in DOMAIN trail
        PROVE  NumberedBy(trail[k], crashes + 1, cursor'[by[k]])
    <3>1. trail[k] \in AuditEvent
      BY LenProperties, ElementOfSeq DEF Inv, TypeOK
    <3>2. NumberedBy(trail[k], crashes, cursor[by[k]])
      BY DEF Inv, TrailNumbered
    <3>3. QED BY <1>2, <3>1, <3>2 DEF NumberedBy, AuditEvent
  <2>2. QED BY <1>1, <2>1 DEF TrailNumbered
<1>9. BatchNew' /\ BatchPending'
  BY <1>4 DEF BatchNew, BatchPending
<1>10. NoTraceYet'
  BY <1>1, <1>2, <1>3 DEF Inv, NoTraceYet, Ended
<1>11. AllowedIsAudited'
  <2>1. allowed \subseteq Calls
    BY DEF Inv, TypeOK
  <2>2. QED BY <1>1, <1>3, <2>1 DEF AllowedIsAudited, Ended
<1>12. ExecutedIsAudited' /\ AuditedOnce'
  BY <1>1, <1>3 DEF Inv, ExecutedIsAudited, AuditedOnce, Ended
<1>13. NoEventDropped'
  BY <1>2 DEF NoEventDropped, ToSet
<1>14. QED BY <1>5, <1>6, <1>7, <1>8, <1>9, <1>10, <1>11, <1>12, <1>13 DEF Inv

(* A call that ends without a batch moves.                                 *)
LEMMA EndKeeps ==
  ASSUME Inv, NEW c \in Calls, NEW s \in Ended, EndAt(c, s), pc[c] \notin {"appending", "failed"},
         UNCHANGED <<store, trail, log, cursor, crashes, effects, by>>
  PROVE  Inv'
<1>1. batch' = batch
  <2>1. batch[c] = << >> /\ batch \in [Calls -> Seq(AuditEvent)]
    BY DEF Inv, BatchPending, TypeOK
  <2>2. QED BY <2>1 DEF EndAt
<1>2. s \in Stages \ {"idle", "appending", "appended"} /\ s \notin Busy /\ s # "executing"
  BY DEF Stages, Ended, Busy
<1>3. held' \in [Calls -> State \cup {None}] /\ \A d \in Calls \ {c} : held'[d] = held[d]
  BY DEF EndAt, Inv, TypeOK
<1>4. store \in State /\ DOMAIN intent' = Calls
  BY DEF EndAt, Inv, TypeOK, Holding
<1>5. s # "loaded"
  BY DEF Ended
<1>6. QED BY <1>1, <1>2, <1>3, <1>4, <1>5, CallMoves DEF EndAt

(* The invariant holds of the adapters the program starts with.            *)
LEMMA Starts == Init => Inv
<1> SUFFICES ASSUME Init PROVE Inv
  OBVIOUS
<1>1. /\ Len(log) = 0 /\ DOMAIN log = {} /\ DOMAIN trail = {} /\ {trail, log} \subseteq Seq(AuditEvent)
      /\ \A c \in Calls : pc[c] = "idle" /\ batch[c] = << >> /\ DOMAIN batch[c] = {}
      /\ allowed = {} /\ effects = {} /\ cursor = [o \in Objects |-> 0] /\ crashes = 0
      /\ DOMAIN intent = Calls /\ by = << >> /\ Len(by) = Len(trail)
  BY DEF Init
<1>2. TypeOK
  <2>1. pc \in [Calls -> Ended \cup { "idle", "loaded", "appending", "appended",
                                       "executing", "executed", "saving", "saved" }]
    BY DEF Init
  <2>2. batch \in [Calls -> Seq(AuditEvent)] /\ held \in [Calls -> State \cup {None}]
    BY DEF Init
  <2>3. /\ store \in State /\ crashes \in 0 .. MaxCrashes /\ cursor \in [Objects -> 0 .. Len(log)]
        /\ by \in Seq(Objects)
    BY <1>1, GuardAssumption DEF Init
  <2>4. {allowed, effects} \subseteq SUBSET Calls
    BY <1>1
  <2>5. QED BY <1>1, <2>1, <2>2, <2>3, <2>4 DEF TypeOK
<1>3. Holding /\ LogNumbered /\ TrailNumbered
  BY <1>1 DEF Holding, LogNumbered, TrailNumbered, Busy
<1>4. BatchNew /\ BatchPending /\ NoTraceYet
  BY <1>1 DEF BatchNew, BatchPending, NoTraceYet
<1>5. AllowedIsAudited /\ ExecutedIsAudited /\ AuditedOnce /\ NoEventDropped
  BY <1>1 DEF AllowedIsAudited, ExecutedIsAudited, AuditedOnce, NoEventDropped, ToSet
<1>6. QED BY <1>2, <1>3, <1>4, <1>5 DEF Inv

(* A loaded intent that names an agent of the state can be evaluated.      *)
LEMMA LoadedIsReadable ==
  ASSUME NEW i \in Intents, i.agent_id \in Agents
  PROVE  Readable(i)
BY GuardAssumption DEF Intents, ExecuteIntents, ReleaseIntents, Readable

(* The steps of one call.                                                  *)
LEMMA CallKeeps ==
  ASSUME Inv, NEW c \in Calls,
         \/ Load(c) \/ LoadFails(c)
         \/ Evaluate(c)
         \/ AppendLands(c) \/ AppendSettles(c)
         \/ ExecuteLands(c) \/ ExecuteSettles(c)
         \/ SaveLands(c) \/ SaveSettles(c)
         \/ Fails(c)
  PROVE  Inv'
<1>0. store \in State /\ held \in [Calls -> State \cup {None}] /\ (pc[c] \in Busy => held[c] \in State)
      /\ DOMAIN intent = Calls
  BY DEF Inv, TypeOK, Holding
<1>1. CASE Load(c)
  <2>1. PICK i \in Intents : intent' = [intent EXCEPT ![c] = i]
    BY <1>1 DEF Load
  <2>2. held' = [held EXCEPT ![c] = store] /\ pc' = [pc EXCEPT ![c] = "loaded"] /\ pc[c] = "idle"
    BY <1>1 DEF Load
  <2>3. UNCHANGED <<store, trail, log, cursor, batch, allowed, crashes, effects, by>>
    BY <1>1 DEF Load
  <2>4. "loaded" \in Stages \ {"idle", "appending", "appended"}
    BY DEF Stages, Busy
  <2>5. /\ held' \in [Calls -> State \cup {None}] /\ held'[c] \in State
        /\ \A d \in Calls \ {c} : held'[d] = held[d]
    BY <1>0, <2>2
  <2>6. intent'[c].agent_id \in Agents => Readable(intent'[c])
    <3>1. intent'[c] = i
      BY <1>0, <2>1
    <3>2. QED BY <3>1, LoadedIsReadable
  <2>7. DOMAIN intent' = Calls /\ \A d \in Calls \ {c} : intent'[d] = intent[d]
    BY <1>0, <2>1
  <2>8. QED BY <1>0, <2>2, <2>3, <2>4, <2>5, <2>6, <2>7, CallMoves
<1>2. CASE LoadFails(c)
  BY <1>2, FailureKeeps DEF LoadFails
<1>3. CASE Evaluate(c)
  BY <1>3, EvaluateKeeps
<1>4. CASE AppendLands(c)
  BY <1>4, AppendKeeps
<1>5. CASE AppendSettles(c)
  <2>1. CASE c \in allowed
    <3>1. PICK stage \in {"saving", "executing"} : pc' = [pc EXCEPT ![c] = stage]
      BY <1>5, <2>1 DEF AppendSettles
    <3>2. Audited(c) /\ pc[c] = "appended"
      BY <1>5, <2>1 DEF AppendSettles, Inv, AllowedIsAudited
    <3>3. UNCHANGED <<store, trail, log, cursor, crashes, effects, by, intent, held, batch, allowed>>
      BY <1>5, <2>1 DEF AppendSettles
    <3>4. stage \in Stages \ {"idle", "appending", "appended"} /\ stage # "loaded"
      BY DEF Stages, Busy
    <3>5. held[c] \in State
      BY <1>0, <3>2 DEF Busy
    <3>6. QED BY <1>0, <3>1, <3>2, <3>3, <3>4, <3>5, CallMoves
  <2>2. CASE c \notin allowed
    BY <1>5, <2>2, EndKeeps DEF AppendSettles, Ended
  <2>3. QED BY <2>1, <2>2
<1>6. CASE ExecuteLands(c)
  <2>1. Audited(c) /\ pc[c] = "executing"
    BY <1>6 DEF ExecuteLands, Inv, ExecutedIsAudited, Audited, EventTypes
  <2>2. "executed" \in Stages \ {"idle", "appending", "appended"}
    BY DEF Stages, Busy
  <2>3. held[c] \in State
    BY <1>0, <2>1 DEF Busy
  <2>4. QED BY <1>0, <1>6, <2>1, <2>2, <2>3, CallMoves DEF ExecuteLands
<1>7. CASE ExecuteSettles(c)
  <2>1. pc[c] = "executed" /\ held[c] \in State
    BY <1>0, <1>7 DEF ExecuteSettles, Busy
  <2>2. "saving" \in Stages \ {"idle", "appending", "appended"}
    BY DEF Stages, Busy
  <2>3. QED BY <1>0, <1>7, <2>1, <2>2, CallMoves DEF ExecuteSettles
<1>8. CASE SaveLands(c)
  <2>1. pc[c] = "saving" /\ held[c] \in State
    BY <1>0, <1>8 DEF SaveLands, Busy
  <2>2. "saved" \in Stages \ {"idle", "appending", "appended"}
    BY DEF Stages, Busy
  <2>3. QED BY <1>0, <1>8, <2>1, <2>2, CallMoves DEF SaveLands
<1>9. CASE SaveSettles(c)
  BY <1>9, EndKeeps DEF SaveSettles, Ended
<1>10. CASE Fails(c)
  BY <1>10, FailureKeeps DEF Fails
<1>11. QED BY <1>1, <1>2, <1>3, <1>4, <1>5, <1>6, <1>7, <1>8, <1>9, <1>10

(* Every step keeps the invariant.                                         *)
LEMMA Kept == Inv /\ [Next]_vars => Inv'
<1> SUFFICES ASSUME Inv, [Next]_vars PROVE Inv'
  OBVIOUS
<1>1. CASE Next
  BY <1>1, CallKeeps, CrashKeeps DEF Next
<1>2. CASE UNCHANGED vars
  BY <1>2 DEF vars, locals, Inv, TypeOK, Holding, LogNumbered, TrailNumbered, BatchNew, BatchPending,
              NoTraceYet, AllowedIsAudited, Audited, InBatch, ExecutedIsAudited, AuditedOnce, NoEventDropped
<1>3. QED BY <1>1, <1>2

(* The invariant holds in every behaviour.                                 *)
LEMMA InvHolds == Spec => []Inv
BY Starts, Kept, PTL DEF Spec

-----------------------------------------------------------------------------
(* Type correctness of createGuard and evaluateAndCommit over any adapters, *)
(* intents, faults and number of calls (guard.ts, client.ts).              *)
THEOREM GuardTypes == Spec => []TypeOK
<1>1. Inv => TypeOK
  BY DEF Inv
<1>2. QED BY <1>1, InvHolds, PTL

(* No callback runs before the events of its decision are in the audit     *)
(* adapter (guard.ts:87).                                                  *)
THEOREM AuditedBeforeExecution == Spec => []ExecutedIsAudited
<1>1. Inv => ExecutedIsAudited
  BY DEF Inv
<1>2. QED BY <1>1, InvHolds, PTL

(* No guard and no client appends an event twice, whatever the others      *)
(* append (guard.ts:84-87, client.ts:60-63).                               *)
THEOREM NoEventTwice == Spec => []AuditedOnce
<1>1. Inv => AuditedOnce
  BY DEF Inv
<1>2. QED BY <1>1, InvHolds, PTL

(* An event of the log is forgotten only by a call that throws             *)
(* (collectNewEvents, guard.ts:84-87).                                     *)
THEOREM NoEventForgotten == Spec => []NoEventDropped
<1>1. Inv => NoEventDropped
  BY DEF Inv
<1>2. QED BY <1>1, InvHolds, PTL

-----------------------------------------------------------------------------
(***************************************************************************)
(* Sums over finite sets                                                   *)
(***************************************************************************)

(* What holds of a set if it holds of its proper subsets holds of every    *)
(* finite set; X is the set of those it holds of.                          *)
LEMMA SubsetInduction ==
  ASSUME NEW S, IsFiniteSet(S), NEW X,
         \A T \in SUBSET S : (\A U \in SUBSET T : U # T => U \in X) => T \in X
  PROVE  S \in X
<1> DEFINE Bad   == {T \in SUBSET S : T \notin X}
           Sizes == {n \in Nat : \E T \in Bad : Cardinality(T) = n}
<1>1. SUFFICES ASSUME S \notin X PROVE FALSE
  OBVIOUS
<1>2. Sizes # {}
  BY <1>1, FS_CardinalityType
<1>3. PICK n \in Sizes : \A m \in Sizes : ~(m < n)
  <2>1. Sizes \in SUBSET Nat
    OBVIOUS
  <2> HIDE DEF Sizes
  <2>2. QED BY <1>2, <2>1, LeastElement
<1>4. PICK T \in Bad : Cardinality(T) = n
  BY <1>3
<1>5. IsFiniteSet(T)
  BY FS_Subset
<1>6. ASSUME NEW U \in SUBSET T, U # T
      PROVE  U \in X
  <2>1. Cardinality(U) < Cardinality(T) /\ Cardinality(U) \in Nat
    <3>1. IsFiniteSet(U) /\ Cardinality(U) <= Cardinality(T)
      BY <1>5, FS_Subset
    <3>2. Cardinality(U) # Cardinality(T)
      BY <1>5, <1>6, FS_Subset
    <3>3. QED BY <1>5, <3>1, <3>2, FS_CardinalityType
  <2>2. U \in Bad => Cardinality(U) \in Sizes
    BY <2>1
  <2>3. QED BY <1>3, <1>4, <2>1, <2>2
<1>7. QED BY <1>4, <1>6

Pick(S) == CHOOSE x \in S : TRUE

(* g is the function that SumFunctionOnSet(f, S) applies.                  *)
Sums(f, S, g) ==
  g = [T \in SUBSET S |-> IF T = {} THEN 0 ELSE f[Pick(T)] + g[T \ {Pick(T)}]]

(* Two such functions agree where both are defined.                        *)
LEMMA SumsAgree ==
  ASSUME NEW f, NEW S, NEW T, NEW g, NEW h, Sums(f, S, g), Sums(f, T, h),
         NEW U \in SUBSET (S \cap T), IsFiniteSet(U)
  PROVE  g[U] = h[U]
<1> DEFINE X == {V \in SUBSET U : g[V] = h[V]}
<1>1. ASSUME NEW V \in SUBSET U, \A W \in SUBSET V : W # V => W \in X
      PROVE  V \in X
  <2>1. /\ g[V] = IF V = {} THEN 0 ELSE f[Pick(V)] + g[V \ {Pick(V)}]
        /\ h[V] = IF V = {} THEN 0 ELSE f[Pick(V)] + h[V \ {Pick(V)}]
    BY DEF Sums
  <2>2. CASE V = {}
    BY <2>1, <2>2
  <2>3. CASE V # {}
    <3>1. Pick(V) \in V
      BY <2>3 DEF Pick
    <3>2. V \ {Pick(V)} \in X
      BY <1>1, <3>1
    <3>3. QED BY <2>1, <2>3, <3>2
  <2>4. QED BY <2>2, <2>3
<1>2. U \in X
  <2> HIDE DEF X
  <2>1. QED BY <1>1, SubsetInduction
<1>3. QED BY <1>2

(* There is such a function for every finite set.                          *)
LEMMA SumsExist ==
  ASSUME NEW f, NEW S, IsFiniteSet(S)
  PROVE  \E g : Sums(f, S, g)
<1> DEFINE X == {T \in SUBSET S : \E g : Sums(f, T, g)}
           G(T) == CHOOSE g : Sums(f, T, g)
<1>1. ASSUME NEW T \in SUBSET S, \A U \in SUBSET T : U # T => U \in X
      PROVE  T \in X
  <2> DEFINE h == [U \in SUBSET T |->
                     IF U = {} THEN 0 ELSE f[Pick(U)] + G(U \ {Pick(U)})[U \ {Pick(U)}]]
  <2>1. ASSUME NEW U \in SUBSET T, U # T
        PROVE  h[U] = G(U)[U] /\ Sums(f, U, G(U))
    <3>1. Sums(f, U, G(U))
      BY <1>1, <2>1
    <3>2. G(U)[U] = IF U = {} THEN 0 ELSE f[Pick(U)] + G(U)[U \ {Pick(U)}]
      <4> HIDE DEF G
      <4>1. QED BY <3>1 DEF Sums
    <3>3. CASE U = {}
      BY <3>1, <3>2, <3>3
    <3>4. CASE U # {}
      <4> DEFINE V == U \ {Pick(U)}
      <4>1. V \in SUBSET T /\ V # T /\ V \in SUBSET (U \cap V)
        BY <2>1
      <4>2. Sums(f, V, G(V))
        BY <1>1, <4>1
      <4>3. IsFiniteSet(V)
        BY <4>1, FS_Subset
      <4>4. G(U)[V] = G(V)[V]
        <5> HIDE DEF G, V
        <5>1. QED BY <3>1, <4>1, <4>2, <4>3, SumsAgree
      <4>5. h[U] = f[Pick(U)] + G(V)[V]
        BY <3>4
      <4>6. QED BY <3>1, <3>2, <3>4, <4>4, <4>5
    <3>5. QED BY <3>3, <3>4
  <2>2. ASSUME NEW U \in SUBSET T, U # {}
        PROVE  h[U] = f[Pick(U)] + h[U \ {Pick(U)}]
    <3>1. Pick(U) \in U
      BY <2>2 DEF Pick
    <3>2. U \ {Pick(U)} \in SUBSET T /\ U \ {Pick(U)} # T
      BY <3>1
    <3>3. h[U \ {Pick(U)}] = G(U \ {Pick(U)})[U \ {Pick(U)}]
      BY <2>1, <3>2
    <3>4. QED BY <2>2, <3>3
  <2>3. h[{}] = 0
    OBVIOUS
  <2>4. h = [U \in SUBSET T |-> IF U = {} THEN 0 ELSE f[Pick(U)] + h[U \ {Pick(U)}]]
    <3>1. \E F : h = [U \in SUBSET T |-> F[U]]
      <4>1. h = [U \in SUBSET T |-> h[U]]
        OBVIOUS
      <4> HIDE DEF h
      <4>2. QED BY <4>1
    <3> HIDE DEF h
    <3>2. QED BY <2>2, <2>3, <3>1
  <2>5. Sums(f, T, h)
    <3> HIDE DEF h
    <3>1. QED BY <2>4 DEF Sums
  <2>6. QED BY <2>5
<1>2. S \in X
  <2> HIDE DEF X
  <2>1. QED BY <1>1, SubsetInduction
<1>3. QED BY <1>2

(* So a sum is what one element adds to the sum over the others.           *)
LEMMA SumUnfolds ==
  ASSUME NEW f, NEW S, IsFiniteSet(S)
  PROVE  SumFunctionOnSet(f, S) =
           IF S = {} THEN 0 ELSE f[Pick(S)] + SumFunctionOnSet(f, S \ {Pick(S)})
<1> DEFINE G(T) == CHOOSE g : Sums(f, T, g)
<1>1. \A T : SumFunctionOnSet(f, T) = G(T)[T]
  BY DEF SumFunctionOnSet, FoldFunctionOnSet, MapThenFoldSet, Sums, Pick
<1>2. \A T \in SUBSET S : Sums(f, T, G(T))
  BY SumsExist, FS_Subset
<1>3. CASE S = {}
  <2>1. Sums(f, S, G(S))
    BY <1>2
  <2> HIDE DEF G
  <2>2. G(S)[S] = 0
    BY <1>3, <2>1 DEF Sums
  <2>3. QED BY <1>1, <1>3, <2>2
<1>4. CASE S # {}
  <2> DEFINE T == S \ {Pick(S)}
  <2>1. IsFiniteSet(T) /\ T \in SUBSET (S \cap T)
    BY FS_Subset
  <2>2. Sums(f, S, G(S)) /\ Sums(f, T, G(T))
    BY <1>2
  <2> HIDE DEF G
  <2>3. G(S)[T] = G(T)[T]
    <3> HIDE DEF T
    <3>1. QED BY <2>1, <2>2, SumsAgree
  <2>4. G(S)[S] = f[Pick(S)] + G(S)[T]
    BY <1>4, <2>2 DEF Sums
  <2>5. QED BY <1>1, <1>4, <2>3, <2>4
<1>5. QED BY <1>3, <1>4

(* A sum of integers is one.                                               *)
LEMMA SumType ==
  ASSUME NEW f, NEW S, IsFiniteSet(S), \A x \in S : f[x] \in Int
  PROVE  SumFunctionOnSet(f, S) \in Int
<1> DEFINE X == {T \in SUBSET S : SumFunctionOnSet(f, T) \in Int}
<1>1. ASSUME NEW T \in SUBSET S, \A U \in SUBSET T : U # T => U \in X
      PROVE  T \in X
  <2>1. IsFiniteSet(T)
    BY FS_Subset
  <2>2. CASE T = {}
    <3>1. SumFunctionOnSet(f, T) = 0
      BY <2>1, <2>2, SumUnfolds
    <3>2. QED BY <3>1
  <2>3. CASE T # {}
    <3>1. Pick(T) \in T
      BY <2>3 DEF Pick
    <3>2. SumFunctionOnSet(f, T \ {Pick(T)}) \in Int /\ f[Pick(T)] \in Int
      BY <1>1, <3>1
    <3>3. QED BY <2>1, <2>3, <3>2, SumUnfolds
  <2>4. QED BY <2>2, <2>3
<1>2. S \in X
  <2> HIDE DEF X
  <2>1. QED BY <1>1, SubsetInduction
<1>3. QED BY <1>2

(* Any element may be taken out first.                                     *)
LEMMA SumTakesOut ==
  ASSUME NEW f, NEW S, IsFiniteSet(S), \A x \in S : f[x] \in Int
  PROVE  \A x \in S : SumFunctionOnSet(f, S) = f[x] + SumFunctionOnSet(f, S \ {x})
<1> DEFINE X == {T \in SUBSET S :
                   \A x \in T : SumFunctionOnSet(f, T) = f[x] + SumFunctionOnSet(f, T \ {x})}
<1>1. ASSUME NEW T \in SUBSET S, \A U \in SUBSET T : U # T => U \in X
      PROVE  T \in X
  <2> SUFFICES ASSUME NEW x \in T
               PROVE  SumFunctionOnSet(f, T) = f[x] + SumFunctionOnSet(f, T \ {x})
    OBVIOUS
  <2> DEFINE p == Pick(T)
  <2>1. IsFiniteSet(T) /\ p \in T
    BY FS_Subset DEF Pick
  <2>2. SumFunctionOnSet(f, T) = f[p] + SumFunctionOnSet(f, T \ {p})
    BY <2>1, SumUnfolds
  <2> HIDE DEF p
  <2>3. CASE p # x
    <3>1. SumFunctionOnSet(f, T \ {p}) = f[x] + SumFunctionOnSet(f, (T \ {p}) \ {x})
      BY <1>1, <2>1, <2>3
    <3>2. SumFunctionOnSet(f, T \ {x}) = f[p] + SumFunctionOnSet(f, (T \ {x}) \ {p})
      BY <1>1, <2>1, <2>3
    <3>3. (T \ {x}) \ {p} = (T \ {p}) \ {x}
      OBVIOUS
    <3>4. SumFunctionOnSet(f, (T \ {p}) \ {x}) \in Int /\ f[p] \in Int /\ f[x] \in Int
      <4>1. IsFiniteSet((T \ {p}) \ {x})
        BY <2>1, FS_Subset
      <4>2. QED BY <2>1, <4>1, SumType
    <3> DEFINE rest == SumFunctionOnSet(f, (T \ {p}) \ {x})
    <3>5. /\ SumFunctionOnSet(f, T) = f[p] + (f[x] + rest)
          /\ SumFunctionOnSet(f, T \ {x}) = f[p] + rest
          /\ rest \in Int
      BY <2>2, <3>1, <3>2, <3>3, <3>4
    <3> HIDE DEF rest
    <3>6. f[p] + (f[x] + rest) = f[x] + (f[p] + rest)
      BY <3>4, <3>5
    <3>7. QED BY <3>5, <3>6
  <2>4. QED BY <2>2, <2>3
<1>2. S \in X
  <2> HIDE DEF X
  <2>1. QED BY <1>1, SubsetInduction
<1>3. QED BY <1>2

(* A new element adds its value.                                           *)
LEMMA SumAdds ==
  ASSUME NEW f, NEW S, IsFiniteSet(S), NEW x, x \notin S, \A y \in S \cup {x} : f[y] \in Int
  PROVE  SumFunctionOnSet(f, S \cup {x}) = f[x] + SumFunctionOnSet(f, S)
<1>1. IsFiniteSet(S \cup {x})
  BY FS_AddElement
<1>2. (S \cup {x}) \ {x} = S
  OBVIOUS
<1>3. QED BY <1>1, <1>2, SumTakesOut

(* A sum depends on the values at its elements only.                       *)
LEMMA SumReads ==
  ASSUME NEW f, NEW g, NEW S, IsFiniteSet(S), \A x \in S : f[x] = g[x]
  PROVE  SumFunctionOnSet(f, S) = SumFunctionOnSet(g, S)
<1> DEFINE X == {T \in SUBSET S : SumFunctionOnSet(f, T) = SumFunctionOnSet(g, T)}
<1>1. ASSUME NEW T \in SUBSET S, \A U \in SUBSET T : U # T => U \in X
      PROVE  T \in X
  <2>1. IsFiniteSet(T)
    BY FS_Subset
  <2>2. CASE T = {}
    BY <2>1, <2>2, SumUnfolds
  <2>3. CASE T # {}
    <3>1. Pick(T) \in T
      BY <2>3 DEF Pick
    <3>2. SumFunctionOnSet(f, T \ {Pick(T)}) = SumFunctionOnSet(g, T \ {Pick(T)})
      BY <1>1, <3>1
    <3>3. QED BY <2>1, <2>3, <3>1, <3>2, SumUnfolds
  <2>4. QED BY <2>2, <2>3
<1>2. S \in X
  <2> HIDE DEF X
  <2>1. QED BY <1>1, SubsetInduction
<1>3. QED BY <1>2

-----------------------------------------------------------------------------
(***************************************************************************)
(* What calls are charged                                                  *)
(***************************************************************************)

(* What an allowed intent adds to the budget of agent a.                   *)
Payable(i) == i.type = "EXECUTE" => i.request.amount \in Int

Charge(i, a) == IF i.type = "EXECUTE" /\ i.agent_id = a THEN i.request.amount ELSE 0

(* An evaluation allows what neither the early checks nor a module denies. *)
LEMMA AllowedMeans ==
  ASSUME NEW i, NEW s, NEW mode, Evaluation(i, s, mode).decision = "ALLOW"
  PROVE  /\ EarlyReasons(i, s) = {}
         /\ Denying(i, s) = {}
         /\ Hashable(MergeDeltas(i, s, Merged(i, Denying(i, s), mode)))
         /\ Evaluation(i, s, mode).next
              = WithAuth(i, MergeDeltas(i, s, Merged(i, Denying(i, s), mode)))
<1> DEFINE working == MergeDeltas(i, s, Merged(i, Denying(i, s), mode))
           out     == Evaluation(i, s, mode)
<1> HIDE DEF working
<1>1. out = LET Denied(next, events) == [decision |-> "DENY", next |-> next, events |-> events]
            IN  IF EarlyReasons(i, s) # {} THEN Denied(s, << >>)
                ELSE IF Denying(i, s) # {} THEN Denied(working, <<"INTENT_RECEIVED", "DECISION">>)
                ELSE IF ~(Hashable(working) /\ CanSign) THEN Denied(working, <<"INTENT_RECEIVED">>)
                ELSE [ decision |-> "ALLOW",
                       next     |-> WithAuth(i, working),
                       events   |-> <<"INTENT_RECEIVED", "DECISION", "AUTH_EMITTED">> ]
  BY Zenon DEF Evaluation, working
<1> HIDE DEF out
<1>2. out.decision = "ALLOW"
  BY DEF out
<1>3. QED BY <1>1, <1>2 DEF out, working

(* An allowed intent is charged to its agent, within the budget.           *)
LEMMA AllowedIsCharged ==
  ASSUME NEW s \in State, NEW i, i.agent_id \in Agents => Readable(i),
         NEW mode, Evaluation(i, s, mode).decision = "ALLOW", NEW a \in Agents
  PROVE  LET next == Evaluation(i, s, mode).next
         IN  /\ Charge(i, a) \in Int
             /\ next.spent_in_period[a] = s.spent_in_period[a] + Charge(i, a)
             /\ s.spent_in_period[a] <= BudgetLimit[a] => next.spent_in_period[a] <= BudgetLimit[a]
<1> DEFINE ms      == Merged(i, Denying(i, s), mode)
           working == MergeDeltas(i, s, ms)
           out     == Evaluation(i, s, mode)
<1>1. /\ EarlyReasons(i, s) = {} /\ Denying(i, s) = {}
      /\ out.next = WithAuth(i, working)
  BY AllowedMeans
<1>2. i.agent_id \in Agents
  BY <1>1 DEF EarlyReasons
<1>3. Readable(i)
  BY <1>2
<1>4. i.type = "RELEASE" => ms \cap {"ToolAmplification", "Budget", "Velocity"} = {}
  BY ReleaseMerges
<1>5. i.type = "EXECUTE" => /\ working.spent_in_period[i.agent_id] = s.spent_in_period[i.agent_id] + i.request.amount
                            /\ working.counters[i.agent_id] \in Counter
                            /\ i.request.amount \in Int
  BY <1>1, <1>3, ExecuteCharges
<1>6. i.type = "RELEASE" \/ a # i.agent_id => working.spent_in_period[a] = s.spent_in_period[a]
  <2> HIDE DEF ms
  <2>1. QED BY <1>4 DEF MergeDeltas, State
<1>7. s.spent_in_period[a] <= BudgetLimit[a] => working.spent_in_period[a] <= BudgetLimit[a]
  <2>1. CASE i.type = "EXECUTE" /\ a = i.agent_id
    <3>1. "Budget" \in ms
      BY <1>1, <2>1, ExecuteMergesAll
    <3>2. BudgetReasons(i, s) = {}
      BY <3>1, BudgetAllows
    <3>3. SpentDelta(i, s) <= BudgetLimit[a] /\ SpentDelta(i, s) = s.spent_in_period[a] + i.request.amount
      BY <1>3, <2>1, <3>2, SpentDeltaBound
    <3> HIDE DEF working
    <3>4. QED BY <1>5, <2>1, <3>3
  <2>2. CASE i.type # "EXECUTE" \/ a # i.agent_id
    <3>1. working.spent_in_period[a] = s.spent_in_period[a]
      BY <1>3, <1>6, <2>2 DEF Readable
    <3> HIDE DEF working
    <3>2. QED BY <3>1
  <2>3. QED BY <2>1, <2>2
<1>8. working \in State
  <2> HIDE DEF ms
  <2>1. QED BY <1>3, <1>4, MergeType
<1>9. out.next.spent_in_period = working.spent_in_period
  <2> HIDE DEF working
  <2>1. QED BY <1>1, <1>3, <1>5, <1>8, WithAuthType
<1>10. Charge(i, a) \in Int /\ working.spent_in_period[a] = s.spent_in_period[a] + Charge(i, a)
  <2>1. s.spent_in_period[a] \in Int
    BY DEF State
  <2> HIDE DEF working
  <2>2. CASE i.type = "EXECUTE" /\ a = i.agent_id
    BY <1>5, <2>1, <2>2 DEF Charge
  <2>3. CASE i.type # "EXECUTE" \/ a # i.agent_id
    BY <1>3, <1>6, <2>1, <2>3 DEF Charge, Readable
  <2>4. QED BY <2>2, <2>3
<1> HIDE DEF working, out
<1>11. QED BY <1>7, <1>9, <1>10 DEF out

(* What a set of charged calls has paid of the budget of a.                *)
Payers(C, a) == {e \in C : e.intent.type = "EXECUTE" /\ e.intent.agent_id = a}

PaidBy(C, a) == SumFunction([e \in Payers(C, a) |-> e.intent.request.amount])

LEMMA PaidIsSum ==
  ASSUME NEW C, IsFiniteSet(C), NEW D \in SUBSET C, NEW a
  PROVE  /\ PaidBy(D, a) = SumFunctionOnSet([e \in C |-> e.intent.request.amount], Payers(D, a))
         /\ IsFiniteSet(Payers(D, a))
<1> DEFINE f == [e \in Payers(D, a) |-> e.intent.request.amount]
           g == [e \in C |-> e.intent.request.amount]
<1>1. PaidBy(D, a) = SumFunctionOnSet(f, Payers(D, a))
  BY DEF PaidBy, SumFunction
<1>2. IsFiniteSet(Payers(D, a))
  BY FS_Subset DEF Payers
<1>3. \A e \in Payers(D, a) : f[e] = g[e]
  BY DEF Payers
<1> HIDE DEF f, g
<1>4. SumFunctionOnSet(f, Payers(D, a)) = SumFunctionOnSet(g, Payers(D, a))
  BY <1>2, <1>3, SumReads
<1>5. QED BY <1>1, <1>2, <1>4 DEF g

(* One more charged call pays what it is charged.                          *)
LEMMA PaidAdds ==
  ASSUME NEW C, IsFiniteSet(C), NEW e, e \notin C, \A d \in C \cup {e} : Payable(d.intent), NEW a
  PROVE  /\ PaidBy(C \cup {e}, a) = PaidBy(C, a) + Charge(e.intent, a)
         /\ PaidBy(C, a) \in Int
<1> DEFINE D == C \cup {e}
           g == [d \in D |-> d.intent.request.amount]
<1>1. IsFiniteSet(D)
  BY FS_AddElement
<1>2. /\ PaidBy(C, a) = SumFunctionOnSet(g, Payers(C, a))
      /\ PaidBy(D, a) = SumFunctionOnSet(g, Payers(D, a))
      /\ IsFiniteSet(Payers(C, a))
  <2> HIDE DEF g
  <2>1. C \in SUBSET D /\ D \in SUBSET D
    OBVIOUS
  <2> HIDE DEF D
  <2>2. QED BY <1>1, <2>1, PaidIsSum DEF g
<1>3. \A d \in Payers(D, a) : g[d] \in Int
  BY DEF Payers, Payable
<1>4. PaidBy(C, a) \in Int
  <2>1. \A d \in Payers(C, a) : g[d] \in Int
    BY <1>3 DEF Payers
  <2> HIDE DEF g
  <2>2. QED BY <1>2, <2>1, SumType
<1>5. CASE e.intent.type = "EXECUTE" /\ e.intent.agent_id = a
  <2>1. Payers(D, a) = Payers(C, a) \cup {e} /\ e \notin Payers(C, a)
    BY <1>5 DEF Payers
  <2>2. g[e] = Charge(e.intent, a) /\ g[e] \in Int
    BY <1>5 DEF Charge, Payable
  <2> HIDE DEF g
  <2>3. SumFunctionOnSet(g, Payers(D, a)) = g[e] + SumFunctionOnSet(g, Payers(C, a))
    BY <1>2, <1>3, <2>1, SumAdds
  <2> HIDE DEF D
  <2>4. QED BY <1>2, <1>4, <2>2, <2>3 DEF D
<1>6. CASE ~(e.intent.type = "EXECUTE" /\ e.intent.agent_id = a)
  <2>1. Payers(D, a) = Payers(C, a) /\ Charge(e.intent, a) = 0
    BY <1>6 DEF Payers, Charge
  <2> HIDE DEF D, g
  <2>2. QED BY <1>2, <1>4, <2>1 DEF D
<1>7. QED BY <1>4, <1>5, <1>6

(* What is paid is an integer.                                             *)
LEMMA PaidIsInteger ==
  ASSUME NEW C, IsFiniteSet(C), \A d \in C : Payable(d.intent), NEW a
  PROVE  PaidBy(C, a) \in Int
<1> DEFINE g == [d \in C |-> d.intent.request.amount]
<1>1. /\ PaidBy(C, a) = SumFunctionOnSet(g, Payers(C, a))
      /\ IsFiniteSet(Payers(C, a))
  BY PaidIsSum
<1>2. \A d \in Payers(C, a) : g[d] \in Int
  BY DEF Payers, Payable
<1> HIDE DEF g
<1>3. QED BY <1>1, <1>2, SumType

(* Nobody pays nothing.                                                    *)
LEMMA PaidByNobody ==
  ASSUME NEW a
  PROVE  PaidBy({}, a) = 0 /\ IsFiniteSet({})
<1>1. IsFiniteSet({})
  BY FS_EmptySet
<1>2. PaidBy({}, a) = SumFunctionOnSet([e \in {} |-> e.intent.request.amount], Payers({}, a))
  BY <1>1, PaidIsSum
<1>3. Payers({}, a) = {}
  BY DEF Payers
<1>4. QED BY <1>1, <1>2, <1>3, SumUnfolds

(* The calls S with their intents.                                         *)
Tagged(S) == {[call |-> c, intent |-> intent[c]] : c \in S}

(* What calls have spent is what they pay with their intents.              *)
LEMMA AmountIsPaid ==
  ASSUME NEW S, IsFiniteSet(S), \A c \in S : Payable(intent[c]), NEW a
  PROVE  /\ AmountOf(S, a) = PaidBy(Tagged(S), a)
         /\ IsFiniteSet(Tagged(S))
<1> DEFINE Of(T) == {c \in T : intent[c].type = "EXECUTE" /\ intent[c].agent_id = a}
           f     == [c \in S |-> intent[c].request.amount]
           X     == {T \in SUBSET S : /\ IsFiniteSet(Tagged(T))
                                      /\ SumFunctionOnSet(f, Of(T)) = PaidBy(Tagged(T), a)}
<1>1. ASSUME NEW T \in SUBSET S, \A U \in SUBSET T : U # T => U \in X
      PROVE  T \in X
  <2>1. CASE T = {}
    <3>1. Tagged(T) = {} /\ Of(T) = {}
      BY <2>1 DEF Tagged
    <3>2. SumFunctionOnSet(f, {}) = 0
      BY FS_EmptySet, SumUnfolds
    <3> HIDE DEF f, Of
    <3>3. QED BY <3>1, <3>2, PaidByNobody
  <2>2. CASE T # {}
    <3>1. PICK c \in T : TRUE
      BY <2>2
    <3> DEFINE U == T \ {c}
               e == [call |-> c, intent |-> intent[c]]
    <3>2. U \in X
      BY <1>1, <3>1
    <3>3. Tagged(T) = Tagged(U) \cup {e} /\ e \notin Tagged(U)
      BY <3>1 DEF Tagged
    <3>4. IsFiniteSet(Tagged(T))
      <4>1. IsFiniteSet(Tagged(U))
        BY <3>2
      <4> HIDE DEF e, U, X
      <4>2. IsFiniteSet(Tagged(U) \cup {e})
        BY <4>1, FS_AddElement
      <4>3. QED BY <3>3, <4>2
    <3>5. PaidBy(Tagged(T), a) = PaidBy(Tagged(U), a) + Charge(intent[c], a) /\ PaidBy(Tagged(U), a) \in Int
      <4>1. \A d \in Tagged(U) \cup {e} : Payable(d.intent)
        BY DEF Tagged
      <4>2. e.intent = intent[c]
        OBVIOUS
      <4>3. IsFiniteSet(Tagged(U))
        BY <3>2
      <4> HIDE DEF e, U, X
      <4>4. /\ PaidBy(Tagged(U) \cup {e}, a) = PaidBy(Tagged(U), a) + Charge(e.intent, a)
            /\ PaidBy(Tagged(U), a) \in Int
        BY <3>3, <4>1, <4>3, PaidAdds
      <4>5. QED BY <3>3, <4>2, <4>4
    <3>6. SumFunctionOnSet(f, Of(T)) = SumFunctionOnSet(f, Of(U)) + Charge(intent[c], a)
      <4>1. SumFunctionOnSet(f, Of(U)) \in Int
        BY <3>2, <3>5
      <4>2. CASE intent[c].type = "EXECUTE" /\ intent[c].agent_id = a
        <5>1. Of(T) = Of(U) \cup {c} /\ c \notin Of(U)
          BY <3>1, <4>2
        <5>2. f[c] = Charge(intent[c], a) /\ f[c] \in Int /\ \A d \in Of(U) \cup {c} : f[d] \in Int
          BY <3>1, <4>2 DEF Charge, Payable
        <5>3. IsFiniteSet(Of(U))
          BY FS_Subset
        <5> HIDE DEF f, Of, X
        <5>4. SumFunctionOnSet(f, Of(U) \cup {c}) = f[c] + SumFunctionOnSet(f, Of(U))
          BY <5>1, <5>2, <5>3, SumAdds
        <5>5. QED BY <4>1, <5>1, <5>2, <5>4
      <4>3. CASE ~(intent[c].type = "EXECUTE" /\ intent[c].agent_id = a)
        <5>1. Of(T) = Of(U) /\ Charge(intent[c], a) = 0
          BY <3>1, <4>3 DEF Charge
        <5> HIDE DEF f, Of, X
        <5>2. QED BY <4>1, <5>1
      <4>4. QED BY <4>2, <4>3
    <3>7. SumFunctionOnSet(f, Of(U)) = PaidBy(Tagged(U), a)
      BY <3>2
    <3> HIDE DEF f, Of, U
    <3>8. QED BY <3>4, <3>5, <3>6, <3>7
  <2>3. QED BY <2>1, <2>2
<1>2. S \in X
  <2> HIDE DEF X
  <2>1. QED BY <1>1, SubsetInduction
<1>3. AmountOf(S, a) = SumFunctionOnSet(f, Of(S))
  <2> DEFINE g == [c \in Of(S) |-> intent[c].request.amount]
  <2>1. AmountOf(S, a) = SumFunctionOnSet(g, Of(S))
    BY DEF AmountOf, SumFunction
  <2>2. IsFiniteSet(Of(S)) /\ \A c \in Of(S) : g[c] = f[c]
    BY FS_Subset
  <2> HIDE DEF f, g, Of
  <2>3. QED BY <2>1, <2>2, SumReads
<1>4. QED BY <1>2, <1>3

(* Nobody has spent more than the budget, or less than nothing, when the   *)
(* program starts.                                                         *)
StartsWithinBudget ==
  \A a \in Agents : InitialState.spent_in_period[a] \in 0 .. BudgetLimit[a]

(* A submitted intent can be evaluated, and has a price.                   *)
LEMMA IntentPays ==
  ASSUME NEW i \in Intents
  PROVE  /\ i.agent_id \in Agents => Readable(i)
         /\ Payable(i)
<1>1. i.agent_id \in Agents => Readable(i)
  BY LoadedIsReadable
<1>2. Payable(i)
  BY LimitsAssumption DEF Intents, ExecuteIntents, ReleaseIntents, Payable, Request
<1>3. QED BY <1>1, <1>2

-----------------------------------------------------------------------------
(***************************************************************************)
(* A stored state belongs to whole calls                                   *)
(***************************************************************************)

(* All intents are within one replay window, and no list of nonces reaches *)
(* its cap.                                                                *)
OneWindow ==
  /\ IsFiniteSet(Calls)
  /\ \A t, u \in Timestamps : t <= u + ReplayWindow
  /\ \A a \in Agents : Len(InitialState.nonces[a]) + Cardinality(Calls) <= MaxNonces

OfAgent(C, a) == {e \in C : e.intent.agent_id = a}

(* The state s has spent, counts and lists what the calls C were allowed,  *)
(* and no more.                                                            *)
Reckons(s, C) ==
  \A a \in Agents :
    /\ s.spent_in_period[a] = InitialState.spent_in_period[a] + PaidBy(C, a)
    /\ s.spent_in_period[a] <= BudgetLimit[a]
    /\ s.active[a] = InitialState.active[a] + Cardinality(OfAgent(C, a))
    /\ IssuedFor(s.active_auths[a])
         = IssuedFor(InitialState.active_auths[a])
             \cup {<<e.intent.nonce, e.intent.timestamp>> : e \in OfAgent(C, a)}

(* The state s remembers the nonces of the calls C, all of them different. *)
Remembers(s, C) ==
  \A a \in Agents :
    /\ Len(s.nonces[a]) <= Len(InitialState.nonces[a]) + Cardinality(OfAgent(C, a))
    /\ \A e \in OfAgent(C, a) :
         Lists(s.nonces[a], [nonce |-> e.intent.nonce, ts |-> e.intent.timestamp])
    /\ \A e, f \in OfAgent(C, a) : e # f => e.intent.nonce # f.intent.nonce

Whole(s, C) == Reckons(s, C) /\ (OneWindow => Remembers(s, C))

(* What an allowed EXECUTE leaves of the state it was evaluated on.        *)
LEMMA AllowedExecuteLeaves ==
  ASSUME NEW i, Readable(i), i.type = "EXECUTE", NEW s \in State, NEW mode,
         Evaluation(i, s, mode).decision = "ALLOW"
  PROVE  /\ Evaluation(i, s, mode).next.active = [s.active EXCEPT ![i.agent_id] = @ + 1]
         /\ IssuedFor(Evaluation(i, s, mode).next.active_auths[i.agent_id])
              = IssuedFor(s.active_auths[i.agent_id]) \cup {<<i.nonce, i.timestamp>>}
         /\ \A b \in Agents \ {i.agent_id} :
              Evaluation(i, s, mode).next.active_auths[b] = s.active_auths[b]
         /\ Evaluation(i, s, mode).next.nonces = [s.nonces EXCEPT ![i.agent_id] = ReplayDelta(i, s)]
         /\ ReplayReasons(i, s) = {}
<1> DEFINE a       == i.agent_id
           ms      == Merged(i, Denying(i, s), mode)
           working == MergeDeltas(i, s, ms)
           out     == Evaluation(i, s, mode)
<1>1. Denying(i, s) = {} /\ out.next = WithAuth(i, working)
  BY AllowedMeans
<1>2. {"Concurrency", "Replay"} \subseteq ms
  <2>1. /\ 3 \in DOMAIN Modules(i)
        /\ Modules(i)[3] = "Replay"
        /\ 5 \in DOMAIN Modules(i)
        /\ Modules(i)[5] = "Concurrency"
    BY DEF Modules, ExecuteModules
  <2>2. QED BY <1>1, <2>1 DEF Merged
<1>3. ReplayReasons(i, s) = {}
  <2>1. Reasons("Replay", i, s) = {}
    BY <1>2, MergedModulesAllow
  <2>2. QED BY <2>1, Zenon DEF Reasons
<1> HIDE DEF ms
<1>4. /\ working.active = [s.active EXCEPT ![a] = @ + 1]
      /\ working.nonces = [s.nonces EXCEPT ![a] = ReplayDelta(i, s)]
      /\ working.active_auths = [s.active_auths EXCEPT ![a] = s.active_auths[a]]
  BY <1>2 DEF MergeDeltas, ActiveDelta, ActiveAuthsDelta, MergeInto
<1>5. /\ s.active_auths \in [Agents -> SUBSET AuthId]
      /\ a \in Agents
  BY DEF State, Readable
<1>6. /\ out.next.active = working.active
      /\ out.next.nonces = working.nonces
      /\ out.next.active_auths
           = [working.active_auths EXCEPT ![a] = @ \cup {NewAuth(i, working)}]
  <2>1. /\ WithAuth(i, working).active = working.active
        /\ WithAuth(i, working).nonces = working.nonces
        /\ WithAuth(i, working).active_auths
             = [working.active_auths EXCEPT ![a] = @ \cup {NewAuth(i, working)}]
    BY DEF WithAuth, MergeDeltas, MergeInto
  <2> HIDE DEF working, out
  <2>2. QED BY <1>1, <2>1
<1>7. NewAuth(i, working).nonce = i.nonce /\ NewAuth(i, working).timestamp = i.timestamp
  BY DEF NewAuth
<1> DEFINE new == NewAuth(i, working)
<1> HIDE DEF working, out, new
<1>8. /\ out.next.active_auths[a] = s.active_auths[a] \cup {new}
      /\ \A b \in Agents \ {a} : out.next.active_auths[b] = s.active_auths[b]
  BY <1>4, <1>5, <1>6 DEF new
<1>9. IssuedFor(out.next.active_auths[a]) = IssuedFor(s.active_auths[a]) \cup {<<i.nonce, i.timestamp>>}
  BY <1>7, <1>8 DEF IssuedFor, new
<1>10. QED BY <1>3, <1>4, <1>6, <1>8, <1>9 DEF out

(* One more call of an agent.                                              *)
LEMMA OfAgentAdds ==
  ASSUME NEW C, IsFiniteSet(C), NEW e, e \notin C, NEW a
  PROVE  /\ OfAgent(C \cup {e}, a)
              = IF e.intent.agent_id = a THEN OfAgent(C, a) \cup {e} ELSE OfAgent(C, a)
         /\ Cardinality(OfAgent(C \cup {e}, a))
              = Cardinality(OfAgent(C, a)) + (IF e.intent.agent_id = a THEN 1 ELSE 0)
         /\ Cardinality(OfAgent(C, a)) \in Nat
         /\ Cardinality(OfAgent(C, a)) <= Cardinality(C)
<1>1. OfAgent(C \cup {e}, a)
        = IF e.intent.agent_id = a THEN OfAgent(C, a) \cup {e} ELSE OfAgent(C, a)
  BY DEF OfAgent
<1>2. /\ IsFiniteSet(OfAgent(C, a))
      /\ Cardinality(OfAgent(C, a)) <= Cardinality(C)
  BY FS_Subset DEF OfAgent
<1>3. Cardinality(OfAgent(C, a)) \in Nat
  BY <1>2, FS_CardinalityType
<1>4. e \notin OfAgent(C, a)
  BY DEF OfAgent
<1>5. Cardinality(OfAgent(C, a) \cup {e}) = Cardinality(OfAgent(C, a)) + 1
  BY <1>2, <1>4, FS_AddElement
<1>6. QED BY <1>1, <1>2, <1>3, <1>5

(* An allowed EXECUTE adds itself to what a state reckons with.            *)
LEMMA ReckonsNext ==
  ASSUME NEW s \in State, NEW C, IsFiniteSet(C), Reckons(s, C), \A f \in C : Payable(f.intent),
         NEW e, e \notin C, Readable(e.intent), Payable(e.intent), e.intent.type = "EXECUTE",
         NEW mode, Evaluation(e.intent, s, mode).decision = "ALLOW"
  PROVE  Reckons(Evaluation(e.intent, s, mode).next, C \cup {e})
<1> DEFINE i    == e.intent
           next == Evaluation(i, s, mode).next
<1> SUFFICES ASSUME NEW a \in Agents
             PROVE  /\ next.spent_in_period[a] = InitialState.spent_in_period[a] + PaidBy(C \cup {e}, a)
                    /\ next.spent_in_period[a] <= BudgetLimit[a]
                    /\ next.active[a] = InitialState.active[a] + Cardinality(OfAgent(C \cup {e}, a))
                    /\ IssuedFor(next.active_auths[a])
                         = IssuedFor(InitialState.active_auths[a])
                             \cup {<<f.intent.nonce, f.intent.timestamp>> : f \in OfAgent(C \cup {e}, a)}
  BY DEF Reckons
<1>1. /\ s.spent_in_period[a] = InitialState.spent_in_period[a] + PaidBy(C, a)
      /\ s.spent_in_period[a] <= BudgetLimit[a]
      /\ s.active[a] = InitialState.active[a] + Cardinality(OfAgent(C, a))
      /\ IssuedFor(s.active_auths[a])
           = IssuedFor(InitialState.active_auths[a])
               \cup {<<f.intent.nonce, f.intent.timestamp>> : f \in OfAgent(C, a)}
  BY DEF Reckons
<1>2. /\ Charge(i, a) \in Int
      /\ next.spent_in_period[a] = s.spent_in_period[a] + Charge(i, a)
      /\ next.spent_in_period[a] <= BudgetLimit[a]
  BY <1>1, AllowedIsCharged
<1>3. /\ PaidBy(C \cup {e}, a) = PaidBy(C, a) + Charge(i, a)
      /\ PaidBy(C, a) \in Int
  BY PaidAdds
<1>4. /\ next.active = [s.active EXCEPT ![i.agent_id] = @ + 1]
      /\ IssuedFor(next.active_auths[i.agent_id])
           = IssuedFor(s.active_auths[i.agent_id]) \cup {<<i.nonce, i.timestamp>>}
      /\ \A b \in Agents \ {i.agent_id} : next.active_auths[b] = s.active_auths[b]
  <2> HIDE DEF i
  <2>1. Readable(i) /\ i.type = "EXECUTE" /\ Evaluation(i, s, mode).decision = "ALLOW"
    BY DEF i
  <2>2. /\ next.active = [s.active EXCEPT ![i.agent_id] = @ + 1]
        /\ IssuedFor(next.active_auths[i.agent_id])
             = IssuedFor(s.active_auths[i.agent_id]) \cup {<<i.nonce, i.timestamp>>}
        /\ \A b \in Agents \ {i.agent_id} : next.active_auths[b] = s.active_auths[b]
        /\ next.nonces = [s.nonces EXCEPT ![i.agent_id] = ReplayDelta(i, s)]
        /\ ReplayReasons(i, s) = {}
    BY <2>1, AllowedExecuteLeaves, Zenon
  <2> HIDE DEF next
  <2>3. QED BY <2>2
<1>5. /\ OfAgent(C \cup {e}, a) = IF i.agent_id = a THEN OfAgent(C, a) \cup {e} ELSE OfAgent(C, a)
      /\ Cardinality(OfAgent(C \cup {e}, a))
           = Cardinality(OfAgent(C, a)) + (IF i.agent_id = a THEN 1 ELSE 0)
      /\ Cardinality(OfAgent(C, a)) \in Nat
      /\ Cardinality(OfAgent(C, a)) <= Cardinality(C)
  BY OfAgentAdds, Zenon
<1>6. /\ s.active \in [Agents -> Nat]
      /\ InitialState.active[a] \in Nat
      /\ InitialState.spent_in_period[a] \in Int
      /\ i.agent_id \in Agents
  BY GuardAssumption DEF State, Readable
<1> HIDE DEF next
<1>7. next.spent_in_period[a] = InitialState.spent_in_period[a] + PaidBy(C \cup {e}, a)
  <2> HIDE DEF i
  <2>1. QED BY <1>1, <1>2, <1>3, <1>6
<1>8. next.active[a] = InitialState.active[a] + Cardinality(OfAgent(C \cup {e}, a))
  BY <1>1, <1>4, <1>5, <1>6
<1>9. IssuedFor(next.active_auths[a])
        = IssuedFor(InitialState.active_auths[a])
            \cup {<<f.intent.nonce, f.intent.timestamp>> : f \in OfAgent(C \cup {e}, a)}
  <2>1. CASE i.agent_id = a
    BY <1>1, <1>4, <1>5, <2>1
  <2>2. CASE i.agent_id # a
    <3>1. next.active_auths[a] = s.active_auths[a]
      BY <1>4, <2>2
    <3>2. QED BY <1>1, <1>5, <2>2, <3>1
  <2>3. QED BY <2>1, <2>2
<1>10. QED BY <1>2, <1>7, <1>8, <1>9

(* And its nonce to those the state remembers.                             *)
LEMMA RemembersNext ==
  ASSUME OneWindow,
         NEW s \in State, NEW C, IsFiniteSet(C), Cardinality(C) < Cardinality(Calls), Remembers(s, C),
         \A f \in C : f.intent.timestamp \in Timestamps,
         NEW e, e \notin C, Readable(e.intent), e.intent.type = "EXECUTE", e.intent.timestamp \in Timestamps,
         NEW mode, Evaluation(e.intent, s, mode).decision = "ALLOW"
  PROVE  Remembers(Evaluation(e.intent, s, mode).next, C \cup {e})
<1> DEFINE i        == e.intent
           next     == Evaluation(i, s, mode).next
           Entry(f) == [nonce |-> f.intent.nonce, ts |-> f.intent.timestamp]
<1>1. /\ next.nonces = [s.nonces EXCEPT ![i.agent_id] = ReplayDelta(i, s)]
      /\ ReplayReasons(i, s) = {}
  <2> HIDE DEF i
  <2>1. Readable(i) /\ i.type = "EXECUTE" /\ Evaluation(i, s, mode).decision = "ALLOW"
    BY DEF i
  <2>2. /\ next.active = [s.active EXCEPT ![i.agent_id] = @ + 1]
        /\ IssuedFor(next.active_auths[i.agent_id])
             = IssuedFor(s.active_auths[i.agent_id]) \cup {<<i.nonce, i.timestamp>>}
        /\ \A b \in Agents \ {i.agent_id} : next.active_auths[b] = s.active_auths[b]
        /\ next.nonces = [s.nonces EXCEPT ![i.agent_id] = ReplayDelta(i, s)]
        /\ ReplayReasons(i, s) = {}
    BY <2>1, AllowedExecuteLeaves, Zenon
  <2> HIDE DEF next
  <2>3. QED BY <2>2
<1>2. /\ s.nonces \in [Agents -> Seq(NonceEntry)]
      /\ i.agent_id \in Agents
      /\ i.timestamp \in Nat
      /\ ReplayWindow \in Nat
      /\ MaxNonces \in Nat
      /\ \A a \in Agents : Len(InitialState.nonces[a]) \in Nat /\ Len(s.nonces[a]) \in Nat
  <2>1. /\ s.nonces \in [Agents -> Seq(NonceEntry)]
        /\ InitialState.nonces \in [Agents -> Seq(NonceEntry)]
    BY GuardAssumption DEF State
  <2>2. i.agent_id \in Agents /\ i.timestamp \in Nat
    BY DEF Readable
  <2>3. ReplayWindow \in Nat /\ MaxNonces \in Nat
    BY LimitsAssumption
  <2>4. QED BY <2>1, <2>2, <2>3
<1> HIDE DEF next
<1> SUFFICES ASSUME NEW a \in Agents
             PROVE  /\ Len(next.nonces[a]) <= Len(InitialState.nonces[a]) + Cardinality(OfAgent(C \cup {e}, a))
                    /\ \A f \in OfAgent(C \cup {e}, a) : Lists(next.nonces[a], Entry(f))
                    /\ \A f, g \in OfAgent(C \cup {e}, a) : f # g => f.intent.nonce # g.intent.nonce
  BY DEF Remembers, next
<1>3. /\ OfAgent(C \cup {e}, a) = IF i.agent_id = a THEN OfAgent(C, a) \cup {e} ELSE OfAgent(C, a)
      /\ Cardinality(OfAgent(C \cup {e}, a))
           = Cardinality(OfAgent(C, a)) + (IF i.agent_id = a THEN 1 ELSE 0)
      /\ Cardinality(OfAgent(C, a)) \in Nat
      /\ Cardinality(OfAgent(C, a)) <= Cardinality(C)
  BY OfAgentAdds, Zenon
<1>9. Cardinality(C) \in Nat
  BY FS_CardinalityType
<1>4. /\ Len(s.nonces[a]) <= Len(InitialState.nonces[a]) + Cardinality(OfAgent(C, a))
      /\ \A f \in OfAgent(C, a) : Lists(s.nonces[a], Entry(f))
      /\ \A f, g \in OfAgent(C, a) : f # g => f.intent.nonce # g.intent.nonce
  BY DEF Remembers
<1>5. CASE i.agent_id # a
  <2>1. next.nonces[a] = s.nonces[a]
    BY <1>1, <1>2, <1>5
  <2>2. QED BY <1>3, <1>4, <1>5, <2>1
<1>6. CASE i.agent_id = a
  <2>1. next.nonces[a] = ReplayDelta(i, s)
    BY <1>1, <1>2, <1>6
  <2>2. Len(s.nonces[a]) < MaxNonces
    <3>1. /\ Cardinality(Calls) \in Nat
          /\ Len(InitialState.nonces[a]) + Cardinality(Calls) <= MaxNonces
      BY FS_CardinalityType DEF OneWindow
    <3>2. QED BY <1>2, <1>3, <1>4, <1>9, <3>1
  <2>3. /\ Len(ReplayDelta(i, s)) <= Len(s.nonces[a]) + 1
        /\ Lists(ReplayDelta(i, s), Entry(e))
        /\ \A x : Lists(s.nonces[a], x) /\ x.ts >= i.timestamp - ReplayWindow
                    => Lists(ReplayDelta(i, s), x) /\ x.nonce # i.nonce
    BY <1>1, <1>6, <2>2, ReplayRemembers
  <2>4. ASSUME NEW f \in OfAgent(C, a)
        PROVE  Lists(ReplayDelta(i, s), Entry(f)) /\ f.intent.nonce # i.nonce
    <3>1. f.intent.timestamp \in Timestamps
      BY DEF OfAgent
    <3>2. f.intent.timestamp \in Nat /\ i.timestamp <= f.intent.timestamp + ReplayWindow
      BY <3>1, GuardAssumption DEF OneWindow
    <3>3. Entry(f).ts >= i.timestamp - ReplayWindow /\ Entry(f).nonce = f.intent.nonce
      BY <1>2, <3>2
    <3>4. QED BY <1>4, <2>3, <3>3
  <2>5. Len(next.nonces[a]) <= Len(InitialState.nonces[a]) + Cardinality(OfAgent(C \cup {e}, a))
    <3>1. Len(ReplayDelta(i, s)) \in Nat
      BY <1>2, <1>6, <2>1, ReplayTypes
    <3>2. QED BY <1>2, <1>3, <1>4, <1>6, <2>1, <2>3, <3>1
  <2>6. OfAgent(C \cup {e}, a) = OfAgent(C, a) \cup {e}
    BY <1>3, <1>6
  <2> HIDE DEF i
  <2>7. \A f \in OfAgent(C \cup {e}, a) : Lists(next.nonces[a], Entry(f))
    BY <2>1, <2>3, <2>4, <2>6
  <2>8. \A f, g \in OfAgent(C \cup {e}, a) : f # g => f.intent.nonce # g.intent.nonce
    BY <1>4, <2>4, <2>6 DEF i
  <2>9. QED BY <2>5, <2>7, <2>8
<1>7. QED BY <1>5, <1>6

(* s belongs to some of the calls A, whose intents are those of m.         *)
Accounted(s, A, m) ==
  \E S \in SUBSET A : Whole(s, {[call |-> c, intent |-> m[c]] : c \in S})

AllExecute == \A c \in allowed : intent[c].type = "EXECUTE"

(* The stages on the way to the save.                                      *)
Keeping == {"appending", "appended", "executing", "executed", "saving"}

(* Only an allowed call executes or saves; and, as long as no authorization *)
(* is released, what is stored, what a call has loaded and what an allowed *)
(* call is about to save each belong to whole calls.                       *)
StoreInv ==
  /\ Inv
  /\ IsFiniteSet(allowed)
  /\ \A c \in Calls : pc[c] = "loaded" \/ c \in allowed =>
       /\ intent[c].agent_id \in Agents => Readable(intent[c])
       /\ Payable(intent[c])
       /\ intent[c].timestamp \in Timestamps
  /\ \A c \in allowed : intent[c].agent_id \in Agents
  /\ \A c \in Calls : pc[c] \in {"executing", "executed", "saving", "saved"} => c \in allowed
  /\ AllExecute =>
       /\ Accounted(store, allowed, intent)
       /\ \A c \in Calls :
            pc[c] = "loaded" \/ (c \in allowed /\ pc[c] \in Keeping) =>
              Accounted(held[c], allowed, intent)

(* More allowed calls change nothing.                                      *)
LEMMA StaysAccounted ==
  ASSUME NEW s, NEW A, NEW m, Accounted(s, A, m),
         NEW B, A \subseteq B, NEW n, \A c \in A : n[c] = m[c]
  PROVE  Accounted(s, B, n)
<1>1. PICK S \in SUBSET A : Whole(s, {[call |-> c, intent |-> m[c]] : c \in S})
  BY DEF Accounted
<1>2. {[call |-> c, intent |-> n[c]] : c \in S} = {[call |-> c, intent |-> m[c]] : c \in S}
  OBVIOUS
<1>3. S \in SUBSET B
  OBVIOUS
<1>4. QED BY <1>1, <1>2, <1>3 DEF Accounted

(* The state before the first call belongs to no call.                     *)
LEMMA StartsWhole ==
  ASSUME StartsWithinBudget, NEW m
  PROVE  Accounted(InitialState, {}, m)
<1>1. \A a : PaidBy({}, a) = 0 /\ OfAgent({}, a) = {} /\ Cardinality({}) = 0
  BY PaidByNobody, FS_EmptySet DEF OfAgent
<1>2. \A a \in Agents : /\ InitialState.spent_in_period[a] \in Int
                        /\ InitialState.active[a] \in Nat
                        /\ Len(InitialState.nonces[a]) \in Nat
  BY GuardAssumption DEF State
<1> DEFINE none == {}
<1>3. \A a : PaidBy(none, a) = 0 /\ OfAgent(none, a) = {} /\ Cardinality(OfAgent(none, a)) = 0
  BY <1>1
<1> HIDE DEF none
<1>4. Reckons(InitialState, none) /\ Remembers(InitialState, none)
  <2>1. Reckons(InitialState, none)
    BY <1>2, <1>3, LimitsAssumption DEF Reckons, StartsWithinBudget
  <2>2. Remembers(InitialState, none)
    BY <1>2, <1>3 DEF Remembers
  <2>3. QED BY <2>1, <2>2
<1>5. {[call |-> c, intent |-> m[c]] : c \in {}} = none
  BY DEF none
<1>6. QED BY <1>4, <1>5 DEF Accounted, Whole

LEMMA StoreInit ==
  ASSUME StartsWithinBudget, Init
  PROVE  StoreInv
<1>1. Inv
  BY Starts
<1>2. IsFiniteSet(allowed)
  BY FS_EmptySet DEF Init
<1>3. /\ allowed = {}
      /\ store = InitialState
      /\ \A c \in Calls : pc[c] = "idle"
  BY DEF Init
<1>4. Accounted(store, allowed, intent)
  BY <1>3, StartsWhole
<1>5. QED BY <1>1, <1>2, <1>3, <1>4 DEF StoreInv

(* The tagged calls are as many as the calls.                              *)
LEMMA TagsCount ==
  ASSUME NEW S, IsFiniteSet(S), NEW m
  PROVE  /\ IsFiniteSet({[call |-> c, intent |-> m[c]] : c \in S})
         /\ Cardinality({[call |-> c, intent |-> m[c]] : c \in S}) = Cardinality(S)
<1> DEFINE Tags(T) == {[call |-> c, intent |-> m[c]] : c \in T}
           X       == {T \in SUBSET S : IsFiniteSet(Tags(T)) /\ Cardinality(Tags(T)) = Cardinality(T)}
<1>1. ASSUME NEW T \in SUBSET S, \A U \in SUBSET T : U # T => U \in X
      PROVE  T \in X
  <2>1. CASE T = {}
    <3>1. Tags(T) = {}
      BY <2>1
    <3> HIDE DEF Tags
    <3>2. QED BY <2>1, <3>1, FS_EmptySet
  <2>2. CASE T # {}
    <3>1. PICK c \in T : TRUE
      BY <2>2
    <3> DEFINE U == T \ {c}
               e == [call |-> c, intent |-> m[c]]
    <3>2. U \in X /\ T = U \cup {c} /\ c \notin U
      BY <1>1, <3>1
    <3>3. Tags(T) = Tags(U) \cup {e} /\ e \notin Tags(U)
      BY <3>1
    <3>4. IsFiniteSet(U)
      BY FS_Subset
    <3>5. IsFiniteSet(Tags(U)) /\ Cardinality(Tags(U)) = Cardinality(U)
      BY <3>2
    <3> HIDE DEF e, U, X, Tags
    <3>6. IsFiniteSet(Tags(T)) /\ Cardinality(Tags(T)) = Cardinality(Tags(U)) + 1
      BY <3>3, <3>5, FS_AddElement
    <3>7. Cardinality(T) = Cardinality(U) + 1
      BY <3>2, <3>4, FS_AddElement
    <3>8. QED BY <3>5, <3>6, <3>7 DEF X
  <2>3. QED BY <2>1, <2>2
<1>2. S \in X
  <2> HIDE DEF X
  <2>1. QED BY <1>1, SubsetInduction
<1>3. QED BY <1>2

(* An allowed EXECUTE that was evaluated on the state of whole calls       *)
(* leaves the state of one more.                                           *)
LEMMA EvaluationAccounts ==
  ASSUME StoreInv, AllExecute, NEW c \in Calls, pc[c] = "loaded", c \notin allowed,
         Evaluation(intent[c], held[c], "fail-fast").decision = "ALLOW",
         intent[c].type = "EXECUTE", intent[c].agent_id \in Agents
  PROVE  Accounted(Evaluation(intent[c], held[c], "fail-fast").next, allowed \cup {c}, intent)
<1> DEFINE Tags(S) == {[call |-> d, intent |-> intent[d]] : d \in S}
           e       == [call |-> c, intent |-> intent[c]]
<1>1. PICK S \in SUBSET allowed : Whole(held[c], Tags(S))
  BY DEF StoreInv, Accounted
<1>2. /\ IsFiniteSet(S)
      /\ IsFiniteSet(Tags(S))
      /\ Cardinality(Tags(S)) = Cardinality(S)
  <2>1. IsFiniteSet(S)
    BY FS_Subset DEF StoreInv
  <2>2. QED BY <2>1, TagsCount
<1>3. /\ held[c] \in State
      /\ allowed \subseteq Calls
  BY DEF StoreInv, Inv, Holding, Busy, TypeOK
<1>4. e \notin Tags(S) /\ e.intent = intent[c] /\ Tags(S \cup {c}) = Tags(S) \cup {e}
  OBVIOUS
<1>5. /\ \A f \in Tags(S) : Payable(f.intent) /\ f.intent.timestamp \in Timestamps
      /\ Readable(e.intent)
      /\ Payable(e.intent)
      /\ e.intent.timestamp \in Timestamps
      /\ e.intent.type = "EXECUTE"
  <2>1. \A d \in S : Payable(intent[d]) /\ intent[d].timestamp \in Timestamps
    BY <1>3 DEF StoreInv
  <2>2. Readable(intent[c]) /\ Payable(intent[c]) /\ intent[c].timestamp \in Timestamps
    BY DEF StoreInv
  <2>3. QED BY <2>1, <2>2
<1> DEFINE C    == Tags(S)
           next == Evaluation(e.intent, held[c], "fail-fast").next
<1>6. Evaluation(e.intent, held[c], "fail-fast").decision = "ALLOW"
  BY <1>4
<1>7. IsFiniteSet(Calls) => Cardinality(C) < Cardinality(Calls)
  <2> SUFFICES ASSUME IsFiniteSet(Calls) PROVE Cardinality(C) < Cardinality(Calls)
    OBVIOUS
  <2>1. S \in SUBSET Calls /\ S # Calls
    BY <1>3
  <2>2. /\ Cardinality(S) <= Cardinality(Calls)
        /\ Cardinality(S) # Cardinality(Calls)
        /\ Cardinality(S) \in Nat
        /\ Cardinality(Calls) \in Nat
    BY <1>2, <2>1, FS_Subset, FS_CardinalityType
  <2> HIDE DEF Tags
  <2>3. QED BY <1>2, <2>2
<1> HIDE DEF Tags, e
<1>8. Whole(held[c], C)
  BY <1>1
<1>9. IsFiniteSet(C) /\ e \notin C /\ \A f \in C : Payable(f.intent) /\ f.intent.timestamp \in Timestamps
  BY <1>2, <1>4, <1>5
<1> HIDE DEF C
<1>10. Reckons(next, C \cup {e})
  <2>1. Reckons(held[c], C)
    BY <1>8 DEF Whole
  <2>2. QED BY <1>3, <1>5, <1>6, <1>9, <2>1, ReckonsNext
<1>11. OneWindow => Remembers(next, C \cup {e})
  <2> SUFFICES ASSUME OneWindow PROVE Remembers(next, C \cup {e})
    OBVIOUS
  <2>1. Remembers(held[c], C)
    BY <1>8 DEF Whole
  <2>2. Cardinality(C) < Cardinality(Calls)
    BY <1>7 DEF OneWindow
  <2>3. QED BY <1>3, <1>5, <1>6, <1>9, <2>1, <2>2, RemembersNext
<1>12. Whole(next, C \cup {e})
  BY <1>10, <1>11 DEF Whole
<1>13. Whole(next, Tags(S \cup {c})) /\ next = Evaluation(intent[c], held[c], "fail-fast").next
  BY <1>4, <1>12 DEF C
<1>14. S \cup {c} \in SUBSET (allowed \cup {c})
  OBVIOUS
<1>15. QED BY <1>13, <1>14 DEF Accounted, Tags

(* A step that neither loads nor evaluates keeps what is accounted for: a  *)
(* save stores what an allowed call holds.                                 *)
LEMMA StoreStays ==
  ASSUME StoreInv, Inv', UNCHANGED <<allowed, intent>>,
         \A d \in Calls : pc'[d] = "loaded" => pc[d] = "loaded" /\ held'[d] = held[d],
         \A d \in allowed : pc'[d] \in Keeping => pc[d] \in Keeping /\ held'[d] = held[d],
         \A d \in Calls : pc'[d] \in {"executing", "executed", "saving", "saved"} => d \in allowed,
         \/ store' = store
         \/ \E c \in allowed : pc[c] \in Keeping /\ store' = held[c]
  PROVE  StoreInv'
<1>1. AllExecute' <=> AllExecute
  BY DEF AllExecute
<1>2. ASSUME AllExecute
      PROVE  Accounted(store', allowed, intent)
  <2>1. allowed \subseteq Calls
    BY DEF StoreInv, Inv, TypeOK
  <2>2. QED BY <1>2, <2>1 DEF StoreInv
<1>3. ASSUME AllExecute, NEW c \in Calls, pc'[c] = "loaded" \/ (c \in allowed /\ pc'[c] \in Keeping)
      PROVE  Accounted(held'[c], allowed, intent)
  <2>1. held'[c] = held[c] /\ (pc[c] = "loaded" \/ (c \in allowed /\ pc[c] \in Keeping))
    BY <1>3
  <2>2. QED BY <1>3, <2>1 DEF StoreInv
<1>4. Accounted(store, allowed, intent)' <=> Accounted(store', allowed, intent)
  OBVIOUS
<1>5. \A c \in Calls : Accounted(held[c], allowed, intent)' <=> Accounted(held'[c], allowed, intent)
  OBVIOUS
<1>6. /\ IsFiniteSet(allowed)'
      /\ (\A c \in Calls : pc[c] = "loaded" \/ c \in allowed =>
            /\ intent[c].agent_id \in Agents => Readable(intent[c])
            /\ Payable(intent[c])
            /\ intent[c].timestamp \in Timestamps)'
      /\ (\A c \in allowed : intent[c].agent_id \in Agents)'
      /\ (\A c \in Calls : pc[c] \in {"executing", "executed", "saving", "saved"} => c \in allowed)'
  BY DEF StoreInv
<1>7. (AllExecute =>
         /\ Accounted(store, allowed, intent)
         /\ \A c \in Calls :
              pc[c] = "loaded" \/ (c \in allowed /\ pc[c] \in Keeping) =>
                Accounted(held[c], allowed, intent))'
  BY <1>1, <1>2, <1>3, <1>4, <1>5
<1>8. QED BY <1>6, <1>7 DEF StoreInv

(* A load takes the stored state.                                          *)
LEMMA LoadAccounts ==
  ASSUME StoreInv, Inv', NEW c \in Calls, Load(c)
  PROVE  StoreInv'
<1>1. /\ pc[c] = "idle"
      /\ pc' = [pc EXCEPT ![c] = "loaded"]
      /\ held' = [held EXCEPT ![c] = store]
      /\ UNCHANGED <<store, allowed>>
      /\ \E i \in Intents : intent' = [intent EXCEPT ![c] = i]
  BY DEF Load
<1>2. /\ DOMAIN pc = Calls
      /\ DOMAIN held = Calls
      /\ DOMAIN intent = Calls
      /\ c \notin allowed
      /\ allowed \subseteq Calls
  BY <1>1 DEF StoreInv, Inv, TypeOK, Holding, NoTraceYet
<1>3. /\ pc'[c] = "loaded"
      /\ held'[c] = store
      /\ intent'[c] \in Intents
      /\ \A d \in Calls \ {c} : pc'[d] = pc[d] /\ held'[d] = held[d] /\ intent'[d] = intent[d]
  BY <1>1, <1>2
<1>4. /\ intent'[c].agent_id \in Agents => Readable(intent'[c])
      /\ Payable(intent'[c])
      /\ intent'[c].timestamp \in Timestamps
  <2>1. intent'[c].timestamp \in Timestamps
    BY <1>3 DEF Intents, ExecuteIntents, ReleaseIntents
  <2>2. QED BY <1>3, <2>1, IntentPays
<1>5. \A d \in allowed : intent'[d] = intent[d]
  BY <1>2, <1>3
<1>6. AllExecute' => AllExecute
  BY <1>1, <1>5 DEF AllExecute
<1>7. \A s : Accounted(s, allowed, intent) => Accounted(s, allowed, intent')
  BY <1>5, StaysAccounted
<1>8. (AllExecute =>
         /\ Accounted(store, allowed, intent)
         /\ \A d \in Calls :
              pc[d] = "loaded" \/ (d \in allowed /\ pc[d] \in Keeping) =>
                Accounted(held[d], allowed, intent))'
  <2> SUFFICES ASSUME AllExecute'
               PROVE  /\ Accounted(store', allowed', intent')
                      /\ \A d \in Calls :
                           pc'[d] = "loaded" \/ (d \in allowed' /\ pc'[d] \in Keeping) =>
                             Accounted(held'[d], allowed', intent')
    OBVIOUS
  <2>1. /\ Accounted(store, allowed, intent)
        /\ \A d \in Calls :
             pc[d] = "loaded" \/ (d \in allowed /\ pc[d] \in Keeping) =>
               Accounted(held[d], allowed, intent)
    BY <1>6 DEF StoreInv
  <2>2. Accounted(store', allowed', intent')
    BY <1>1, <1>7, <2>1
  <2>3. ASSUME NEW d \in Calls, pc'[d] = "loaded" \/ (d \in allowed' /\ pc'[d] \in Keeping)
        PROVE  Accounted(held'[d], allowed', intent')
    <3>1. CASE d = c
      BY <1>1, <1>3, <1>7, <2>1, <3>1
    <3>2. CASE d # c
      BY <1>1, <1>3, <1>7, <2>1, <2>3, <3>2
    <3>3. QED BY <3>1, <3>2
  <2>4. QED BY <2>2, <2>3
<1>9. /\ IsFiniteSet(allowed)'
      /\ (\A d \in Calls : pc[d] = "loaded" \/ d \in allowed =>
            /\ intent[d].agent_id \in Agents => Readable(intent[d])
            /\ Payable(intent[d])
            /\ intent[d].timestamp \in Timestamps)'
      /\ (\A d \in allowed : intent[d].agent_id \in Agents)'
      /\ (\A d \in Calls : pc[d] \in {"executing", "executed", "saving", "saved"} => d \in allowed)'
  <2>1. \A d \in Calls : pc'[d] = "loaded" \/ d \in allowed' =>
            /\ intent'[d].agent_id \in Agents => Readable(intent'[d])
            /\ Payable(intent'[d])
            /\ intent'[d].timestamp \in Timestamps
    BY <1>1, <1>3, <1>4 DEF StoreInv
  <2>2. \A d \in allowed' : intent'[d].agent_id \in Agents
    BY <1>1, <1>5 DEF StoreInv
  <2>3. \A d \in Calls : pc'[d] \in {"executing", "executed", "saving", "saved"} => d \in allowed'
    BY <1>1, <1>3 DEF StoreInv
  <2>4. IsFiniteSet(allowed')
    BY <1>1 DEF StoreInv
  <2>5. QED BY <2>1, <2>2, <2>3, <2>4 DEF Readable, Payable
<1>10. QED BY <1>8, <1>9 DEF StoreInv

(* An evaluation on the state of whole calls leaves the state of one more, *)
(* if it allows the call.                                                  *)
LEMMA EvaluateAccounts ==
  ASSUME StoreInv, Inv', NEW c \in Calls, Evaluate(c)
  PROVE  StoreInv'
<1> DEFINE out == Evaluation(intent[c], held[c], "fail-fast")
<1>1. /\ pc[c] = "loaded"
      /\ pc' = [pc EXCEPT ![c] = "appending"]
      /\ held' = [held EXCEPT ![c] = out.next]
      /\ allowed' = IF out.decision = "ALLOW" THEN allowed \cup {c} ELSE allowed
      /\ UNCHANGED <<store, intent>>
  BY DEF Evaluate
<1>2. /\ DOMAIN pc = Calls
      /\ DOMAIN held = Calls
      /\ c \notin allowed
      /\ allowed \subseteq Calls
  BY <1>1 DEF StoreInv, Inv, TypeOK, NoTraceYet
<1>3. out.decision = "ALLOW" => intent[c].agent_id \in Agents
  BY AllowedMeans DEF EarlyReasons
<1>4. ASSUME out.decision = "ALLOW", AllExecute, intent[c].type = "EXECUTE"
      PROVE  Accounted(out.next, allowed \cup {c}, intent)
  BY <1>1, <1>2, <1>3, <1>4, EvaluationAccounts
<1> HIDE DEF out
<1>5. /\ pc'[c] = "appending"
      /\ held'[c] = out.next
      /\ \A d \in Calls \ {c} : pc'[d] = pc[d] /\ held'[d] = held[d]
  BY <1>1, <1>2
<1>6. allowed \subseteq allowed' /\ allowed' \subseteq allowed \cup {c} /\ (c \in allowed' => out.decision = "ALLOW")
  BY <1>1, <1>2
<1>7. \A s : Accounted(s, allowed, intent) => Accounted(s, allowed', intent)
  BY <1>6, StaysAccounted
<1>8. AllExecute' => AllExecute /\ (c \in allowed' => intent[c].type = "EXECUTE")
  BY <1>1, <1>6 DEF AllExecute
<1>9. (AllExecute =>
         /\ Accounted(store, allowed, intent)
         /\ \A d \in Calls :
              pc[d] = "loaded" \/ (d \in allowed /\ pc[d] \in Keeping) =>
                Accounted(held[d], allowed, intent))'
  <2> SUFFICES ASSUME AllExecute'
               PROVE  /\ Accounted(store', allowed', intent')
                      /\ \A d \in Calls :
                           pc'[d] = "loaded" \/ (d \in allowed' /\ pc'[d] \in Keeping) =>
                             Accounted(held'[d], allowed', intent')
    OBVIOUS
  <2>1. /\ Accounted(store, allowed, intent)
        /\ \A d \in Calls :
             pc[d] = "loaded" \/ (d \in allowed /\ pc[d] \in Keeping) =>
               Accounted(held[d], allowed, intent)
    BY <1>8 DEF StoreInv
  <2>2. Accounted(store', allowed', intent')
    BY <1>1, <1>7, <2>1
  <2>3. ASSUME NEW d \in Calls, pc'[d] = "loaded" \/ (d \in allowed' /\ pc'[d] \in Keeping)
        PROVE  Accounted(held'[d], allowed', intent')
    <3>1. CASE d = c
      <4>1. c \in allowed' /\ out.decision = "ALLOW"
        BY <1>5, <1>6, <2>3, <3>1
      <4>2. allowed' = allowed \cup {c}
        BY <1>1, <4>1
      <4>3. Accounted(out.next, allowed \cup {c}, intent)
        BY <1>4, <1>8, <4>1
      <4>4. QED BY <1>1, <1>5, <3>1, <4>2, <4>3
    <3>2. CASE d # c
      <4>1. d \in allowed' => d \in allowed
        BY <1>6, <3>2
      <4>2. QED BY <1>1, <1>5, <1>7, <2>1, <2>3, <3>2, <4>1
    <3>3. QED BY <3>1, <3>2
  <2>4. QED BY <2>2, <2>3
<1>10. /\ IsFiniteSet(allowed)'
       /\ (\A d \in Calls : pc[d] = "loaded" \/ d \in allowed =>
             /\ intent[d].agent_id \in Agents => Readable(intent[d])
             /\ Payable(intent[d])
             /\ intent[d].timestamp \in Timestamps)'
       /\ (\A d \in allowed : intent[d].agent_id \in Agents)'
       /\ (\A d \in Calls : pc[d] \in {"executing", "executed", "saving", "saved"} => d \in allowed)'
  <2>1. IsFiniteSet(allowed')
    <3>1. IsFiniteSet(allowed) /\ IsFiniteSet(allowed \cup {c})
      BY FS_AddElement DEF StoreInv
    <3>2. QED BY <1>1, <3>1
  <2>2. \A d \in Calls : pc'[d] = "loaded" \/ d \in allowed' =>
            /\ intent[d].agent_id \in Agents => Readable(intent[d])
            /\ Payable(intent[d])
            /\ intent[d].timestamp \in Timestamps
    BY <1>1, <1>5, <1>6 DEF StoreInv
  <2>3. \A d \in allowed' : intent[d].agent_id \in Agents
    BY <1>3, <1>6 DEF StoreInv
  <2>4. \A d \in Calls : pc'[d] \in {"executing", "executed", "saving", "saved"} => d \in allowed'
    BY <1>5, <1>6 DEF StoreInv
  <2>5. QED BY <1>1, <2>1, <2>2, <2>3, <2>4
<1>11. QED BY <1>9, <1>10 DEF StoreInv

(* Every step keeps what is accounted for.                                 *)
LEMMA StoreKept == StoreInv /\ [Next]_vars => StoreInv'
<1> SUFFICES ASSUME StoreInv, [Next]_vars PROVE StoreInv'
  OBVIOUS
<1>0. /\ Inv'
      /\ pc \in [Calls -> Stages]
      /\ DOMAIN held = Calls
      /\ allowed \subseteq Calls
  BY Kept DEF StoreInv, Inv, TypeOK, Stages, Ended, Busy
<1>1. ASSUME NEW c \in Calls, Load(c)
      PROVE  StoreInv'
  BY <1>0, <1>1, LoadAccounts
<1>2. ASSUME NEW c \in Calls, Evaluate(c)
      PROVE  StoreInv'
  BY <1>0, <1>2, EvaluateAccounts
<1>3. ASSUME NEW c \in Calls, NEW stage \in Ended, pc' = [pc EXCEPT ![c] = stage],
             held' = [held EXCEPT ![c] = None], UNCHANGED <<store, allowed, intent>>
      PROVE  StoreInv'
  <2>1. /\ pc'[c] \in Ended
        /\ \A d \in Calls \ {c} : pc'[d] = pc[d] /\ held'[d] = held[d]
    BY <1>0, <1>3
  <2>2. \A d \in Calls : pc'[d] \notin Ended => pc'[d] = pc[d] /\ held'[d] = held[d]
    BY <2>1
  <2>3. QED BY <1>0, <1>3, <2>2, StoreStays DEF StoreInv, Ended, Keeping
<1>4. ASSUME NEW c \in Calls, LoadFails(c) \/ SaveSettles(c) \/ Fails(c)
      PROVE  StoreInv'
  <2>1. \E stage \in Ended : EndAt(c, stage) /\ UNCHANGED store
    BY <1>4 DEF LoadFails, SaveSettles, Fails, Ended
  <2>2. QED BY <1>3, <2>1 DEF EndAt
<1>5. ASSUME NEW c \in Calls, NEW stage \in Keeping \cup {"saved"}, pc[c] \in Keeping,
             pc' = [pc EXCEPT ![c] = stage],
             stage \in {"executing", "executed", "saving", "saved"} => c \in allowed,
             store' = store \/ (store' = held[c] /\ c \in allowed),
             UNCHANGED <<held, allowed, intent>>
      PROVE  StoreInv'
  <2>1. /\ pc'[c] = stage
        /\ \A d \in Calls \ {c} : pc'[d] = pc[d]
        /\ held' = held
    BY <1>0, <1>5
  <2>2. stage # "loaded"
    BY DEF Keeping
  <2>3. QED BY <1>0, <1>5, <2>1, <2>2, StoreStays DEF StoreInv
<1>6. ASSUME NEW c \in Calls, AppendLands(c) \/ ExecuteLands(c) \/ ExecuteSettles(c) \/ SaveLands(c)
      PROVE  StoreInv'
  <2>1. pc[c] \in {"executing", "executed", "saving", "saved"} => c \in allowed
    BY DEF StoreInv
  <2>2. QED BY <1>5, <1>6, <2>1 DEF AppendLands, ExecuteLands, ExecuteSettles, SaveLands, Keeping
<1>7. ASSUME NEW c \in Calls, AppendSettles(c)
      PROVE  StoreInv'
  <2>1. CASE c \in allowed
    BY <1>5, <1>7, <2>1 DEF AppendSettles, Keeping
  <2>2. CASE c \notin allowed
    BY <1>3, <1>7, <2>2 DEF AppendSettles, EndAt, Ended
  <2>3. QED BY <2>1, <2>2
<1>8. CASE Crash
  <2>1. \A d \in Calls : pc'[d] \in Ended \cup {"idle"}
    BY <1>8 DEF Crash, InFlight, Ended
  <2>2. UNCHANGED <<store, allowed, intent>>
    BY <1>8 DEF Crash
  <2>3. QED BY <1>0, <2>1, <2>2, StoreStays DEF Ended, Keeping
<1>9. CASE UNCHANGED vars
  BY <1>0, <1>9, StoreStays DEF StoreInv, vars, locals
<1>10. QED BY <1>1, <1>2, <1>4, <1>6, <1>7, <1>8, <1>9 DEF Next

LEMMA StoreHolds ==
  ASSUME StartsWithinBudget
  PROVE  Spec => []StoreInv
BY StoreInit, StoreKept, PTL DEF Spec

(* What the calls S of an agent add to a state, by call.                   *)
LEMMA WholeByCall ==
  ASSUME NEW S, IsFiniteSet(S), \A c \in S : Payable(intent[c]), NEW a \in Agents
  PROVE  LET mine == {c \in S : intent[c].agent_id = a}
         IN  /\ AmountOf(mine, a) = PaidBy(Tagged(S), a)
             /\ Cardinality(mine) = Cardinality(OfAgent(Tagged(S), a))
             /\ {<<e.intent.nonce, e.intent.timestamp>> : e \in OfAgent(Tagged(S), a)}
                  = {<<intent[c].nonce, intent[c].timestamp>> : c \in mine}
<1> DEFINE mine == {c \in S : intent[c].agent_id = a}
<1>1. OfAgent(Tagged(S), a) = Tagged(mine)
  BY DEF OfAgent, Tagged
<1>2. IsFiniteSet(mine)
  BY FS_Subset
<1>3. Cardinality(Tagged(mine)) = Cardinality(mine)
  <2> HIDE DEF mine
  <2>1. QED BY <1>2, TagsCount DEF Tagged
<1>4. AmountOf(mine, a) = AmountOf(S, a)
  <2>1. {d \in mine : intent[d].type = "EXECUTE" /\ intent[d].agent_id = a}
          = {d \in S : intent[d].type = "EXECUTE" /\ intent[d].agent_id = a}
    OBVIOUS
  <2>2. QED BY <2>1 DEF AmountOf
<1>5. AmountOf(S, a) = PaidBy(Tagged(S), a)
  BY AmountIsPaid
<1>6. {<<e.intent.nonce, e.intent.timestamp>> : e \in Tagged(mine)}
        = {<<intent[c].nonce, intent[c].timestamp>> : c \in mine}
  <2> DEFINE Pair(i) == <<i.nonce, i.timestamp>>
  <2> HIDE DEF mine, Pair
  <2>1. ASSUME NEW x
        PROVE  (\E e \in Tagged(mine) : x = Pair(e.intent)) <=> (\E c \in mine : x = Pair(intent[c]))
    <3>1. ASSUME NEW c \in mine
          PROVE  \E e \in Tagged(mine) : e.intent = intent[c]
      <4>1. [call |-> c, intent |-> intent[c]] \in Tagged(mine)
        BY DEF Tagged
      <4>2. [call |-> c, intent |-> intent[c]].intent = intent[c]
        OBVIOUS
      <4>3. QED BY <4>1, <4>2
    <3>2. ASSUME NEW e \in Tagged(mine)
          PROVE  \E c \in mine : e.intent = intent[c]
      BY DEF Tagged
    <3>3. QED BY <3>1, <3>2
  <2>2. {Pair(e.intent) : e \in Tagged(mine)} = {Pair(intent[c]) : c \in mine}
    BY <2>1
  <2>3. QED BY <2>2, Zenon DEF Pair
<1>7. QED BY <1>1, <1>3, <1>4, <1>5, <1>6

(* The calls the stored state belongs to.                                  *)
LEMMA StoredCalls ==
  ASSUME StoreInv, AllExecute
  PROVE  \E S \in SUBSET allowed :
           /\ IsFiniteSet(S)
           /\ \A c \in S : Payable(intent[c]) /\ intent[c].timestamp \in Timestamps
           /\ Whole(store, Tagged(S))
<1>1. PICK S \in SUBSET allowed : Whole(store, Tagged(S))
  BY DEF StoreInv, Accounted, Tagged
<1>2. IsFiniteSet(S) /\ allowed \subseteq Calls
  BY FS_Subset DEF StoreInv, Inv, TypeOK
<1>3. \A c \in S : Payable(intent[c]) /\ intent[c].timestamp \in Timestamps
  BY <1>2 DEF StoreInv
<1>4. QED BY <1>1, <1>2, <1>3

(* Whatever calls overlap, fail or are cut off by a crash, and however far *)
(* apart their timestamps: what the stored state has spent, counts and     *)
(* lists is within the budget and belongs to one set of allowed calls,     *)
(* StoredIsWhole without its last conjunct (guard.ts:72-127).              *)
StoredIsCharged ==
  AllExecute =>
    \E S \in SUBSET allowed : \A a \in Agents :
      LET mine == {c \in S : intent[c].agent_id = a}
      IN  /\ store.spent_in_period[a] = InitialState.spent_in_period[a] + AmountOf(mine, a)
          /\ store.active[a] = InitialState.active[a] + Cardinality(mine)
          /\ IssuedFor(store.active_auths[a])
               = IssuedFor(InitialState.active_auths[a])
                   \cup {<<intent[c].nonce, intent[c].timestamp>> : c \in mine}
          /\ store.spent_in_period[a] <= BudgetLimit[a]

(* The stored state belongs to whole calls (createGuard, guard.ts:72-127,  *)
(* and evaluateAndCommit), if nobody starts beyond the budget.             *)
THEOREM StoredStateIsCharged ==
  ASSUME StartsWithinBudget
  PROVE  Spec => []StoredIsCharged
<1>1. StoreInv => StoredIsCharged
  <2> SUFFICES ASSUME StoreInv, AllExecute
               PROVE  \E S \in SUBSET allowed : \A a \in Agents :
                        LET mine == {c \in S : intent[c].agent_id = a}
                        IN  /\ store.spent_in_period[a] = InitialState.spent_in_period[a] + AmountOf(mine, a)
                            /\ store.active[a] = InitialState.active[a] + Cardinality(mine)
                            /\ IssuedFor(store.active_auths[a])
                                 = IssuedFor(InitialState.active_auths[a])
                                     \cup {<<intent[c].nonce, intent[c].timestamp>> : c \in mine}
                            /\ store.spent_in_period[a] <= BudgetLimit[a]
    BY DEF StoredIsCharged
  <2>1. PICK S \in SUBSET allowed : /\ IsFiniteSet(S)
                                    /\ \A c \in S : Payable(intent[c])
                                    /\ Whole(store, Tagged(S))
    BY StoredCalls
  <2> WITNESS S \in SUBSET allowed
  <2> TAKE a \in Agents
  <2> DEFINE mine == {c \in S : intent[c].agent_id = a}
  <2>2. /\ AmountOf(mine, a) = PaidBy(Tagged(S), a)
        /\ Cardinality(mine) = Cardinality(OfAgent(Tagged(S), a))
        /\ {<<e.intent.nonce, e.intent.timestamp>> : e \in OfAgent(Tagged(S), a)}
             = {<<intent[c].nonce, intent[c].timestamp>> : c \in mine}
    BY <2>1, WholeByCall, Zenon
  <2>3. Reckons(store, Tagged(S))
    BY <2>1 DEF Whole
  <2> HIDE DEF mine
  <2>4. /\ store.spent_in_period[a] = InitialState.spent_in_period[a] + AmountOf(mine, a)
        /\ store.active[a] = InitialState.active[a] + Cardinality(mine)
        /\ IssuedFor(store.active_auths[a])
             = IssuedFor(InitialState.active_auths[a])
                 \cup {<<intent[c].nonce, intent[c].timestamp>> : c \in mine}
        /\ store.spent_in_period[a] <= BudgetLimit[a]
    BY <2>2, <2>3 DEF Reckons
  <2>5. QED BY <2>4 DEF mine
<1>2. QED BY <1>1, StoreHolds, PTL

(* If, besides, all intents are within one replay window and no list of    *)
(* nonces reaches its cap, no two of these calls have the same nonce: what *)
(* a delivery repeats was lost with its charge (guard.ts:72-127).          *)
THEOREM StoredStateIsWhole ==
  ASSUME StartsWithinBudget, OneWindow
  PROVE  Spec => []StoredIsWhole
<1>1. StoreInv => StoredIsWhole
  <2> SUFFICES ASSUME StoreInv, AllExecute
               PROVE  \E S \in SUBSET allowed : \A a \in Agents :
                        LET mine == {c \in S : intent[c].agent_id = a}
                        IN  /\ store.spent_in_period[a] = InitialState.spent_in_period[a] + AmountOf(mine, a)
                            /\ store.active[a] = InitialState.active[a] + Cardinality(mine)
                            /\ IssuedFor(store.active_auths[a])
                                 = IssuedFor(InitialState.active_auths[a])
                                     \cup {<<intent[c].nonce, intent[c].timestamp>> : c \in mine}
                            /\ store.spent_in_period[a] <= BudgetLimit[a]
                            /\ \A c, d \in mine :
                                 c # d /\ intent[c].nonce = intent[d].nonce =>
                                   intent[c].timestamp \notin intent[d].timestamp - ReplayWindow
                                                              .. intent[d].timestamp + ReplayWindow
    BY DEF StoredIsWhole, AllExecute
  <2>1. PICK S \in SUBSET allowed : /\ IsFiniteSet(S)
                                    /\ \A c \in S : Payable(intent[c])
                                    /\ Whole(store, Tagged(S))
    BY StoredCalls
  <2> WITNESS S \in SUBSET allowed
  <2> TAKE a \in Agents
  <2> DEFINE mine == {c \in S : intent[c].agent_id = a}
  <2>2. /\ AmountOf(mine, a) = PaidBy(Tagged(S), a)
        /\ Cardinality(mine) = Cardinality(OfAgent(Tagged(S), a))
        /\ {<<e.intent.nonce, e.intent.timestamp>> : e \in OfAgent(Tagged(S), a)}
             = {<<intent[c].nonce, intent[c].timestamp>> : c \in mine}
    BY <2>1, WholeByCall, Zenon
  <2>3. Reckons(store, Tagged(S)) /\ Remembers(store, Tagged(S))
    BY <2>1 DEF Whole
  <2>4. \A c, d \in mine : c # d => intent[c].nonce # intent[d].nonce
    <3> TAKE c, d \in mine
    <3>1. /\ [call |-> c, intent |-> intent[c]] \in OfAgent(Tagged(S), a)
          /\ [call |-> d, intent |-> intent[d]] \in OfAgent(Tagged(S), a)
      BY DEF OfAgent, Tagged
    <3>2. \A e, f \in OfAgent(Tagged(S), a) : e # f => e.intent.nonce # f.intent.nonce
      BY <2>3 DEF Remembers
    <3>3. QED BY <3>1, <3>2
  <2> HIDE DEF mine
  <2>5. /\ store.spent_in_period[a] = InitialState.spent_in_period[a] + AmountOf(mine, a)
        /\ store.active[a] = InitialState.active[a] + Cardinality(mine)
        /\ IssuedFor(store.active_auths[a])
             = IssuedFor(InitialState.active_auths[a])
                 \cup {<<intent[c].nonce, intent[c].timestamp>> : c \in mine}
        /\ store.spent_in_period[a] <= BudgetLimit[a]
    BY <2>2, <2>3 DEF Reckons
  <2>6. QED BY <2>4, <2>5 DEF mine
<1>2. QED BY <1>1, StoreHolds, PTL

-----------------------------------------------------------------------------
(***************************************************************************)
(* One call at a time                                                      *)
(***************************************************************************)

OneAtATime == \A c, d \in Calls : pc[c] \in Busy /\ pc[d] \in Busy => c = d

(* Only a load makes a call busy.                                          *)
LEMMA OnlyLoadsBegin ==
  ASSUME Inv, [Next]_vars, ~ \E c \in Calls : Load(c)
  PROVE  \A d \in Calls : pc'[d] \in Busy => pc[d] \in Busy
<1>0. pc \in [Calls -> Ended \cup { "idle", "loaded", "appending", "appended",
                                     "executing", "executed", "saving", "saved" }]
  BY DEF Inv, TypeOK
<1>1. ASSUME NEW c \in Calls, NEW stage, pc[c] \in Busy \/ stage \notin Busy,
             pc' = [pc EXCEPT ![c] = stage]
      PROVE  \A d \in Calls : pc'[d] \in Busy => pc[d] \in Busy
  BY <1>0, <1>1
<1>2. ASSUME NEW c \in Calls, LoadFails(c) \/ SaveSettles(c) \/ Fails(c)
      PROVE  \A d \in Calls : pc'[d] \in Busy => pc[d] \in Busy
  <2>1. \E stage \in Ended : pc' = [pc EXCEPT ![c] = stage]
    BY <1>2 DEF LoadFails, SaveSettles, Fails, EndAt, Ended
  <2>2. QED BY <1>1, <2>1 DEF Ended, Busy
<1>3. ASSUME NEW c \in Calls,
             Evaluate(c) \/ AppendLands(c) \/ ExecuteLands(c) \/ ExecuteSettles(c) \/ SaveLands(c)
      PROVE  \A d \in Calls : pc'[d] \in Busy => pc[d] \in Busy
  <2>1. pc[c] \in Busy /\ \E stage : pc' = [pc EXCEPT ![c] = stage]
    BY <1>3 DEF Evaluate, AppendLands, ExecuteLands, ExecuteSettles, SaveLands, Busy
  <2>2. QED BY <1>1, <2>1
<1>4. ASSUME NEW c \in Calls, AppendSettles(c)
      PROVE  \A d \in Calls : pc'[d] \in Busy => pc[d] \in Busy
  <2>1. pc[c] \in Busy /\ \E stage : pc' = [pc EXCEPT ![c] = stage]
    BY <1>4 DEF AppendSettles, EndAt, Busy
  <2>2. QED BY <1>1, <2>1
<1>5. CASE Crash
  BY <1>0, <1>5 DEF Crash, InFlight, Ended, Busy
<1>6. CASE UNCHANGED vars
  BY <1>6 DEF vars, locals
<1>7. QED BY <1>2, <1>3, <1>4, <1>5, <1>6 DEF Next

(* A load finds nothing under way.                                         *)
LEMMA LoadsAlone ==
  ASSUME MaxInFlight <= 1, Inv, OneAtATime, Cardinality(InFlight) < MaxInFlight
  PROVE  \A d \in Calls : pc[d] \notin Busy
<1>1. InFlight = {c \in Calls : pc[c] \in Busy}
  BY DEF InFlight, Inv, TypeOK, Ended, Busy
<1>2. IsFiniteSet(InFlight)
  <2>1. CASE InFlight = {}
    BY <2>1, FS_EmptySet
  <2>2. CASE InFlight # {}
    <3>1. PICK c \in InFlight : InFlight = {c}
      BY <1>1, <2>2 DEF OneAtATime
    <3>2. QED BY <3>1, FS_Singleton
  <2>3. QED BY <2>1, <2>2
<1>3. Cardinality(InFlight) = 0
  BY <1>2, FS_CardinalityType, GuardAssumption
<1>4. InFlight = {}
  BY <1>2, <1>3, FS_EmptySet
<1>5. QED BY <1>1, <1>4

(* With one call in flight at most, calls do not overlap.                  *)
LEMMA StaysOne ==
  ASSUME MaxInFlight <= 1, Inv, OneAtATime, [Next]_vars
  PROVE  OneAtATime'
<1>1. CASE \E c \in Calls : Load(c)
  <2>1. PICK c \in Calls : Load(c)
    BY <1>1
  <2>2. \A d \in Calls : pc[d] \notin Busy
    BY <2>1, LoadsAlone DEF Load
  <2>3. \A d \in Calls \ {c} : pc'[d] = pc[d]
    BY <2>1 DEF Load, Inv, TypeOK
  <2>4. QED BY <2>2, <2>3 DEF OneAtATime
<1>2. CASE ~ \E c \in Calls : Load(c)
  BY <1>2, OnlyLoadsBegin DEF OneAtATime
<1>3. QED BY <1>1, <1>2

-----------------------------------------------------------------------------
(***************************************************************************)
(* The order of the trail                                                  *)
(***************************************************************************)

(* What a call has to append is in order, and comes after what its guard   *)
(* or client has appended.                                                 *)
BatchBehind ==
  \A c \in Calls : \A k \in DOMAIN batch[c] :
    /\ \A j \in DOMAIN trail : by[j] = ObjectOf[c] => Before(trail[j], batch[c][k])
    /\ \A j \in DOMAIN batch[c] : j < k => Before(batch[c][j], batch[c][k])

SerialTrail == Inv /\ OneAtATime /\ BatchBehind /\ AppendsInOrder

(* A step that only drops what calls had to append.                        *)
LEMMA DropsKeepOrder ==
  ASSUME SerialTrail, UNCHANGED <<trail, by>>,
         \A c \in Calls : batch'[c] = batch[c] \/ batch'[c] = << >>
  PROVE  BatchBehind' /\ AppendsInOrder'
<1>1. DOMAIN << >> = {}
  OBVIOUS
<1>2. BatchBehind'
  <2> SUFFICES ASSUME NEW c \in Calls, NEW k \in DOMAIN batch'[c]
               PROVE  /\ \A j \in DOMAIN trail : by[j] = ObjectOf[c] => Before(trail[j], batch'[c][k])
                      /\ \A j \in DOMAIN batch'[c] : j < k => Before(batch'[c][j], batch'[c][k])
    BY DEF BatchBehind, Before
  <2>1. batch'[c] = batch[c]
    BY <1>1
  <2>2. QED BY <2>1 DEF SerialTrail, BatchBehind
<1>3. AppendsInOrder'
  BY DEF SerialTrail, AppendsInOrder
<1>4. QED BY <1>2, <1>3

(* What an evaluation hands to its call comes after all that was collected. *)
LEMMA EvaluationKeepsOrder ==
  ASSUME SerialTrail, NEW c \in Calls, Evaluate(c)
  PROVE  BatchBehind' /\ AppendsInOrder'
<1>1. PICK got \in Seq(AuditEvent) :
        /\ batch' = [batch EXCEPT ![c] = got]
        /\ \A k \in 1 .. Len(got) : /\ got[k].run = crashes
                                    /\ got[k].position = cursor[ObjectOf[c]] + k
  BY EvaluationCollects DEF SerialTrail
<1>2. UNCHANGED <<trail, by>>
  BY DEF Evaluate
<1>3. AppendsInOrder'
  BY <1>2 DEF SerialTrail, AppendsInOrder
<1>4. DOMAIN got = 1 .. Len(got) /\ cursor[ObjectOf[c]] \in Nat /\ Len(got) \in Nat
  BY LenProperties DEF SerialTrail, Inv, TypeOK, Objects
<1>5. ASSUME NEW k \in DOMAIN got
      PROVE  /\ \A j \in DOMAIN trail : by[j] = ObjectOf[c] => Before(trail[j], got[k])
             /\ \A j \in DOMAIN got : j < k => Before(got[j], got[k])
  <2>1. ASSUME NEW j \in DOMAIN trail, by[j] = ObjectOf[c]
        PROVE  Before(trail[j], got[k])
    <3>1. trail[j] \in AuditEvent
      <4>1. trail \in Seq(AuditEvent)
        BY DEF SerialTrail, Inv, TypeOK
      <4>2. QED BY <4>1, LenProperties, ElementOfSeq
    <3>2. \/ trail[j].run < crashes
          \/ trail[j].run = crashes /\ trail[j].position <= cursor[ObjectOf[c]]
      BY <2>1 DEF SerialTrail, Inv, TrailNumbered, NumberedBy
    <3>3. trail[j].position \in Nat
      BY <3>1 DEF AuditEvent
    <3>4. QED BY <1>1, <1>4, <3>2, <3>3 DEF Before
  <2>2. QED BY <1>1, <1>4, <2>1 DEF Before
<1>6. BatchBehind'
  <2> SUFFICES ASSUME NEW d \in Calls, NEW k \in DOMAIN batch'[d]
               PROVE  /\ \A j \in DOMAIN trail : by[j] = ObjectOf[d] => Before(trail[j], batch'[d][k])
                      /\ \A j \in DOMAIN batch'[d] : j < k => Before(batch'[d][j], batch'[d][k])
    BY <1>2 DEF BatchBehind, Before
  <2>1. CASE d = c
    <3>1. batch'[d] = got
      BY <1>1, <2>1 DEF SerialTrail, Inv, TypeOK
    <3>2. QED BY <1>5, <2>1, <3>1
  <2>2. CASE d # c
    <3>1. batch'[d] = batch[d]
      BY <1>1, <2>2 DEF SerialTrail, Inv, TypeOK
    <3>2. QED BY <3>1 DEF SerialTrail, BatchBehind
  <2>3. QED BY <2>1, <2>2
<1>7. QED BY <1>3, <1>6

(* An append goes behind the trail, and nobody else has anything to append. *)
LEMMA AppendKeepsOrder ==
  ASSUME SerialTrail, NEW c \in Calls, AppendLands(c)
  PROVE  BatchBehind' /\ AppendsInOrder'
<1>1. /\ pc[c] = "appending"
      /\ trail' = trail \o batch[c]
      /\ batch' = [batch EXCEPT ![c] = << >>]
  BY DEF AppendLands
<1>2. /\ trail \in Seq(AuditEvent)
      /\ batch \in [Calls -> Seq(AuditEvent)]
  BY DEF SerialTrail, Inv, TypeOK
<1>3. \A d \in Calls : batch'[d] = << >>
  <2> SUFFICES ASSUME NEW d \in Calls PROVE batch'[d] = << >>
    OBVIOUS
  <2>1. d # c => pc[d] # "appending"
    BY <1>1 DEF SerialTrail, OneAtATime, Busy
  <2>2. d # c => batch[d] = << >>
    BY <2>1 DEF SerialTrail, Inv, BatchPending
  <2>3. QED BY <1>1, <1>2, <2>2
<1>4. BatchBehind'
  BY <1>3 DEF BatchBehind
<1>5. /\ Len(trail') = Len(trail) + Len(batch[c])
      /\ Len(trail) \in Nat /\ Len(batch[c]) \in Nat
      /\ DOMAIN trail = 1 .. Len(trail) /\ DOMAIN batch[c] = 1 .. Len(batch[c])
      /\ DOMAIN trail' = 1 .. Len(trail) + Len(batch[c])
      /\ \A k \in DOMAIN trail' : trail'[k] = IF k <= Len(trail) THEN trail[k] ELSE batch[c][k - Len(trail)]
  BY <1>1, <1>2, ConcatProperties, LenProperties
<1>0. \A k \in DOMAIN trail' : by'[k] = IF k <= Len(trail) THEN by[k] ELSE ObjectOf[c]
  BY <1>5, AppendNames DEF SerialTrail
<1>6. AppendsInOrder'
  <2> SUFFICES ASSUME NEW j \in DOMAIN trail', NEW k \in DOMAIN trail', j < k, by'[j] = by'[k]
               PROVE  Before(trail'[j], trail'[k])
    BY DEF AppendsInOrder, Before
  <2>1. CASE k <= Len(trail)
    <3>1. j \in DOMAIN trail /\ k \in DOMAIN trail /\ trail'[j] = trail[j] /\ trail'[k] = trail[k]
          /\ by[j] = by[k]
      BY <1>0, <1>5, <2>1
    <3>2. QED BY <3>1 DEF SerialTrail, AppendsInOrder, Before
  <2>2. CASE j <= Len(trail) /\ ~(k <= Len(trail))
    <3>1. /\ j \in DOMAIN trail /\ trail'[j] = trail[j] /\ by[j] = ObjectOf[c]
          /\ k - Len(trail) \in DOMAIN batch[c] /\ trail'[k] = batch[c][k - Len(trail)]
      BY <1>0, <1>5, <2>2
    <3>2. QED BY <3>1 DEF SerialTrail, BatchBehind
  <2>3. CASE ~(j <= Len(trail)) /\ ~(k <= Len(trail))
    <3>1. /\ j - Len(trail) \in DOMAIN batch[c] /\ trail'[j] = batch[c][j - Len(trail)]
          /\ k - Len(trail) \in DOMAIN batch[c] /\ trail'[k] = batch[c][k - Len(trail)]
          /\ j - Len(trail) < k - Len(trail)
      BY <1>5, <2>3
    <3>2. QED BY <3>1 DEF SerialTrail, BatchBehind
  <2>4. QED BY <1>5, <2>1, <2>2, <2>3
<1>7. QED BY <1>4, <1>6

(* Every step keeps the order of the trail.                                *)
LEMMA OrderKept ==
  ASSUME MaxInFlight <= 1, SerialTrail, [Next]_vars
  PROVE  SerialTrail'
<1>1. Inv' /\ OneAtATime'
  BY Kept, StaysOne DEF SerialTrail
<1>0. batch \in [Calls -> Seq(AuditEvent)]
  BY DEF SerialTrail, Inv, TypeOK
<1>2. ASSUME NEW c \in Calls,
             \/ LoadFails(c) \/ SaveSettles(c) \/ Fails(c) \/ AppendSettles(c)
             \/ Load(c) \/ ExecuteLands(c) \/ ExecuteSettles(c) \/ SaveLands(c)
      PROVE  BatchBehind' /\ AppendsInOrder'
  <2>1. UNCHANGED <<trail, by>> /\ (batch' = batch \/ batch' = [batch EXCEPT ![c] = << >>])
    BY <1>2 DEF LoadFails, SaveSettles, Fails, AppendSettles, Load, ExecuteLands, ExecuteSettles,
                SaveLands, EndAt
  <2>2. QED BY <1>0, <2>1, DropsKeepOrder
<1>3. ASSUME Crash
      PROVE  BatchBehind' /\ AppendsInOrder'
  BY <1>3, DropsKeepOrder DEF Crash
<1>4. ASSUME UNCHANGED vars
      PROVE  BatchBehind' /\ AppendsInOrder'
  BY <1>4, DropsKeepOrder DEF vars, locals
<1>5. BatchBehind' /\ AppendsInOrder'
  BY <1>2, <1>3, <1>4, EvaluationKeepsOrder, AppendKeepsOrder DEF Next
<1>6. QED BY <1>1, <1>5 DEF SerialTrail

(* When calls do not overlap, what one guard or one client appends is in   *)
(* the order of the log, over any number of processes, whatever fails,     *)
(* whenever they crash and whatever the others append (guard.ts:84-87,     *)
(* client.ts:60-63).                                                       *)
THEOREM SerialTrailIsInOrder ==
  ASSUME MaxInFlight <= 1
  PROVE  Spec => []AppendsInOrder
<1>1. Init => SerialTrail
  <2>1. Init => OneAtATime /\ BatchBehind /\ AppendsInOrder
    BY DEF Init, OneAtATime, Busy, BatchBehind, AppendsInOrder
  <2>2. QED BY <2>1, Starts DEF SerialTrail
<1>2. SerialTrail /\ [Next]_vars => SerialTrail'
  BY OrderKept
<1>3. SerialTrail => AppendsInOrder
  BY DEF SerialTrail
<1>4. QED BY <1>1, <1>2, <1>3, PTL DEF Spec

-----------------------------------------------------------------------------
(***************************************************************************)
(* The promise                                                             *)
(***************************************************************************)

(* The operators of the promise are those of the guard: they are instances *)
(* of one module.                                                          *)
LEMMA SamePrune == \A list, cutoff : Promise!Prune(list, cutoff) = Prune(list, cutoff)
BY Zenon DEF Promise!Prune, Prune

(* The reasons of each policy module.                                      *)
LEMMA SameReasons == \A m, i, s : Promise!Reasons(m, i, s) = Reasons(m, i, s)
<1> TAKE m, i, s
<1>1. Promise!KillSwitchReasons(i, s) = KillSwitchReasons(i, s)
  BY Zenon DEF Promise!KillSwitchReasons, KillSwitchReasons
<1>2. Promise!AllowlistReasons(i) = AllowlistReasons(i)
  BY Zenon DEF Promise!AllowlistReasons, AllowlistReasons
<1>3. Promise!ReplayReasons(i, s) = ReplayReasons(i, s)
  BY SamePrune, Zenon DEF Promise!ReplayReasons, ReplayReasons, Promise!RecentNonces, RecentNonces
<1>4. Promise!RecursionDepthReasons(i) = RecursionDepthReasons(i)
  BY Zenon DEF Promise!RecursionDepthReasons, RecursionDepthReasons
<1>5. Promise!ConcurrencyReasons(i, s) = ConcurrencyReasons(i, s)
  BY Zenon DEF Promise!ConcurrencyReasons, ConcurrencyReasons
<1>6. Promise!ToolAmplificationReasons(i, s) = ToolAmplificationReasons(i, s)
  <2>1. Promise!RecentCalls(i, s) = RecentCalls(i, s)
    BY SamePrune, Zenon DEF Promise!RecentCalls, RecentCalls
  <2>2. \A S : Promise!Cardinality(S) = Cardinality(S)
    BY Zenon DEF Promise!Cardinality, Cardinality
  <2>3. QED BY <2>1, <2>2, Zenon DEF Promise!ToolAmplificationReasons, ToolAmplificationReasons
<1>7. Promise!BudgetReasons(i, s) = BudgetReasons(i, s)
  BY Zenon DEF Promise!BudgetReasons, BudgetReasons
<1>8. Promise!VelocityReasons(i, s) = VelocityReasons(i, s)
  BY Zenon DEF Promise!VelocityReasons, VelocityReasons, Promise!CounterDelta, CounterDelta
<1>9. QED
  BY <1>1, <1>2, <1>3, <1>4, <1>5, <1>6, <1>7, <1>8, Zenon DEF Promise!Reasons, Reasons

(* What each policy module proposes, merged.                               *)
LEMMA SameDeltas ==
  \A i, s, ms : Promise!MergeDeltas(i, s, ms) = MergeDeltas(i, s, ms)
<1> TAKE i, s, ms
<1>1. Promise!ReplayDelta(i, s) = ReplayDelta(i, s)
  BY SamePrune, Zenon DEF Promise!ReplayDelta, ReplayDelta, Promise!NoncesWith, NoncesWith,
                          Promise!RecentNonces, RecentNonces, Promise!KeepLast, KeepLast
<1>2. Promise!CallsDelta(i, s) = CallsDelta(i, s)
  BY SamePrune, Zenon DEF Promise!CallsDelta, CallsDelta, Promise!RecentCalls, RecentCalls
<1>3. Promise!ActiveDelta(i, s) = ActiveDelta(i, s)
  BY Zenon DEF Promise!ActiveDelta, ActiveDelta
<1>4. Promise!ActiveAuthsDelta(i, s) = ActiveAuthsDelta(i, s)
  BY Zenon DEF Promise!ActiveAuthsDelta, ActiveAuthsDelta
<1>5. Promise!SpentDelta(i, s) = SpentDelta(i, s)
  BY Zenon DEF Promise!SpentDelta, SpentDelta
<1>6. Promise!CounterDelta(i, s) = CounterDelta(i, s)
  BY Zenon DEF Promise!CounterDelta, CounterDelta
<1>7. \A x, y : Promise!MergeInto(x, y) = MergeInto(x, y)
  BY Zenon DEF Promise!MergeInto, MergeInto
<1>8. QED
  BY <1>1, <1>2, <1>3, <1>4, <1>5, <1>6, <1>7, Zenon DEF Promise!MergeDeltas, MergeDeltas

(* An evaluation.                                                          *)
LEMMA SameEvaluation ==
  ASSUME NEW i, NEW s, NEW mode
  PROVE  Promise!Evaluation(i, s, mode) = Evaluation(i, s, mode)
<1>1. Promise!Modules(i) = Modules(i)
  BY Zenon DEF Promise!Modules, Modules, Promise!ReleaseModules, ReleaseModules,
               Promise!ExecuteModules, ExecuteModules
<1>2. Promise!Denying(i, s) = Denying(i, s)
  BY <1>1, SameReasons, Zenon DEF Promise!Denying, Denying
<1>3. \A d : Promise!Merged(i, d, mode) = Merged(i, d, mode)
  BY <1>1, Zenon DEF Promise!Merged, Merged
<1>4. Promise!EarlyReasons(i, s) = EarlyReasons(i, s)
  BY Zenon DEF Promise!EarlyReasons, EarlyReasons
<1>5. \A w : Promise!Hashable(w) <=> Hashable(w)
  BY Zenon DEF Promise!Hashable, Hashable
<1>6. \A w : Promise!WithAuth(i, w) = WithAuth(i, w)
  BY Zenon DEF Promise!WithAuth, WithAuth, Promise!NewAuth, NewAuth, Promise!MergeInto, MergeInto
<1>7. QED
  BY <1>2, <1>3, <1>4, <1>5, <1>6, SameDeltas, Zenon DEF Promise!Evaluation, Evaluation

(* The intents that are submitted.                                         *)
LEMMA SameIntents ==
  ASSUME NEW i, NEW s
  PROVE  i \in ExecuteIntents(Timestamps) \cup ReleaseIntents(Timestamps, s) <=>
         i \in Promise!ExecuteIntents(Timestamps) \cup Promise!ReleaseIntents(Timestamps, s)
BY Zenon DEF ExecuteIntents, ReleaseIntents, Promise!ExecuteIntents, Promise!ReleaseIntents

-----------------------------------------------------------------------------
(***************************************************************************)
(* Serving one intent after the other                                      *)
(***************************************************************************)

(* Neither a save nor the process fails, and calls do not overlap.         *)
Undisturbed == MaxInFlight <= 1 /\ Faults \cap {"save", "crash"} = {}

Pending == {"loaded", "appending", "appended", "executing", "executed", "saving"}

Served == {"saved", "done"}

(* What a call holds is what its evaluation made of the state stored now.  *)
Decided(c) ==
  LET out == Evaluation(intent[c], store, "fail-fast")
  IN  held[c] = out.next /\ (c \in allowed <=> out.decision = "ALLOW")

Serving(c) ==
  /\ pc[c] \in Pending => intent[c] \in Intents
  /\ pc[c] = "loaded" => held[c] = store
  /\ pc[c] \in Pending \ {"loaded"} => Decided(c)
  /\ pc[c] \in {"executing", "executed", "saving"} => c \in allowed

SerialService == Inv /\ OneAtATime /\ \A c \in Calls : Serving(c)

(* A step that stores nothing leaves alone what it does not touch.         *)
LEMMA OthersServe ==
  ASSUME NEW c \in Calls, Serving(c), UNCHANGED store,
         pc'[c] = pc[c] \/ pc'[c] \notin Pending,
         pc'[c] \in Pending => held'[c] = held[c] /\ intent'[c] = intent[c],
         c \in allowed' <=> c \in allowed
  PROVE  Serving(c)'
BY DEF Serving, Decided, Intents, Pending

(* Every step serves one call and leaves the others alone.                 *)
LEMMA ServiceKept ==
  ASSUME Undisturbed, SerialService, [Next]_vars
  PROVE  SerialService'
<1>1. Inv' /\ OneAtATime'
  BY Kept, StaysOne DEF SerialService, Undisturbed
<1>0. /\ pc \in [Calls -> Ended \cup { "idle", "loaded", "appending", "appended",
                                     "executing", "executed", "saving", "saved" }]
      /\ held \in [Calls -> State \cup {None}]
      /\ DOMAIN intent = Calls
      /\ allowed \subseteq Calls
      /\ \A c \in Calls : Serving(c)
  BY DEF SerialService, Inv, TypeOK, Holding
<1>2. ASSUME NEW c \in Calls, Load(c)
      PROVE  \A d \in Calls : Serving(d)'
  <2>1. PICK i \in Intents : intent' = [intent EXCEPT ![c] = i]
    BY <1>2 DEF Load
  <2>2. /\ held' = [held EXCEPT ![c] = store] /\ pc' = [pc EXCEPT ![c] = "loaded"]
        /\ UNCHANGED <<store, allowed>>
    BY <1>2 DEF Load
  <2>3. Serving(c)'
    <3>1. pc'[c] = "loaded" /\ intent'[c] = i /\ held'[c] = store
      BY <1>0, <2>1, <2>2
    <3>2. intent'[c] \in Intents'
      BY <2>2, <3>1 DEF Intents
    <3>3. QED BY <2>2, <3>1, <3>2 DEF Serving, Pending
  <2>4. ASSUME NEW d \in Calls \ {c}
        PROVE  Serving(d)'
    BY <1>0, <2>1, <2>2, OthersServe
  <2>5. QED BY <2>3, <2>4
<1>3. ASSUME NEW c \in Calls, Evaluate(c)
      PROVE  \A d \in Calls : Serving(d)'
  <2> DEFINE out == Evaluation(intent[c], held[c], "fail-fast")
  <2>1. /\ pc[c] = "loaded"
        /\ held' = [held EXCEPT ![c] = out.next]
        /\ allowed' = IF out.decision = "ALLOW" THEN allowed \cup {c} ELSE allowed
        /\ pc' = [pc EXCEPT ![c] = "appending"]
        /\ UNCHANGED <<store, intent>>
    BY <1>3 DEF Evaluate
  <2>2. c \notin allowed
    BY <2>1 DEF SerialService, Inv, NoTraceYet
  <2>3. Serving(c)'
    <3>1. held[c] = store /\ intent[c] \in Intents
      BY <1>0, <2>1 DEF Serving, Pending
    <3> HIDE DEF out
    <3>2. pc'[c] = "appending" /\ held'[c] = out.next /\ (c \in allowed' <=> out.decision = "ALLOW")
      BY <1>0, <2>1, <2>2
    <3>3. Decided(c)'
      BY <2>1, <3>1, <3>2 DEF Decided, out
    <3>4. intent'[c] \in Intents'
      BY <2>1, <3>1 DEF Intents
    <3>5. QED BY <3>2, <3>3, <3>4 DEF Serving, Pending
  <2>4. ASSUME NEW d \in Calls \ {c}
        PROVE  Serving(d)'
    BY <1>0, <2>1, OthersServe
  <2>5. QED BY <2>3, <2>4
<1>4. ASSUME NEW c \in Calls,
             AppendLands(c) \/ AppendSettles(c) \/ ExecuteLands(c) \/ ExecuteSettles(c)
      PROVE  \A d \in Calls : Serving(d)'
  <2>1. /\ pc[c] \in Pending \ {"loaded"}
        /\ \E stage : pc' = [pc EXCEPT ![c] = stage]
        /\ pc'[c] \in {"executing", "executed", "saving"} => c \in allowed
        /\ pc'[c] # "loaded"
        /\ UNCHANGED <<store, intent, allowed>>
        /\ \E h : held' = [held EXCEPT ![c] = h]
        /\ pc'[c] \in Pending => held'[c] = held[c]
    <3>1. CASE AppendSettles(c)
      <4>1. CASE c \in allowed
        BY <1>0, <3>1, <4>1 DEF AppendSettles, Pending
      <4>2. CASE c \notin allowed
        BY <1>0, <3>1, <4>2 DEF AppendSettles, EndAt, Pending
      <4>3. QED BY <4>1, <4>2
    <3>2. CASE AppendLands(c) \/ ExecuteLands(c) \/ ExecuteSettles(c)
      BY <1>0, <3>2 DEF AppendLands, ExecuteLands, ExecuteSettles, Serving, Pending
    <3>3. QED BY <1>4, <3>1, <3>2
  <2>2. Serving(c)'
    <3>1. CASE pc'[c] \in Pending
      <4>1. Decided(c) /\ intent[c] \in Intents
        BY <1>0, <2>1 DEF Serving
      <4>2. Decided(c)' /\ intent'[c] \in Intents'
        BY <2>1, <3>1, <4>1 DEF Decided, Intents
      <4>3. QED BY <2>1, <4>2 DEF Serving
    <3>2. CASE pc'[c] \notin Pending
      BY <3>2 DEF Serving, Pending
    <3>3. QED BY <3>1, <3>2
  <2>3. ASSUME NEW d \in Calls \ {c}
        PROVE  Serving(d)'
    BY <1>0, <2>1, OthersServe
  <2>4. QED BY <2>2, <2>3
<1>5. ASSUME NEW c \in Calls, SaveSettles(c) \/ LoadFails(c) \/ Fails(c)
      PROVE  \A d \in Calls : Serving(d)'
  <2>1. /\ \E stage \in Ended : pc' = [pc EXCEPT ![c] = stage]
        /\ UNCHANGED <<store, intent, allowed>>
        /\ \E h : held' = [held EXCEPT ![c] = h]
    BY <1>5 DEF SaveSettles, LoadFails, Fails, EndAt, Ended
  <2>2. pc'[c] \notin Pending
    BY <1>0, <2>1 DEF Ended, Pending
  <2>3. QED BY <1>0, <2>1, <2>2, OthersServe
<1>6. ASSUME NEW c \in Calls, SaveLands(c)
      PROVE  \A d \in Calls : Serving(d)'
  <2>1. pc[c] = "saving" /\ pc' = [pc EXCEPT ![c] = "saved"]
    BY <1>6 DEF SaveLands
  <2>2. \A d \in Calls : pc'[d] \notin Pending
    BY <1>0, <2>1 DEF SerialService, OneAtATime, Pending, Busy
  <2>3. QED BY <2>2 DEF Serving, Pending
<1>7. ~ Crash
  BY DEF Crash, Undisturbed
<1>8. ASSUME UNCHANGED vars
      PROVE  \A d \in Calls : Serving(d)'
  BY <1>0, <1>8, OthersServe DEF vars, locals
<1>9. \A d \in Calls : Serving(d)'
  BY <1>2, <1>3, <1>4, <1>5, <1>6, <1>7, <1>8 DEF Next
<1>10. QED BY <1>1, <1>9 DEF SerialService

(* It holds in every undisturbed behaviour.                                *)
LEMMA ServiceHolds ==
  ASSUME Undisturbed
  PROVE  Spec => []SerialService
<1>1. Init => SerialService
  <2>1. Init => OneAtATime /\ \A c \in Calls : Serving(c)
    BY DEF Init, OneAtATime, Busy, Serving, Pending
  <2>2. QED BY <2>1, Starts DEF SerialService
<1>2. SerialService /\ [Next]_vars => SerialService'
  BY ServiceKept
<1>3. QED BY <1>1, <1>2, PTL DEF Spec

(* Only a save that lands charges a call.                                  *)
LEMMA OnlySavesCharge ==
  ASSUME Undisturbed, SerialService, [Next]_vars, ~ \E c \in Calls : SaveLands(c)
  PROVE  /\ UNCHANGED store
         /\ \A c \in Calls : /\ pc'[c] \in Served <=> pc[c] \in Served
                             /\ pc[c] \in Served => intent'[c] = intent[c]
<1>0. /\ pc \in [Calls -> Ended \cup { "idle", "loaded", "appending", "appended",
                                     "executing", "executed", "saving", "saved" }]
      /\ DOMAIN intent = Calls
  BY DEF SerialService, Inv, TypeOK, Holding
<1> DEFINE Goal == /\ UNCHANGED store
                   /\ \A c \in Calls : /\ pc'[c] \in Served <=> pc[c] \in Served
                                       /\ pc[c] \in Served => intent'[c] = intent[c]
<1>1. ASSUME NEW c \in Calls, NEW stage, pc' = [pc EXCEPT ![c] = stage], UNCHANGED store,
             stage \in Served <=> pc[c] \in Served,
             UNCHANGED intent \/ (pc[c] \notin Served /\ \E i : intent' = [intent EXCEPT ![c] = i])
      PROVE  Goal
  BY <1>0, <1>1
<1>2. ASSUME NEW c \in Calls,
             Load(c) \/ Evaluate(c) \/ AppendLands(c) \/ ExecuteLands(c) \/ ExecuteSettles(c)
      PROVE  Goal
  <2>1. \E stage : /\ pc' = [pc EXCEPT ![c] = stage] /\ UNCHANGED store
                   /\ stage \notin Served /\ pc[c] \notin Served
                   /\ UNCHANGED intent \/ \E i : intent' = [intent EXCEPT ![c] = i]
    BY <1>2 DEF Load, Evaluate, AppendLands, ExecuteLands, ExecuteSettles, Served
  <2>2. QED BY <1>1, <2>1
<1>3. ASSUME NEW c \in Calls, AppendSettles(c)
      PROVE  Goal
  <2>1. \E stage : /\ pc' = [pc EXCEPT ![c] = stage] /\ UNCHANGED <<store, intent>>
                   /\ stage \notin Served /\ pc[c] \notin Served
    <3>1. CASE c \in allowed
      BY <1>3, <3>1 DEF AppendSettles, Served
    <3>2. CASE c \notin allowed
      BY <1>3, <3>2 DEF AppendSettles, EndAt, Served
    <3>3. QED BY <3>1, <3>2
  <2>2. QED BY <1>1, <2>1
<1>4. ASSUME NEW c \in Calls, LoadFails(c) \/ Fails(c) \/ SaveSettles(c)
      PROVE  Goal
  <2>1. \E stage : /\ pc' = [pc EXCEPT ![c] = stage] /\ UNCHANGED <<store, intent>>
                   /\ stage \in Served <=> pc[c] \in Served
    BY <1>4 DEF LoadFails, Fails, SaveSettles, EndAt, Served, Undisturbed
  <2>2. QED BY <1>1, <2>1
<1>5. ~ Crash
  BY DEF Crash, Undisturbed
<1>6. ASSUME UNCHANGED vars
      PROVE  Goal
  BY <1>6 DEF vars, locals
<1>7. QED BY <1>2, <1>3, <1>4, <1>5, <1>6 DEF Next

-----------------------------------------------------------------------------
(***************************************************************************)
(* The guard implements the promise                                        *)
(***************************************************************************)

(* A save that lands serves its call.                                      *)
LEMMA SaveServes ==
  ASSUME SerialService, NEW c \in Calls, SaveLands(c)
  PROVE  /\ intent[c] \in Intents
         /\ Evaluation(intent[c], store, "fail-fast").decision = "ALLOW"
         /\ store' = Evaluation(intent[c], store, "fail-fast").next
         /\ pc[c] \notin Served
         /\ \A d \in Calls : pc'[d] \in Served <=> d = c \/ pc[d] \in Served
         /\ UNCHANGED intent
<1>1. pc[c] = "saving" /\ store' = held[c] /\ pc' = [pc EXCEPT ![c] = "saved"] /\ UNCHANGED intent
  BY DEF SaveLands
<1>2. intent[c] \in Intents /\ Decided(c) /\ c \in allowed
  BY <1>1 DEF SerialService, Serving, Pending
<1>3. \A d \in Calls : pc'[d] \in Served <=> d = c \/ pc[d] \in Served
  BY <1>1 DEF SerialService, Inv, TypeOK, Served
<1>4. QED BY <1>1, <1>2, <1>3 DEF Decided, Served

(* The set of charged calls, step by step.                                 *)
LEMMA ChargedAfter ==
  ASSUME Undisturbed, SerialService, [Next]_vars
  PROVE  \/ UNCHANGED <<store, Charged>>
         \/ \E c \in Calls : /\ SaveLands(c)
                             /\ Charged' = Charged \cup {[call |-> c, intent |-> intent[c]]}
                             /\ \A e \in Charged : e.call # c
<1>1. CASE \E c \in Calls : SaveLands(c)
  <2>1. PICK c \in Calls : SaveLands(c)
    BY <1>1
  <2>2. /\ pc[c] \notin Served
        /\ \A d \in Calls : pc'[d] \in Served <=> d = c \/ pc[d] \in Served
        /\ UNCHANGED intent
    BY <2>1, SaveServes
  <2>3. Charged' = Charged \cup {[call |-> c, intent |-> intent[c]]}
    BY <2>2 DEF Charged, Served
  <2>4. \A e \in Charged : e.call # c
    BY <2>2 DEF Charged, Served
  <2>5. QED BY <2>1, <2>3, <2>4
<1>2. CASE ~ \E c \in Calls : SaveLands(c)
  <2>1. /\ UNCHANGED store
        /\ \A c \in Calls : /\ pc'[c] \in Served <=> pc[c] \in Served
                            /\ pc[c] \in Served => intent'[c] = intent[c]
    BY <1>2, OnlySavesCharge
  <2>2. Charged' = Charged
    BY <2>1 DEF Charged, Served
  <2>3. QED BY <2>1, <2>2
<1>3. QED BY <1>1, <1>2

(* A step of the guard is a step of the promise, or none.                  *)
LEMMA StepServes ==
  ASSUME Undisturbed, SerialService, [Next]_vars
  PROVE  [Promise!Next]_<<store, Charged>>
<1>1. CASE UNCHANGED <<store, Charged>>
  BY <1>1
<1>2. ASSUME NEW c \in Calls, SaveLands(c),
             Charged' = Charged \cup {[call |-> c, intent |-> intent[c]]},
             \A e \in Charged : e.call # c
      PROVE  Promise!Serve(c)
  <2>1. /\ intent[c] \in Intents
        /\ Evaluation(intent[c], store, "fail-fast").decision = "ALLOW"
        /\ store' = Evaluation(intent[c], store, "fail-fast").next
    BY <1>2, SaveServes
  <2>2. /\ intent[c] \in Promise!ExecuteIntents(Timestamps) \cup Promise!ReleaseIntents(Timestamps, store)
        /\ intent[c].type \in IntentTypes
    BY <2>1, SameIntents DEF Intents
  <2>3. /\ Promise!Evaluation(intent[c], store, "fail-fast").decision = "ALLOW"
        /\ store' = Promise!Evaluation(intent[c], store, "fail-fast").next
    BY <2>1, SameEvaluation
  <2>4. QED BY <1>2, <2>2, <2>3 DEF Promise!Serve
<1>3. QED BY <1>1, <1>2, ChargedAfter DEF Promise!Next

(* When calls do not overlap and neither a save nor the process fails, the *)
(* guard takes in, decides on, executes and charges each intent as if in   *)
(* one step (guard.ts:68-137, client.ts:49-80): it implements              *)
(* GuardPromise.tla.                                                       *)
THEOREM GuardImplementsPromise ==
  ASSUME Undisturbed
  PROVE  Spec => ImplementsPromise
<1>1. Init => Promise!Init
  BY DEF Init, Promise!Init, Charged
<1>2. SerialService /\ [Next]_vars => [Promise!Next]_<<store, Charged>>
  BY StepServes
<1>3. QED BY <1>1, <1>2, ServiceHolds, PTL DEF Spec, ImplementsPromise, Promise!Spec

-----------------------------------------------------------------------------
(***************************************************************************)
(* What is charged and what takes effect                                   *)
(***************************************************************************)

SavedCalls == {c \in Calls : pc[c] \in Served}

(* ChargedExactly in terms of PaidBy.                                      *)
LEMMA ChargedIsPaid ==
  ChargedExactly <=>
    \A a \in Agents : /\ store.spent_in_period[a] = InitialState.spent_in_period[a] + PaidBy(Charged, a)
                      /\ store.spent_in_period[a] <= BudgetLimit[a]
<1>1. \A a : Promise!SumFunction([e \in Promise!ChargedTo(a) |-> e.intent.request.amount]) = PaidBy(Charged, a)
  BY Zenon DEF PaidBy, Payers, Promise!ChargedTo, Promise!SumFunction, SumFunction,
               Promise!SumFunctionOnSet, SumFunctionOnSet, Promise!FoldFunctionOnSet, FoldFunctionOnSet,
               Promise!MapThenFoldSet, MapThenFoldSet
<1>2. QED BY <1>1, Zenon DEF ChargedExactly, Promise!ChargedExactly

(* What a served call was charged can be added up.                         *)
ServedPayable ==
  /\ IsFiniteSet(SavedCalls)
  /\ \A c \in SavedCalls : Payable(intent[c])

ChargedService == SerialService /\ ServedPayable /\ ChargedExactly

(* The charged calls are those that are served.                            *)
LEMMA ChargedAreSaved ==
  ASSUME ServedPayable
  PROVE  /\ Charged = Tagged(SavedCalls)
         /\ IsFiniteSet(Charged)
         /\ \A e \in Charged : Payable(e.intent)
<1>1. Charged = Tagged(SavedCalls)
  BY DEF Charged, Tagged, SavedCalls, Served
<1>2. IsFiniteSet(Tagged(SavedCalls))
  BY AmountIsPaid DEF ServedPayable
<1>3. \A e \in Tagged(SavedCalls) : Payable(e.intent)
  BY DEF Tagged, ServedPayable
<1>4. QED BY <1>1, <1>2, <1>3

(* Every step charges exactly what it serves.                              *)
LEMMA ChargesKept ==
  ASSUME Undisturbed, ChargedService, [Next]_vars
  PROVE  ChargedService'
<1>1. SerialService'
  BY ServiceKept DEF ChargedService
<1>2. /\ IsFiniteSet(Charged)
      /\ \A e \in Charged : Payable(e.intent)
      /\ \A a \in Agents : /\ store.spent_in_period[a] = InitialState.spent_in_period[a] + PaidBy(Charged, a)
                           /\ store.spent_in_period[a] <= BudgetLimit[a]
  BY ChargedAreSaved, ChargedIsPaid DEF ChargedService
<1>3. CASE \E c \in Calls : SaveLands(c)
  <2>1. PICK c \in Calls : SaveLands(c)
    BY <1>3
  <2> DEFINE i == intent[c]
             e == [call |-> c, intent |-> i]
  <2>2. /\ i \in Intents
        /\ Evaluation(i, store, "fail-fast").decision = "ALLOW"
        /\ store' = Evaluation(i, store, "fail-fast").next
        /\ pc[c] \notin Served
        /\ \A d \in Calls : pc'[d] \in Served <=> d = c \/ pc[d] \in Served
        /\ UNCHANGED intent
    BY <2>1, SaveServes DEF ChargedService
  <2>3. /\ SavedCalls' = SavedCalls \cup {c}
        /\ Charged' = Charged \cup {e}
        /\ e \notin Charged
    BY <2>2 DEF SavedCalls, Charged, Served
  <2>4. /\ i.agent_id \in Agents => Readable(i)
        /\ Payable(i)
        /\ e.intent = i
    BY <2>2, IntentPays
  <2>5. ServedPayable'
    <3>1. IsFiniteSet(SavedCalls \cup {c})
      BY FS_AddElement DEF ChargedService, ServedPayable
    <3>2. \A d \in SavedCalls \cup {c} : Payable(intent[d])
      BY <2>4 DEF ChargedService, ServedPayable
    <3>3. QED BY <2>2, <2>3, <3>1, <3>2 DEF ServedPayable, Payable
  <2> HIDE DEF e
  <2>6. ASSUME NEW a \in Agents
        PROVE  /\ store'.spent_in_period[a] = InitialState.spent_in_period[a] + PaidBy(Charged \cup {e}, a)
               /\ store'.spent_in_period[a] <= BudgetLimit[a]
    <3>1. store \in State
      BY DEF ChargedService, SerialService, Inv, TypeOK
    <3>2. /\ Charge(i, a) \in Int
          /\ store'.spent_in_period[a] = store.spent_in_period[a] + Charge(i, a)
          /\ store'.spent_in_period[a] <= BudgetLimit[a]
      BY <1>2, <2>2, <2>4, <3>1, AllowedIsCharged
    <3>3. /\ PaidBy(Charged \cup {e}, a) = PaidBy(Charged, a) + Charge(i, a)
          /\ PaidBy(Charged, a) \in Int
      BY <1>2, <2>3, <2>4, PaidAdds
    <3>4. InitialState.spent_in_period[a] \in Int
      BY GuardAssumption DEF State
    <3> HIDE DEF i
    <3>5. QED BY <1>2, <3>2, <3>3, <3>4
  <2>7. \A a \in Agents : /\ store.spent_in_period[a]' = InitialState.spent_in_period[a] + PaidBy(Charged', a)
                          /\ store.spent_in_period[a]' <= BudgetLimit[a]
    BY <2>3, <2>6
  <2>8. (\A a \in Agents : /\ store.spent_in_period[a] = InitialState.spent_in_period[a] + PaidBy(Charged, a)
                           /\ store.spent_in_period[a] <= BudgetLimit[a])'
    BY <2>7
  <2>9. ChargedExactly'
    BY <2>8, ChargedIsPaid, PTL
  <2>10. QED BY <1>1, <2>5, <2>9 DEF ChargedService
<1>4. CASE ~ \E c \in Calls : SaveLands(c)
  <2>1. /\ UNCHANGED store
        /\ \A c \in Calls : /\ pc'[c] \in Served <=> pc[c] \in Served
                            /\ pc[c] \in Served => intent'[c] = intent[c]
    BY <1>4, OnlySavesCharge DEF ChargedService
  <2>2. SavedCalls' = SavedCalls /\ Charged' = Charged
    BY <2>1 DEF SavedCalls, Charged, Served
  <2>3. ServedPayable'
    BY <2>1, <2>2 DEF ChargedService, ServedPayable, SavedCalls, Payable
  <2>4. (\A a \in Agents : /\ store.spent_in_period[a] = InitialState.spent_in_period[a] + PaidBy(Charged, a)
                           /\ store.spent_in_period[a] <= BudgetLimit[a])'
    BY <1>2, <2>1, <2>2
  <2>5. ChargedExactly'
    BY <2>4, ChargedIsPaid, PTL
  <2>6. QED BY <1>1, <2>3, <2>5 DEF ChargedService
<1>5. QED BY <1>3, <1>4

(* The charges are exact in every undisturbed behaviour.                   *)
LEMMA ServiceIsCharged ==
  ASSUME Undisturbed, StartsWithinBudget
  PROVE  Spec => []ChargedService
<1>1. Init => ServedPayable /\ ChargedExactly
  <2> SUFFICES ASSUME Init PROVE ServedPayable /\ ChargedExactly
    OBVIOUS
  <2>1. SavedCalls = {} /\ Charged = {} /\ store = InitialState
    BY DEF Init, SavedCalls, Charged, Served
  <2>2. ServedPayable
    BY <2>1, FS_EmptySet DEF ServedPayable
  <2>3. \A a \in Agents : InitialState.spent_in_period[a] \in Int
    BY GuardAssumption DEF State
  <2>4. ChargedExactly
    BY <2>1, <2>3, PaidByNobody, ChargedIsPaid, LimitsAssumption DEF StartsWithinBudget
  <2>5. QED BY <2>2, <2>4
<1>2. Init => SerialService
  <2>1. Init => OneAtATime /\ \A c \in Calls : Serving(c)
    BY DEF Init, OneAtATime, Busy, Serving, Pending
  <2>2. QED BY <2>1, Starts DEF SerialService
<1>3. ChargedService /\ [Next]_vars => ChargedService'
  BY ChargesKept
<1>4. QED BY <1>1, <1>2, <1>3, PTL DEF Spec, ChargedService

(* When calls do not overlap and neither a save nor the process fails, the *)
(* stored state charges exactly the calls that were served, each of them   *)
(* once, within the budget (BudgetModule.ts:8-34, guard.ts:127).           *)
THEOREM GuardChargesExactly ==
  ASSUME Undisturbed, StartsWithinBudget
  PROVE  Spec => []ChargedExactly
<1>1. ChargedService => ChargedExactly
  BY DEF ChargedService
<1>2. QED BY <1>1, ServiceIsCharged, PTL

(* The stages of a call that has taken effect, a client's from its save on. *)
Acting == Served \cup {"executed", "saving"}

(* What has taken effect is charged, or about to be, and the guard charges *)
(* nothing else.                                                           *)
EffectsServed ==
  \A c \in Calls : /\ c \in effects => pc[c] \in Acting
                   /\ pc[c] \in Acting => c \in effects \cup Clients

(* A callback that took effect is on its way to be charged, unless it or   *)
(* the save fails.                                                         *)
LEMMA EffectsKept ==
  ASSUME Undisturbed, "execute" \notin Faults, Inv, EffectsServed, [Next]_vars
  PROVE  EffectsServed'
<1>0. /\ pc \in [Calls -> Ended \cup { "idle", "loaded", "appending", "appended",
                                     "executing", "executed", "saving", "saved" }]
      /\ effects \subseteq Calls
  BY DEF Inv, TypeOK
<1>1. ASSUME NEW c \in Calls, pc[c] \notin Acting, NEW stage,
             stage \in Acting => c \in Clients,
             pc' = [pc EXCEPT ![c] = stage], UNCHANGED effects
      PROVE  EffectsServed'
  BY <1>0, <1>1 DEF EffectsServed
<1>2. ASSUME NEW c \in Calls, NEW stage \in Acting, pc' = [pc EXCEPT ![c] = stage],
             \/ effects' = effects /\ pc[c] \in Acting
             \/ effects' = effects \cup {c}
      PROVE  EffectsServed'
  BY <1>0, <1>2 DEF EffectsServed
<1>3. ASSUME NEW c \in Calls, Load(c) \/ LoadFails(c) \/ Evaluate(c) \/ AppendLands(c)
      PROVE  EffectsServed'
  <2>1. /\ pc[c] \notin Acting
        /\ \E stage \in {"loaded", "appending", "appended", "failed"} : pc' = [pc EXCEPT ![c] = stage]
        /\ UNCHANGED effects
    BY <1>3 DEF Load, LoadFails, Evaluate, AppendLands, EndAt, Acting, Served
  <2>2. QED BY <1>1, <2>1 DEF Acting, Served
<1>4. ASSUME NEW c \in Calls, AppendSettles(c)
      PROVE  EffectsServed'
  <2>1. pc[c] \notin Acting /\ UNCHANGED effects
    BY <1>4 DEF AppendSettles, Acting, Served
  <2>2. CASE c \in allowed /\ c \in Clients
    <3>1. pc' = [pc EXCEPT ![c] = "saving"]
      BY <1>4, <2>2 DEF AppendSettles
    <3>2. QED BY <1>1, <2>1, <2>2, <3>1
  <2>3. CASE c \in allowed /\ c \notin Clients
    <3>1. pc' = [pc EXCEPT ![c] = "executing"]
      BY <1>4, <2>3 DEF AppendSettles
    <3>2. QED BY <1>1, <2>1, <3>1 DEF Acting, Served
  <2>4. CASE c \notin allowed
    <3>1. pc' = [pc EXCEPT ![c] = "denied"]
      BY <1>4, <2>4 DEF AppendSettles, EndAt
    <3>2. QED BY <1>1, <2>1, <3>1 DEF Acting, Served
  <2>5. QED BY <2>2, <2>3, <2>4
<1>5. ASSUME NEW c \in Calls, Fails(c)
      PROVE  EffectsServed'
  <2>1. /\ pc[c] \notin Acting
        /\ \E stage \in {"failed"} : pc' = [pc EXCEPT ![c] = stage]
        /\ UNCHANGED effects
    BY <1>5 DEF Fails, EndAt, Undisturbed, Acting, Served
  <2>2. QED BY <1>1, <2>1 DEF Acting, Served
<1>6. ASSUME NEW c \in Calls,
             ExecuteLands(c) \/ ExecuteSettles(c) \/ SaveLands(c) \/ SaveSettles(c)
      PROVE  EffectsServed'
  <2>1. \E stage \in Acting : pc' = [pc EXCEPT ![c] = stage]
    BY <1>6 DEF ExecuteLands, ExecuteSettles, SaveLands, SaveSettles, EndAt, Acting, Served
  <2>2. \/ effects' = effects /\ pc[c] \in Acting
        \/ effects' = effects \cup {c}
    BY <1>6 DEF ExecuteLands, ExecuteSettles, SaveLands, SaveSettles, Acting, Served
  <2>3. QED BY <1>2, <2>1, <2>2
<1>7. ~ Crash
  BY DEF Crash, Undisturbed
<1>8. ASSUME UNCHANGED vars
      PROVE  EffectsServed'
  BY <1>8 DEF vars, locals, EffectsServed
<1>9. QED BY <1>3, <1>4, <1>5, <1>6, <1>7, <1>8 DEF Next

(* What calls have spent is what was charged, and so within the budget.    *)
LEMMA EffectsArePaid ==
  ASSUME StartsWithinBudget, ChargedService, EffectsServed
  PROVE  EffectsWithinBudget
<1> SUFFICES ASSUME NEW a \in Agents
             PROVE  AmountOf(InEffect, a) <= BudgetLimit[a]
  BY DEF EffectsWithinBudget
<1>1. /\ IsFiniteSet(Charged) /\ Charged = Tagged(SavedCalls)
      /\ \A e \in Charged : Payable(e.intent)
      /\ store.spent_in_period[a] = InitialState.spent_in_period[a] + PaidBy(Charged, a)
      /\ store.spent_in_period[a] <= BudgetLimit[a]
  BY ChargedAreSaved, ChargedIsPaid DEF ChargedService
<1>2. /\ IsFiniteSet(SavedCalls)
      /\ \A c \in SavedCalls : Payable(intent[c])
      /\ effects \subseteq Calls
      /\ InitialState.spent_in_period[a] \in Nat /\ BudgetLimit[a] \in Nat
      /\ store \in State
  <2>1. BudgetLimit[a] \in Nat
    BY LimitsAssumption
  <2>2. InitialState.spent_in_period[a] \in Nat
    BY <2>1 DEF StartsWithinBudget
  <2>3. QED
    BY <2>1, <2>2 DEF ChargedService, ServedPayable, SerialService, Inv, TypeOK
<1>3. PaidBy(Charged, a) \in Int
  BY <1>1, PaidIsInteger
<1>4. /\ SavedCalls \subseteq InEffect
      /\ \A c \in InEffect : c \in Calls /\ pc[c] \in Acting
  BY <1>2, GuardAssumption DEF InEffect, SavedCalls, EffectsServed, Acting, Served
<1>5. CASE InEffect = SavedCalls
  <2>1. AmountOf(InEffect, a) = PaidBy(Charged, a)
    BY <1>1, <1>2, <1>5, AmountIsPaid
  <2>2. QED BY <1>1, <1>2, <1>3, <2>1
<1>6. ASSUME NEW c \in InEffect, c \notin SavedCalls
      PROVE  AmountOf(InEffect, a) <= BudgetLimit[a]
  <2> DEFINE i == intent[c]
             e == [call |-> c, intent |-> i]
             C == Charged \cup {e}
  <2>1. c \in Calls /\ pc[c] \in {"executed", "saving"}
    BY <1>4, <1>6 DEF Acting, SavedCalls
  <2>2. InEffect = SavedCalls \cup {c}
    BY <1>4, <1>6, <2>1
       DEF Acting, SavedCalls, ChargedService, SerialService, OneAtATime, Busy
  <2>3. /\ i \in Intents
        /\ Evaluation(i, store, "fail-fast").decision = "ALLOW"
    BY <2>1 DEF ChargedService, SerialService, Serving, Decided, Pending
  <2>4. /\ i.agent_id \in Agents => Readable(i)
        /\ Payable(i)
        /\ e.intent = i
    BY <2>3, IntentPays
  <2>5. /\ Charge(i, a) \in Int
        /\ store.spent_in_period[a] + Charge(i, a) <= BudgetLimit[a]
    <3>1. LET next == Evaluation(i, store, "fail-fast").next
          IN  /\ Charge(i, a) \in Int
              /\ next.spent_in_period[a] = store.spent_in_period[a] + Charge(i, a)
              /\ store.spent_in_period[a] <= BudgetLimit[a] => next.spent_in_period[a] <= BudgetLimit[a]
      BY <1>2, <2>3, <2>4, AllowedIsCharged
    <3>2. QED BY <1>1, <3>1
  <2>6. IsFiniteSet(InEffect) /\ \A d \in InEffect : Payable(intent[d])
    <3>1. IsFiniteSet(SavedCalls \cup {c})
      BY <1>2, FS_AddElement
    <3>2. QED BY <1>2, <2>2, <2>4, <3>1
  <2>7. AmountOf(InEffect, a) = PaidBy(Tagged(InEffect), a)
    BY <2>6, AmountIsPaid
  <2>8. Tagged(InEffect) = C
    BY <1>1, <2>2 DEF Tagged
  <2>9. e \notin Charged
    BY <1>6, <2>1 DEF Charged, SavedCalls, Served
  <2>10. PaidBy(C, a) = PaidBy(Charged, a) + Charge(i, a)
    <3> HIDE DEF e, i
    <3>1. \A d \in Charged \cup {e} : Payable(d.intent)
      BY <1>1, <2>4
    <3>2. PaidBy(Charged \cup {e}, a) = PaidBy(Charged, a) + Charge(e.intent, a)
      BY <1>1, <2>9, <3>1, PaidAdds
    <3>3. QED BY <2>4, <3>2
  <2> HIDE DEF i, C
  <2>11. QED BY <1>1, <1>2, <1>3, <2>5, <2>7, <2>8, <2>10
<1>7. QED BY <1>4, <1>5, <1>6

(* When nothing but loads and appends fails, and calls do not overlap,     *)
(* what the callbacks and the clients have spent is within the budget,     *)
(* negative amounts included: what a denied one has merged is not saved    *)
(* (guard.ts:89-127, client.ts:65-66, packages/core/README.md:145).        *)
THEOREM EffectsAreWithinBudget ==
  ASSUME Undisturbed, "execute" \notin Faults, StartsWithinBudget
  PROVE  Spec => []EffectsWithinBudget
<1>1. Init => Inv /\ EffectsServed
  BY Starts DEF Init, EffectsServed, Acting, Served
<1>2. Spec => []ChargedService
  BY ServiceIsCharged
<1>3. Inv /\ EffectsServed /\ [Next]_vars => EffectsServed'
  BY EffectsKept
<1>4. ChargedService /\ EffectsServed => EffectsWithinBudget
  BY EffectsArePaid
<1>5. QED BY <1>1, <1>2, <1>3, <1>4, InvHolds, PTL DEF Spec
=============================================================================
