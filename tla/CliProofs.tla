-------------------------------- MODULE CliProofs --------------------------------
(***************************************************************************)
(* Theorems about the command line tool (Cli.tla), for any number of       *)
(* invocations, any command lines, policies and bounds.                    *)
(*                                                                         *)
(* A launch carries, from its decision to its report, a state that charges *)
(* nothing but what the trail says or what it is itself about to append    *)
(* (Carries); an init that no writer runs beside finds its own state when  *)
(* it empties the trail (Begins); and who runs beside whom is what order   *)
(* says (Apart).  All steps of all commands are reduced to eleven effects  *)
(* on the state file and the trail, and each keeps these.                  *)
(*                                                                         *)
(* Of launches one by one, all that is on the trail, all that a launch is  *)
(* about to append and the state that it is about to save are of one       *)
(* policy, or of any after an init that was cut short, and the trail goes  *)
(* with the clock (OneVersion): that is what the verification commands     *)
(* look at.                                                                *)
(***************************************************************************)
EXTENDS Cli, SequenceTheorems, TLAPS, FiniteSetTheorems

-----------------------------------------------------------------------------
(***************************************************************************)
(* What a decision makes of a state, and of the trail                      *)
(***************************************************************************)

Outcomes ==
  {<< >>, <<"INTENT_RECEIVED">>, <<"INTENT_RECEIVED", "DECISION">>,
   <<"INTENT_RECEIVED", "DECISION", "AUTH_EMITTED">>}

(* Whatever is decided, the policy version stays.                          *)
LEMMA DecisionKeepsVersion ==
  ASSUME NEW i, NEW s
  PROVE  /\ Decide(i, s).next.policy_version = s.policy_version
         /\ Decide(i, s).events \in Outcomes
<1> DEFINE v == s.policy_version
           out == Engine(v)!Evaluation(i, s, "fail-fast")
           denying == Engine(v)!Denying(i, s)
           working == Engine(v)!MergeDeltas(i, s, Engine(v)!Merged(i, denying, "fail-fast"))
           E == Engine(v)!EarlyReasons(i, s)
           H == Engine(v)!Hashable(working)
           W == Engine(v)!WithAuth(i, working)
<1>1. working.policy_version = v
  BY DEF Engine!MergeDeltas
<1>2. W.policy_version = v
  BY <1>1 DEF Engine!WithAuth
<1>3. out = IF E # {} THEN [decision |-> "DENY", next |-> s, events |-> << >>]
            ELSE IF denying # {}
            THEN [decision |-> "DENY", next |-> working,
                  events |-> <<"INTENT_RECEIVED", "DECISION">>]
            ELSE IF ~H
            THEN [decision |-> "DENY", next |-> working, events |-> <<"INTENT_RECEIVED">>]
            ELSE [decision |-> "ALLOW", next |-> W,
                  events |-> <<"INTENT_RECEIVED", "DECISION", "AUTH_EMITTED">>]
  BY Zenon DEF Engine!Evaluation
<1> HIDE DEF working, denying, E, H, W
<1>4. out.next.policy_version = v /\ out.events \in Outcomes
  BY <1>1, <1>2, <1>3 DEF Outcomes
<1> QED  BY <1>4, Zenon DEF Decide

(* An allowed EXECUTE charges its authorization, and no other, and says so *)
(* in its last event.                                                      *)
LEMMA AllowedIsCharged ==
  ASSUME NEW i, NEW s, i.type = "EXECUTE", Accounts(s), Decide(i, s).decision = "ALLOW"
  PROVE  LET out == Decide(i, s)
         IN  /\ out.events = <<"INTENT_RECEIVED", "DECISION", "AUTH_EMITTED">>
             /\ Accounts(out.next)
             /\ Charged(out.next) = Charged(s) \cup {AuthKey(i.nonce, i.timestamp)}
<1> DEFINE v == s.policy_version
           out == Engine(v)!Evaluation(i, s, "fail-fast")
           denying == Engine(v)!Denying(i, s)
           ms == Engine(v)!Merged(i, denying, "fail-fast")
           working == Engine(v)!MergeDeltas(i, s, ms)
           E == Engine(v)!EarlyReasons(i, s)
           H == Engine(v)!Hashable(working)
           W == Engine(v)!WithAuth(i, working)
           new == Engine(v)!NewAuth(i, working)
           agent == i.agent_id
<1>1. out = IF E # {} THEN [decision |-> "DENY", next |-> s, events |-> << >>]
            ELSE IF denying # {}
            THEN [decision |-> "DENY", next |-> working,
                  events |-> <<"INTENT_RECEIVED", "DECISION">>]
            ELSE IF ~H
            THEN [decision |-> "DENY", next |-> working, events |-> <<"INTENT_RECEIVED">>]
            ELSE [decision |-> "ALLOW", next |-> W,
                  events |-> <<"INTENT_RECEIVED", "DECISION", "AUTH_EMITTED">>]
  BY Zenon DEF Engine!Evaluation
<1>2. E = {} /\ out.next = W /\ out.events = <<"INTENT_RECEIVED", "DECISION", "AUTH_EMITTED">>
  <2> HIDE DEF working, denying, E, H, W
  <2>1. out.decision = "ALLOW"
    BY Zenon DEF Decide
  <2> QED  BY <1>1, <2>1
<1>3. agent \in Agents
  BY <1>2 DEF Engine!EarlyReasons
<1>4. working.active_auths = s.active_auths
  <2>1. working.active_auths =
          IF "Concurrency" \in ms
          THEN [s.active_auths EXCEPT ![agent] =
                  Engine(v)!MergeInto(s.active_auths[agent], Engine(v)!ActiveAuthsDelta(i, s))]
          ELSE s.active_auths
    <3> HIDE DEF ms
    <3> QED  BY DEF Engine!MergeDeltas
  <2>2. Engine(v)!MergeInto(s.active_auths[agent], Engine(v)!ActiveAuthsDelta(i, s))
          = s.active_auths[agent]
    BY DEF Engine!MergeInto, Engine!ActiveAuthsDelta
  <2> QED  BY <2>1, <2>2, <1>3 DEF Accounts
<1>5. W.active_auths = [s.active_auths EXCEPT ![agent] = @ \cup {new}]
  <2>1. W = [working EXCEPT !.active_auths[agent] = Engine(v)!MergeInto(@, {new})]
    BY Zenon DEF Engine!WithAuth
  <2>2. "active_auths" \in DOMAIN working
    BY DEF Engine!MergeDeltas
  <2> HIDE DEF working, new
  <2> QED  BY <1>4, <2>1, <2>2 DEF Engine!MergeInto
<1>6. new.nonce = i.nonce /\ new.timestamp = i.timestamp
  BY DEF Engine!NewAuth
<1> HIDE DEF W, new
<1>7. UNION {W.active_auths[a] : a \in Agents} = (UNION {s.active_auths[a] : a \in Agents}) \cup {new}
  <2>1. \A a \in Agents :
          W.active_auths[a] = IF a = agent THEN s.active_auths[a] \cup {new} ELSE s.active_auths[a]
    BY <1>5 DEF Accounts
  <2>2. ASSUME NEW a \in Agents, NEW x \in W.active_auths[a]
        PROVE  x \in (UNION {s.active_auths[b] : b \in Agents}) \cup {new}
    <3>1. x \in s.active_auths[a] \/ x = new
      BY <2>1
    <3> QED  BY <3>1
  <2>3. ASSUME NEW a \in Agents, NEW x \in s.active_auths[a]
        PROVE  x \in UNION {W.active_auths[b] : b \in Agents}
    <3>1. x \in W.active_auths[a]
      BY <2>1
    <3> QED  BY <3>1
  <2>4. new \in UNION {W.active_auths[b] : b \in Agents}
    <3>1. new \in W.active_auths[agent]
      BY <2>1, <1>3
    <3> QED  BY <1>3, <3>1
  <2> QED  BY <2>2, <2>3, <2>4, Zenon
<1>8. Accounts(W)
  BY <1>3, <1>5 DEF Accounts
<1>9. Charged(W) = Charged(s) \cup {AuthKey(new.nonce, new.timestamp)}
  <2> DEFINE before == UNION {s.active_auths[a] : a \in Agents}
             after == UNION {W.active_auths[a] : a \in Agents}
  <2>1. /\ Charged(W) = {AuthKey(auth.nonce, auth.timestamp) : auth \in after}
        /\ Charged(s) = {AuthKey(auth.nonce, auth.timestamp) : auth \in before}
        /\ after = before \cup {new}
    BY <1>7, Zenon DEF Charged
  <2> HIDE DEF before, after
  <2> QED  BY <2>1
<1>10. Decide(i, s) = out
  BY Zenon DEF Decide
<1> HIDE DEF out
<1> QED  BY <1>2, <1>6, <1>8, <1>9, <1>10

-----------------------------------------------------------------------------
(***************************************************************************)
(* Trails                                                                  *)
(***************************************************************************)

IsTrail(events) == events \in Seq({events[k] : k \in DOMAIN events})

(* What one trail and another behind it say together.                      *)
LEMMA TrailsJoin ==
  ASSUME NEW s, IsTrail(s), NEW t, IsTrail(t)
  PROVE  /\ IsTrail(s \o t)
         /\ Len(s) \in Nat /\ Len(t) \in Nat
         /\ DOMAIN s = 1 .. Len(s) /\ DOMAIN t = 1 .. Len(t)
         /\ DOMAIN (s \o t) = 1 .. Len(s) + Len(t)
         /\ \A k \in 1 .. Len(s) : (s \o t)[k] = s[k]
         /\ \A k \in 1 .. Len(t) : (s \o t)[Len(s) + k] = t[k]
<1> DEFINE S == {s[k] : k \in DOMAIN s}
           T == {t[k] : k \in DOMAIN t}
           both == s \o t
<1>1. s \in Seq(S \cup T) /\ t \in Seq(S \cup T)
  <2>1. s \in Seq(S) /\ t \in Seq(T)
    BY Zenon DEF IsTrail
  <2> HIDE DEF S, T
  <2> QED  BY <2>1, SeqMonotonic, Zenon
<1> HIDE DEF S, T
<1>2. /\ Len(s) \in Nat /\ Len(t) \in Nat
      /\ DOMAIN s = 1 .. Len(s) /\ DOMAIN t = 1 .. Len(t)
  BY <1>1, LenProperties
<1>3. /\ both \in Seq(S \cup T) /\ Len(both) = Len(s) + Len(t)
      /\ \A k \in 1 .. Len(s) + Len(t) :
           both[k] = IF k <= Len(s) THEN s[k] ELSE t[k - Len(s)]
  BY <1>1, ConcatProperties
<1>4. DOMAIN both = 1 .. Len(s) + Len(t)
  BY <1>3, LenProperties
<1> HIDE DEF both
<1>5. \A k \in 1 .. Len(s) : both[k] = s[k]
  BY <1>2, <1>3
<1>6. \A k \in 1 .. Len(t) : both[Len(s) + k] = t[k]
  <2>1. ASSUME NEW k \in 1 .. Len(t)
        PROVE  /\ Len(s) + k \in 1 .. Len(s) + Len(t) /\ ~(Len(s) + k <= Len(s))
               /\ Len(s) + k - Len(s) = k
    BY <1>2
  <2> QED  BY <1>3, <2>1
<1>7. IsTrail(both)
  <2> DEFINE B == {both[k] : k \in DOMAIN both}
  <2>1. both \in [1 .. Len(both) -> B] /\ Len(both) \in Nat
    BY <1>2, <1>3, <1>4, LenProperties
  <2> HIDE DEF B
  <2>2. both \in Seq(B)
    BY <2>1, SeqDef
  <2> QED  BY <2>2, Zenon DEF IsTrail, B
<1> QED  BY <1>2, <1>4, <1>5, <1>6, <1>7 DEF both

(* What they audit.                                                        *)
LEMMA JoinAudits ==
  ASSUME NEW s, IsTrail(s), NEW t, IsTrail(t)
  PROVE  Audited(s \o t) = Audited(s) \cup Audited(t)
<1> DEFINE both == s \o t
           Says(events) == {k \in DOMAIN events : events[k].type = "AUTH_EMITTED"}
<1>1. /\ Len(s) \in Nat /\ Len(t) \in Nat
      /\ DOMAIN s = 1 .. Len(s) /\ DOMAIN t = 1 .. Len(t)
      /\ DOMAIN both = 1 .. Len(s) + Len(t)
      /\ \A k \in 1 .. Len(s) : both[k] = s[k]
      /\ \A k \in 1 .. Len(t) : both[Len(s) + k] = t[k]
  BY TrailsJoin
<1> HIDE DEF both
<1>2. \A k \in DOMAIN both :
        (k \in DOMAIN s /\ both[k] = s[k])
          \/ (k - Len(s) \in DOMAIN t /\ both[k] = t[k - Len(s)])
  <2>1. ASSUME NEW k \in DOMAIN both
        PROVE  (k \in DOMAIN s /\ both[k] = s[k])
                 \/ (k - Len(s) \in DOMAIN t /\ both[k] = t[k - Len(s)])
    <3>1. CASE k <= Len(s)
      BY <1>1, <3>1
    <3>2. CASE ~(k <= Len(s))
      <4>1. k - Len(s) \in 1 .. Len(t) /\ k = Len(s) + (k - Len(s))
        BY <1>1, <3>2
      <4>2. both[Len(s) + (k - Len(s))] = t[k - Len(s)]
        BY <1>1, <4>1
      <4> QED  BY <1>1, <4>1, <4>2
    <3> QED  BY <3>1, <3>2
  <2> QED  BY <2>1
<1>3. ASSUME NEW x \in Audited(both)
      PROVE  x \in Audited(s) \cup Audited(t)
  <2>1. PICK k \in Says(both) : x = AuthKey(both[k].authorization_id, both[k].timestamp)
    BY DEF Audited
  <2>2. CASE k \in DOMAIN s /\ both[k] = s[k]
    BY <2>1, <2>2 DEF Audited
  <2>3. CASE k - Len(s) \in DOMAIN t /\ both[k] = t[k - Len(s)]
    BY <2>1, <2>3 DEF Audited
  <2> QED  BY <1>2, <2>1, <2>2, <2>3
<1>4. ASSUME NEW x \in Audited(s) PROVE x \in Audited(both)
  <2>1. PICK k \in Says(s) : x = AuthKey(s[k].authorization_id, s[k].timestamp)
    BY DEF Audited
  <2>2. k \in DOMAIN both /\ both[k] = s[k]
    BY <1>1, <2>1
  <2> QED  BY <2>1, <2>2 DEF Audited
<1>5. ASSUME NEW x \in Audited(t) PROVE x \in Audited(both)
  <2>1. PICK k \in Says(t) : x = AuthKey(t[k].authorization_id, t[k].timestamp)
    BY DEF Audited
  <2>2. Len(s) + k \in DOMAIN both /\ both[Len(s) + k] = t[k]
    BY <1>1, <2>1
  <2> QED  BY <2>1, <2>2 DEF Audited
<1> QED  BY <1>3, <1>4, <1>5 DEF both

(* The events of a decision are a trail; those of an allowed one audit its *)
(* authorization.                                                          *)
LEMMA EventsAreATrail ==
  ASSUME NEW i, NEW v, NEW types \in Outcomes
  PROVE  /\ IsTrail(Events(i, v, types))
         /\ DOMAIN Events(i, v, types) = DOMAIN types
         /\ \A k \in DOMAIN types : Events(i, v, types)[k] = AuditEvent(types[k], i, v)
<1> DEFINE events == Events(i, v, types)
           E(k) == AuditEvent(types[k], i, v)
<1>1. \E n \in Nat : DOMAIN types = 1 .. n
  <2>1. \E n \in {0, 1, 2, 3} : DOMAIN types = 1 .. n
    BY DEF Outcomes
  <2> QED  BY <2>1
<1>2. events = [k \in DOMAIN types |-> E(k)]
  BY Zenon DEF Events
<1> HIDE DEF events, E
<1>3. DOMAIN events = DOMAIN types /\ \A k \in DOMAIN types : events[k] = E(k)
  BY <1>2
<1>4. PICK n \in Nat : DOMAIN types = 1 .. n
  BY <1>1
<1>5. events \in [1 .. n -> {events[k] : k \in DOMAIN events}]
  BY <1>2, <1>3, <1>4
<1>6. IsTrail(events)
  BY <1>5, SeqDef DEF IsTrail
<1> QED  BY <1>3, <1>6 DEF events, E

LEMMA AllowedIsAudited ==
  ASSUME NEW i, NEW v
  PROVE  AuthKey(i.nonce, i.timestamp)
           \in Audited(Events(i, v, <<"INTENT_RECEIVED", "DECISION", "AUTH_EMITTED">>))
<1> DEFINE types == <<"INTENT_RECEIVED", "DECISION", "AUTH_EMITTED">>
           events == Events(i, v, types)
           last == AuditEvent("AUTH_EMITTED", i, v)
<1>1. types \in Outcomes /\ 3 \in DOMAIN types /\ types[3] = "AUTH_EMITTED"
  BY DEF Outcomes
<1>2. 3 \in DOMAIN events /\ events[3] = last
  BY <1>1, EventsAreATrail
<1>3. last.type = "AUTH_EMITTED" /\ last.authorization_id = i.nonce /\ last.timestamp = i.timestamp
  BY DEF AuditEvent, Line!OwnFields
<1> HIDE DEF events, last
<1>4. AuthKey(events[3].authorization_id, events[3].timestamp) \in Audited(events)
  BY <1>2, <1>3 DEF Audited
<1> QED  BY <1>2, <1>3, <1>4 DEF events

-----------------------------------------------------------------------------
(***************************************************************************)
(* What is left for a command to do                                        *)
(***************************************************************************)

Reads(file)     == [do |-> "read", file |-> file]
Truncates(file) == [do |-> "truncate", file |-> file]
Fills(file)     == [do |-> "fill", file |-> file]
Appends         == [do |-> "append", file |-> "audit"]
Reports         == [do |-> "report", file |-> "none"]

(* What a launch that is allowed still does, until it reports; and what    *)
(* one that is denied does first.                                          *)
ToAudit  == <<Appends, Truncates("state"), Fills("state"), Reports>>
ToSave   == <<Truncates("state"), Fills("state"), Reports>>
ToFill   == <<Fills("state"), Reports>>
ToReport == <<Reports>>
ToDeny   == <<Appends, Reports>>

ToInit   == <<Truncates("state"), Fills("state"), Truncates("audit"), Reports>>
ToBegin  == <<Fills("state"), Truncates("audit"), Reports>>
ToReset  == <<Truncates("audit"), Reports>>

ToRead   == <<Reads("audit"), Truncates("envelope"), Fills("envelope"), Reports>>
ToWrite(file)  == <<Truncates(file), Fills(file), Reports>>
ToFinish(file) == <<Fills(file), Reports>>

Files == {"state", "audit", "snapshot", "envelope", "authorization"}

Elsewhere == {"snapshot", "envelope", "authorization"}

IsLaunch(P) ==
  /\ P.cmd = "launch"
  /\ P.steps \in {ToAudit, ToSave, ToFill, ToReport, ToDeny}
  /\ P.steps \in {ToAudit, ToDeny} => IsTrail(P.holds.audit)
  /\ P.steps \in {ToAudit, ToSave, ToFill} => Accounts(P.holds.state)
  /\ P.steps = ToDeny => P.auth = Undefined

IsInit(P) ==
  /\ P.cmd = "init"
  /\ P.steps \in {ToInit, ToBegin, ToReset, ToReport}
  /\ P.holds.state \in FreshStates

IsOther(P) ==
  /\ P.cmd \in {"dry-run", "auth create", "build", "make-envelope"}
  /\ P.steps \in {ToRead, ToReport} \cup {ToWrite(file) : file \in Elsewhere}
                   \cup {ToFinish(file) : file \in Elsewhere}
  /\ P.steps = ToRead => P.cmd = "make-envelope" /\ "state" \in DOMAIN P.holds
  /\ P.cmd = "make-envelope" =>
       P.steps \in {ToRead, ToWrite("envelope"), ToFinish("envelope"), ToReport}

IsProcess(P) ==
  /\ P = [cmd |-> P.cmd, steps |-> P.steps, holds |-> P.holds, auth |-> P.auth,
          beside |-> P.beside]
  /\ IsLaunch(P) \/ IsInit(P) \/ IsOther(P)

-----------------------------------------------------------------------------
(***************************************************************************)
(* What is inductive                                                       *)
(***************************************************************************)

Shape ==
  /\ files = [f \in Files |-> files[f]]
  /\ IsTrail(files.audit)
  /\ Readable(files.state) => Accounts(files.state)
  /\ procs = [p \in Invocations |-> procs[p]]
  /\ \A p \in Running : IsProcess(procs[p])
  /\ order \in {"serial", "cut", "shared", "disturbed"}

NoWriterBeside(P) == ~\E cmd \in P.beside : Writes(cmd)

(* Unless the order is disturbed nothing writes beside an init, and where  *)
(* launches come one by one one runs at a time.                            *)
Apart ==
  /\ \A p, q \in Running : p # q => procs[q].cmd \in procs[p].beside
  /\ order # "disturbed" =>
       \A p \in Running : procs[p].cmd = "init" => NoWriterBeside(procs[p])
  /\ OneByOne =>
       \A p, q \in Running : procs[p].cmd = "launch" /\ procs[q].cmd = "launch" => p = q

(* What the launch is still to put on the trail.                           *)
Unsaid(P) == IF P.steps = ToAudit THEN Audited(P.holds.audit) ELSE {}

(* An allowed launch carries a state that is on the trail, or will be with *)
(* its own events; alone, it has nobody change the file under it.          *)
Carries(P) ==
  order # "disturbed" /\ (P.steps \in {ToAudit, ToSave, ToFill} \/ P.auth # Undefined) =>
    /\ Charged(P.holds.state) \subseteq Audited(files.audit) \cup Unsaid(P)
    /\ P.auth \in Charged(P.holds.state)
    /\ OneByOne =>
         /\ printed \subseteq Charged(P.holds.state)
         /\ P.steps = ToReport /\ Readable(files.state) => files.state = P.holds.state

(* An init that no writer runs beside finds the state that it wrote.       *)
Begins(P) ==
  NoWriterBeside(P) =>
    /\ P.steps \in {ToBegin, ToReset} => printed = {}
    /\ P.steps = ToReset => files.state = P.holds.state

(* The two files that make-envelope reads.                                 *)
Gathers(P) ==
  order # "disturbed" /\ "init" \notin P.beside =>
    /\ P.steps = ToRead => Charged(P.holds.state) \subseteq Audited(files.audit)
    /\ P.steps = ToWrite("envelope") => Charged(P.holds.state) \subseteq Audited(P.holds.audit)

Books ==
  \A p \in Running :
    /\ procs[p].cmd = "launch" => Carries(procs[p])
    /\ procs[p].cmd = "init" => Begins(procs[p])
    /\ procs[p].cmd = "make-envelope" => Gathers(procs[p])

Inv == Shape /\ Apart /\ Books /\ PrintedIsChargedIsAudited

-----------------------------------------------------------------------------
(***************************************************************************)
(* The lists of steps                                                      *)
(***************************************************************************)

(* Short lists, joined.                                                    *)
LEMMA JoinTwo ==
  ASSUME NEW a, NEW b
  PROVE  <<a>> \o <<b>> = <<a, b>>
<1> DEFINE S == {a, b}
           y == <<a, b>>
<1>1. /\ <<a>> \in Seq(S) /\ <<b>> \in Seq(S)
      /\ y \in Seq(S) /\ Len(y) = 2 /\ y[1] = a /\ y[2] = b
  OBVIOUS
<1>2. <<a>> \o <<b>> = y
  <2> DEFINE x == <<a>> \o <<b>>
  <2>1. x \in Seq(S) /\ Len(x) = 2 /\ x[1] = a /\ x[2] = b
    BY <1>1, ConcatProperties
  <2> HIDE DEF x, y
  <2>2. x = y
    BY <1>1, <2>1, SeqEqual
  <2> QED  BY <2>2 DEF x
<1> QED  BY <1>2

LEMMA JoinThree ==
  ASSUME NEW a, NEW b, NEW c
  PROVE  <<a>> \o <<b, c>> = <<a, b, c>> /\ <<a, b>> \o <<c>> = <<a, b, c>>
<1> DEFINE S == {a, b, c}
           y == <<a, b, c>>
<1>1. /\ <<a, b>> \in Seq(S) /\ <<a>> \in Seq(S) /\ <<b, c>> \in Seq(S) /\ <<c>> \in Seq(S)
      /\ y \in Seq(S) /\ Len(y) = 3 /\ y[1] = a /\ y[2] = b /\ y[3] = c
  OBVIOUS
<1>2. <<a>> \o <<b, c>> = y
  <2> DEFINE x == <<a>> \o <<b, c>>
  <2>1. x \in Seq(S) /\ Len(x) = 3 /\ x[1] = a /\ x[2] = b /\ x[3] = c
    BY <1>1, ConcatProperties
  <2> HIDE DEF x, y
  <2>2. x = y
    BY <1>1, <2>1, SeqEqual
  <2> QED  BY <2>2 DEF x
<1>3. <<a, b>> \o <<c>> = y
  <2> DEFINE x == <<a, b>> \o <<c>>
  <2>1. x \in Seq(S) /\ Len(x) = 3 /\ x[1] = a /\ x[2] = b /\ x[3] = c
    BY <1>1, ConcatProperties
  <2> HIDE DEF x, y
  <2>2. x = y
    BY <1>1, <2>1, SeqEqual
  <2> QED  BY <2>2 DEF x
<1> QED  BY <1>2, <1>3

LEMMA JoinFour ==
  ASSUME NEW a, NEW b, NEW c, NEW d
  PROVE  <<a, b, c>> \o <<d>> = <<a, b, c, d>>
<1> DEFINE S == {a, b, c, d}
           y == <<a, b, c, d>>
<1>1. /\ <<a, b, c>> \in Seq(S) /\ <<d>> \in Seq(S)
      /\ y \in Seq(S) /\ Len(y) = 4 /\ y[1] = a /\ y[2] = b /\ y[3] = c /\ y[4] = d
  OBVIOUS
<1>2. <<a, b, c>> \o <<d>> = y
  <2> DEFINE x == <<a, b, c>> \o <<d>>
  <2>1. x \in Seq(S) /\ Len(x) = 4 /\ x[1] = a /\ x[2] = b /\ x[3] = c /\ x[4] = d
    BY <1>1, ConcatProperties
  <2> HIDE DEF x, y
  <2>2. x = y
    BY <1>1, <2>1, SeqEqual
  <2> QED  BY <2>2 DEF x
<1> QED  BY <1>2

(* What each command leaves to do.                                         *)
LEMMA StepsToDo ==
  /\ LaunchSteps("ALLOW", FALSE) = ToAudit
  /\ \A decision : decision # "ALLOW" => LaunchSteps(decision, FALSE) = ToDeny
  /\ \A decision : LaunchSteps(decision, TRUE) = ToReport
  /\ InitSteps = ToInit
  /\ \A file : WriteFile(file) \o Report = ToWrite(file)
  /\ << >> \o Report = ToReport
  /\ Do("read", "audit") \o WriteFile("envelope") \o Report = ToRead
<1>4. /\ <<Appends>> \o <<Truncates("state"), Fills("state")>> \o <<Reports>> = ToAudit
      /\ <<Appends>> \o <<Reports>> = ToDeny
      /\ <<Truncates("state"), Fills("state")>> \o <<Truncates("audit")>> \o <<Reports>> = ToInit
      /\ << >> \o <<Reports>> = ToReport
      /\ <<Reads("audit")>> \o <<Truncates("envelope"), Fills("envelope")>> \o <<Reports>> = ToRead
  <2>1. <<Appends>> \o <<Truncates("state"), Fills("state")>> \o <<Reports>> = ToAudit
    <3>1. <<Appends>> \o <<Truncates("state"), Fills("state")>>
            = <<Appends, Truncates("state"), Fills("state")>>
      BY JoinThree, Zenon
    <3>2. <<Appends, Truncates("state"), Fills("state")>> \o <<Reports>> = ToAudit
      BY JoinFour, Zenon DEF ToAudit
    <3> QED  BY <3>1, <3>2, Zenon
  <2>2. <<Appends>> \o <<Reports>> = ToDeny
    BY JoinTwo, Zenon DEF ToDeny
  <2>3. <<Truncates("state"), Fills("state")>> \o <<Truncates("audit")>> \o <<Reports>> = ToInit
    <3>1. <<Truncates("state"), Fills("state")>> \o <<Truncates("audit")>>
            = <<Truncates("state"), Fills("state"), Truncates("audit")>>
      BY JoinThree, Zenon
    <3>2. <<Truncates("state"), Fills("state"), Truncates("audit")>> \o <<Reports>> = ToInit
      BY JoinFour, Zenon DEF ToInit
    <3> QED  BY <3>1, <3>2, Zenon
  <2>4. << >> \o <<Reports>> = ToReport
    BY DEF ToReport
  <2>5. <<Reads("audit")>> \o <<Truncates("envelope"), Fills("envelope")>> \o <<Reports>> = ToRead
    <3>1. <<Reads("audit")>> \o <<Truncates("envelope"), Fills("envelope")>>
            = <<Reads("audit"), Truncates("envelope"), Fills("envelope")>>
      BY JoinThree, Zenon
    <3>2. <<Reads("audit"), Truncates("envelope"), Fills("envelope")>> \o <<Reports>> = ToRead
      BY JoinFour, Zenon DEF ToRead
    <3> QED  BY <3>1, <3>2, Zenon
  <2> QED  BY <2>1, <2>2, <2>3, <2>4, <2>5, Zenon
<1>5. \A file : <<Truncates(file), Fills(file)>> \o <<Reports>> = ToWrite(file)
  <2>1. ASSUME NEW file
        PROVE  <<Truncates(file), Fills(file)>> \o <<Reports>> = ToWrite(file)
    BY JoinTwo, JoinThree, JoinFour DEF ToWrite
  <2> QED  BY <2>1, Zenon
<1>6. /\ \A file : WriteFile(file) = <<Truncates(file), Fills(file)>>
      /\ \A file : Do("truncate", file) = <<Truncates(file)>>
      /\ Report = <<Reports>> /\ Report = ToReport
      /\ Do("append", "audit") = <<Appends>>
      /\ Do("read", "audit") = <<Reads("audit")>>
  BY Zenon DEF Reads, Truncates, Fills, Appends, Reports, Do, WriteFile, Report, ToReport
<1>7. LaunchSteps("ALLOW", FALSE) = ToAudit
  BY <1>4, <1>6 DEF LaunchSteps
<1>8. \A decision : /\ decision # "ALLOW" => LaunchSteps(decision, FALSE) = ToDeny
                    /\ LaunchSteps(decision, TRUE) = ToReport
  <2>1. ASSUME NEW decision, decision # "ALLOW"
        PROVE  LaunchSteps(decision, FALSE) = ToDeny
    <3>1. LaunchSteps(decision, FALSE) = Do("append", "audit") \o Report
      BY <2>1, Zenon DEF LaunchSteps
    <3> QED  BY <1>4, <1>6, <3>1
  <2>2. ASSUME NEW decision
        PROVE  LaunchSteps(decision, TRUE) = ToReport
    <3>1. LaunchSteps(decision, TRUE) = Report
      BY Zenon DEF LaunchSteps
    <3> QED  BY <1>6, <3>1, Zenon
  <2> QED  BY <2>1, <2>2, Zenon
<1>9. InitSteps = ToInit
  BY <1>4, <1>6 DEF InitSteps
<1> QED  BY <1>4, <1>5, <1>6, <1>7, <1>8, <1>9, Zenon

(* Each list of steps: its first, and what is left behind it.              *)
LEMMA StepsTail ==
  /\ ToAudit[1] = Appends /\ Tail(ToAudit) = ToSave
  /\ ToDeny[1] = Appends /\ Tail(ToDeny) = ToReport
  /\ ToSave[1] = Truncates("state") /\ Tail(ToSave) = ToFill
  /\ ToFill[1] = Fills("state") /\ Tail(ToFill) = ToReport
  /\ ToReport[1] = Reports
  /\ ToInit[1] = Truncates("state") /\ Tail(ToInit) = ToBegin
  /\ ToBegin[1] = Fills("state") /\ Tail(ToBegin) = ToReset
  /\ ToReset[1] = Truncates("audit") /\ Tail(ToReset) = ToReport
  /\ ToRead[1] = Reads("audit") /\ Tail(ToRead) = ToWrite("envelope")
  /\ \A file : ToWrite(file)[1] = Truncates(file) /\ Tail(ToWrite(file)) = ToFinish(file)
  /\ \A file : ToFinish(file)[1] = Fills(file) /\ Tail(ToFinish(file)) = ToReport
<1>1. \A a, b, c, d : <<a, b, c, d>>[1] = a /\ Tail(<<a, b, c, d>>) = <<b, c, d>>
  OBVIOUS
<1>2. \A b, c, d : <<b, c, d>>[1] = b /\ Tail(<<b, c, d>>) = <<c, d>>
  OBVIOUS
<1>3. \A c, d : <<c, d>>[1] = c /\ Tail(<<c, d>>) = <<d>>
  OBVIOUS
<1>4. \A d : <<d>>[1] = d
  OBVIOUS
<1> QED  BY <1>1, <1>2, <1>3, <1>4
  DEF ToAudit, ToDeny, ToSave, ToFill, ToReport, ToInit, ToBegin, ToReset, ToRead, ToWrite, ToFinish

(* What is left tells where a process is.                                  *)
LEMMA PlacesDiffer ==
  /\ ToReport \notin {ToAudit, ToDeny, ToSave, ToFill, ToInit, ToBegin, ToReset, ToRead}
  /\ ToSave \notin {ToAudit, ToDeny, ToFill} /\ ToFill \notin {ToAudit, ToDeny}
  /\ ToAudit # ToDeny
  /\ ToInit \notin {ToBegin, ToReset} /\ ToBegin # ToReset
  /\ \A file, other : /\ ToWrite(file) \notin {ToRead, ToReport}
                      /\ ToFinish(file) \notin {ToRead, ToReport, ToWrite(other)}
<1>1. \A file, other : /\ Reads(file) \notin {Truncates(other), Fills(other), Appends, Reports}
                       /\ Truncates(file) \notin {Fills(other), Appends, Reports}
                       /\ Fills(file) \notin {Appends, Reports}
  BY DEF Reads, Truncates, Fills, Appends, Reports
<1>2. Appends # Reports /\ Truncates("state") # Truncates("audit")
  BY DEF Appends, Reports, Truncates
<1>3. ToSave # ToReport
  BY <1>1, StepsTail
<1>4. /\ ToReport \notin {ToAudit, ToDeny, ToSave, ToFill, ToInit, ToBegin, ToReset, ToRead}
      /\ ToSave \notin {ToAudit, ToDeny, ToFill} /\ ToFill \notin {ToAudit, ToDeny}
  BY <1>1, <1>2, StepsTail
<1>5. ToAudit # ToDeny
  BY <1>3, StepsTail
<1>6. ToInit \notin {ToBegin, ToReset} /\ ToBegin # ToReset
  BY <1>1, <1>2, StepsTail
<1>7. ASSUME NEW file, NEW other
      PROVE  /\ ToWrite(file) \notin {ToRead, ToReport}
             /\ ToFinish(file) \notin {ToRead, ToReport, ToWrite(other)}
  BY <1>1, StepsTail
<1> QED  BY <1>4, <1>5, <1>6, <1>7

-----------------------------------------------------------------------------
(***************************************************************************)
(* What a step comes to                                                    *)
(***************************************************************************)

(* A process goes on, or is gone.                                          *)
Moves(p, left, holds) ==
  procs' = [q \in Invocations |->
              IF q = p THEN [ cmd |-> procs[p].cmd, steps |-> left, holds |-> holds,
                              auth |-> procs[p].auth, beside |-> procs[p].beside ]
              ELSE procs[q]]

Ends(p) == procs' = [q \in Invocations |-> IF q = p THEN Idle ELSE procs[q]]

Leaves(state, audit) ==
  /\ files' = [f \in Files |-> files'[f]]
  /\ files'.state = state
  /\ files'.audit = audit

(* All that a step of a process may come to.                               *)
Audits(p) ==
  /\ procs[p].cmd = "launch" /\ procs[p].steps \in {ToAudit, ToDeny}
  /\ Moves(p, IF procs[p].steps = ToAudit THEN ToSave ELSE ToReport, procs[p].holds)
  /\ Leaves(files.state, files.audit \o procs[p].holds.audit)
  /\ UNCHANGED <<printed, order>>

Opens(p) ==
  /\ procs[p].cmd = "launch" /\ procs[p].steps = ToSave
  /\ Moves(p, ToFill, procs[p].holds)
  /\ Leaves(Torn, files.audit)
  /\ UNCHANGED <<printed, order>>

Saves(p) ==
  /\ procs[p].cmd = "launch" /\ procs[p].steps = ToFill
  /\ Moves(p, ToReport, procs[p].holds)
  /\ Leaves(procs[p].holds.state, files.audit)
  /\ UNCHANGED <<printed, order>>

Says(p) ==
  /\ procs[p].cmd = "launch" /\ procs[p].steps = ToReport /\ procs[p].auth # Undefined
  /\ Ends(p)
  /\ Leaves(files.state, files.audit)
  /\ printed' = printed \cup {procs[p].auth}
  /\ UNCHANGED order

OpensAccount(p) ==
  /\ procs[p].cmd = "init" /\ procs[p].steps = ToInit
  /\ Moves(p, ToBegin, procs[p].holds)
  /\ Leaves(Torn, files.audit)
  /\ printed' = {}
  /\ UNCHANGED order

FillsAccount(p) ==
  /\ procs[p].cmd = "init" /\ procs[p].steps = ToBegin
  /\ Moves(p, ToReset, procs[p].holds)
  /\ Leaves(procs[p].holds.state, files.audit)
  /\ UNCHANGED <<printed, order>>

ResetsTrail(p) ==
  /\ procs[p].cmd = "init" /\ procs[p].steps = ToReset
  /\ Moves(p, ToReport, procs[p].holds)
  /\ Leaves(files.state, << >>)
  /\ printed' = {}
  /\ order' = IF NoWriterBeside(procs[p]) THEN "serial" ELSE order

BothRead(p) ==
  [f \in DOMAIN procs[p].holds \cup {"audit"} |->
     IF f = "audit" THEN files[f] ELSE procs[p].holds[f]]

ReadsTrail(p) ==
  /\ procs[p].cmd = "make-envelope" /\ procs[p].steps = ToRead
  /\ Moves(p, ToWrite("envelope"), BothRead(p))
  /\ Leaves(files.state, files.audit)
  /\ UNCHANGED <<printed, order>>

Proceeds(p) ==
  /\ procs[p].cmd \notin {"launch", "init"}
  /\ \/ \E file \in Files : Moves(p, ToFinish(file), procs[p].holds)
     \/ Moves(p, ToReport, procs[p].holds)
  /\ IsProcess(procs[p])'
  /\ Leaves(files.state, files.audit)
  /\ UNCHANGED <<printed, order>>

Quits(p) ==
  /\ procs[p].cmd = "init" => procs[p].steps # ToReset \/ order # "serial"
  /\ Ends(p)
  /\ Leaves(files.state, files.audit)
  /\ UNCHANGED <<printed, order>>

Breaks(p) ==
  /\ procs[p].cmd = "init" /\ procs[p].steps = ToReset /\ order = "serial"
  /\ Ends(p)
  /\ Leaves(files.state, files.audit)
  /\ order' = "cut"
  /\ UNCHANGED printed

(* A process that advances moves on.                                       *)
LEMMA AdvanceMoves ==
  ASSUME Shape, NEW p \in Running, NEW holds, Advance(p, holds)
  PROVE  Moves(p, Tail(procs[p].steps), holds)
<1> DEFINE P == procs[p]
<1>1. P = [cmd |-> P.cmd, steps |-> P.steps, holds |-> P.holds, auth |-> P.auth,
           beside |-> P.beside]
  BY DEF Shape, IsProcess
<1>2. procs = [q \in Invocations |-> procs[q]] /\ p \in Invocations
  BY DEF Shape, Running
<1> DEFINE N == [ cmd |-> P.cmd, steps |-> Tail(P.steps), holds |-> holds,
                  auth |-> P.auth, beside |-> P.beside ]
           more == [procs EXCEPT ![p].steps = Tail(@), ![p].holds = holds]
<1>3. more[p] = N
  BY <1>1, <1>2
<1>4. DOMAIN more = Invocations /\ \A q \in Invocations \ {p} : more[q] = procs[q]
  BY <1>2
<1>5. more = [q \in DOMAIN more |-> more[q]]
  OBVIOUS
<1>6. procs' = more
  BY Zenon DEF Advance
<1> HIDE DEF more, N
<1>7. procs' = [q \in Invocations |-> IF q = p THEN N ELSE procs[q]]
  BY <1>2, <1>3, <1>4, <1>5, <1>6
<1> QED  BY <1>7, Zenon DEF Moves, N

(* Who takes which step.                                                   *)
LEMMA WhoDoes ==
  ASSUME NEW P, IsProcess(P)
  PROVE  /\ P.cmd # "none"
         /\ P.steps[1].do = "read" =>
              P.cmd = "make-envelope" /\ P.steps = ToRead /\ P.steps[1].file = "audit"
         /\ P.steps[1].do = "append" => P.cmd = "launch" /\ P.steps \in {ToAudit, ToDeny}
         /\ P.steps[1].do = "truncate" =>
              \/ P.cmd = "launch" /\ P.steps = ToSave /\ P.steps[1].file = "state"
              \/ P.cmd = "init" /\ P.steps = ToInit /\ P.steps[1].file = "state"
              \/ P.cmd = "init" /\ P.steps = ToReset /\ P.steps[1].file = "audit"
              \/ /\ P.cmd \notin {"launch", "init"}
                 /\ \E file \in Elsewhere :
                      P.steps = ToWrite(file) /\ P.steps[1].file = file
         /\ P.steps[1].do = "fill" =>
              \/ P.cmd = "launch" /\ P.steps = ToFill /\ P.steps[1].file = "state"
              \/ P.cmd = "init" /\ P.steps = ToBegin /\ P.steps[1].file = "state"
              \/ /\ P.cmd \notin {"launch", "init"}
                 /\ \E file \in Elsewhere :
                      P.steps = ToFinish(file) /\ P.steps[1].file = file
         /\ P.steps[1].do = "report" => P.steps = ToReport
<1> DEFINE steps == P.steps
<1>1. \A file : /\ Reads(file).do = "read" /\ Reads(file).file = file
                /\ Truncates(file).do = "truncate" /\ Truncates(file).file = file
                /\ Fills(file).do = "fill" /\ Fills(file).file = file
  BY DEF Reads, Truncates, Fills
<1>2. Appends.do = "append" /\ Reports.do = "report"
  BY DEF Appends, Reports
<1>3. CASE IsLaunch(P)
  <2>1. steps \in {ToAudit, ToDeny, ToSave, ToFill, ToReport} /\ P.cmd = "launch"
    BY <1>3 DEF IsLaunch
  <2> QED  BY <1>1, <1>2, <2>1, StepsTail
<1>4. CASE IsInit(P)
  <2>1. steps \in {ToInit, ToBegin, ToReset, ToReport} /\ P.cmd = "init"
    BY <1>4 DEF IsInit
  <2> QED  BY <1>1, <1>2, <2>1, StepsTail
<1>5. CASE IsOther(P)
  <2>1. P.cmd \in {"dry-run", "auth create", "build", "make-envelope"}
    BY <1>5 DEF IsOther
  <2>2. \/ steps = ToRead /\ P.cmd = "make-envelope"
        \/ steps = ToReport
        \/ \E file \in Elsewhere : steps = ToWrite(file)
        \/ \E file \in Elsewhere : steps = ToFinish(file)
    BY <1>5 DEF IsOther
  <2>3. CASE steps = ToReport
    BY <1>2, <2>1, <2>3, StepsTail
  <2>8. CASE steps = ToRead /\ P.cmd = "make-envelope"
    BY <1>1, <2>8, StepsTail
  <2>4. ASSUME NEW file \in Elsewhere, steps = ToWrite(file)
        PROVE  steps[1] = Truncates(file)
    BY <2>4, StepsTail, Zenon
  <2>5. ASSUME NEW file \in Elsewhere, steps = ToFinish(file)
        PROVE  steps[1] = Fills(file)
    BY <2>5, StepsTail, Zenon
  <2>6. CASE \E file \in Elsewhere : steps = ToWrite(file)
    <3>1. PICK file \in Elsewhere : steps = ToWrite(file)
      BY <2>6
    <3>2. steps[1] = Truncates(file)
      BY <2>4, <3>1
    <3>3. steps[1].do = "truncate" /\ steps[1].file = file
      BY <1>1, <3>2
    <3> HIDE DEF steps
    <3> QED  BY <2>1, <3>1, <3>3 DEF steps
  <2>7. CASE \E file \in Elsewhere : steps = ToFinish(file)
    <3>1. PICK file \in Elsewhere : steps = ToFinish(file)
      BY <2>7
    <3>2. steps[1] = Fills(file)
      BY <2>5, <3>1
    <3>3. steps[1].do = "fill" /\ steps[1].file = file
      BY <1>1, <3>2
    <3> HIDE DEF steps
    <3> QED  BY <2>1, <3>1, <3>3 DEF steps
  <2> QED  BY <2>2, <2>3, <2>6, <2>7, <2>8
<1> QED  BY <1>3, <1>4, <1>5 DEF IsProcess

(* A file that is changed.                                                 *)
LEMMA FileChanges ==
  ASSUME Shape, NEW file \in Files, NEW content,
         files' = [files EXCEPT ![file] = content]
  PROVE  /\ files' = [f \in Files |-> files'[f]]
         /\ files'[file] = content
         /\ \A f \in Files \ {file} : files'[f] = files[f]
<1>1. files = [f \in Files |-> files[f]]
  BY DEF Shape
<1> QED  BY <1>1

LEMMA LeavesFiles ==
  ASSUME Shape, UNCHANGED files
  PROVE  Leaves(files.state, files.audit)
BY DEF Shape, Leaves

LEMMA EndIsEnd ==
  ASSUME Shape, NEW p, procs' = [procs EXCEPT ![p] = Idle]
  PROVE  Ends(p)
BY DEF Shape, Ends

(* Each step of the model is one of these.                                 *)
LEMMA ReadDoes ==
  ASSUME Shape, NEW p \in Running, Read(p)
  PROVE  ReadsTrail(p) \/ Quits(p)
<1> DEFINE P == procs[p]
<1>1. P.cmd = "make-envelope" /\ P.steps = ToRead /\ File(p) = "audit"
  BY WhoDoes DEF Shape, Read, Doing, File
<1>2. Leaves(files.state, files.audit) /\ UNCHANGED <<printed, order>>
  BY LeavesFiles DEF Read
<1>3. CASE Readable(files[File(p)])
  <2>1. Advance(p, BothRead(p))
    BY <1>1, <1>3, Zenon DEF Read, BothRead
  <2>2. Moves(p, ToWrite("envelope"), BothRead(p))
    BY <1>1, <2>1, AdvanceMoves, StepsTail
  <2> QED  BY <1>1, <1>2, <2>2, Zenon DEF ReadsTrail
<1>4. CASE ~Readable(files[File(p)])
  <2>1. Ends(p)
    BY <1>4, EndIsEnd DEF Read
  <2> QED  BY <1>1, <1>2, <2>1 DEF Quits
<1> QED  BY <1>3, <1>4

LEMMA AppendDoes ==
  ASSUME Shape, NEW p \in Running, AppendAuditEvents(p)
  PROVE  Audits(p)
<1> DEFINE P == procs[p]
<1>1. P.cmd = "launch" /\ P.steps \in {ToAudit, ToDeny}
  BY WhoDoes DEF Shape, AppendAuditEvents, Doing
<1>2. Moves(p, Tail(P.steps), P.holds)
  BY AdvanceMoves DEF AppendAuditEvents
<1>3. Tail(P.steps) = IF P.steps = ToAudit THEN ToSave ELSE ToReport
  BY <1>1, StepsTail
<1>4. files' = [files EXCEPT !["audit"] = files.audit \o P.holds.audit]
  BY DEF AppendAuditEvents
<1>5. Leaves(files.state, files.audit \o P.holds.audit)
  <2> DEFINE both == files.audit \o P.holds.audit
  <2> HIDE DEF both
  <2>1. "audit" \in Files /\ "state" \in Files \ {"audit"}
    BY DEF Files
  <2>2. files' = [files EXCEPT !["audit"] = both]
    BY <1>4 DEF both
  <2>3. Leaves(files.state, both)
    BY <2>1, <2>2, FileChanges DEF Leaves
  <2> QED  BY <2>3 DEF both
<1> QED  BY <1>1, <1>2, <1>3, <1>5 DEF Audits, AppendAuditEvents

LEMMA ExitDoes ==
  ASSUME Shape, NEW p \in Running, Exit(p)
  PROVE  Says(p) \/ Quits(p)
<1>1. procs[p].steps = ToReport
  BY WhoDoes DEF Shape, Exit, Doing
<1>2. Ends(p) /\ Leaves(files.state, files.audit) /\ UNCHANGED order
  BY EndIsEnd, LeavesFiles DEF Exit
<1> QED  BY <1>1, <1>2, PlacesDiffer DEF Exit, Says, Quits

LEMMA KillDoes ==
  ASSUME Shape, NEW p \in Running, Kill(p)
  PROVE  Breaks(p) \/ Quits(p)
<1>1. Ends(p) /\ Leaves(files.state, files.audit) /\ UNCHANGED printed
  BY EndIsEnd, LeavesFiles DEF Kill
<1>2. IsProcess(procs[p])
  BY DEF Shape
<1>3. Doing(p, "truncate") /\ File(p) = "audit" =>
        procs[p].cmd = "init" /\ procs[p].steps = ToReset
  BY <1>2, WhoDoes DEF Doing, File, Elsewhere
<1>4. procs[p].steps = ToReset => Doing(p, "truncate") /\ File(p) = "audit"
  BY StepsTail DEF Doing, File, Running, Truncates
<1>5. CASE order = "serial" /\ Doing(p, "truncate") /\ File(p) = "audit"
  BY <1>1, <1>3, <1>5 DEF Kill, Breaks
<1>6. CASE ~(order = "serial" /\ Doing(p, "truncate") /\ File(p) = "audit")
  BY <1>1, <1>4, <1>6 DEF Kill, Quits
<1> QED  BY <1>5, <1>6

(* One that writes elsewhere goes on.                                      *)
LEMMA OtherGoesOn ==
  ASSUME Shape, NEW p \in Running, procs[p].cmd \notin {"launch", "init"},
         NEW left, left \in {ToReport} \cup {ToFinish(file) : file \in Elsewhere},
         left # ToRead, procs[p].cmd = "make-envelope" => left \in {ToFinish("envelope"), ToReport},
         Moves(p, left, procs[p].holds), Leaves(files.state, files.audit), UNCHANGED <<printed, order>>
  PROVE  Proceeds(p)
<1> DEFINE P == procs[p]
           N == [cmd |-> P.cmd, steps |-> left, holds |-> P.holds, auth |-> P.auth,
                 beside |-> P.beside]
<1>1. procs'[p] = N
  BY DEF Moves, Running
<1>2. P.cmd \in {"dry-run", "auth create", "build", "make-envelope"}
  BY DEF Shape, IsProcess, IsLaunch, IsInit, IsOther
<1>3. IsOther(N)
  BY <1>2 DEF IsOther
<1>4. IsProcess(N)
  <2>1. N = [cmd |-> N.cmd, steps |-> N.steps, holds |-> N.holds, auth |-> N.auth,
             beside |-> N.beside]
    OBVIOUS
  <2> HIDE DEF N
  <2> QED  BY <1>3, <2>1 DEF IsProcess
<1>5. IsProcess(procs[p])'
  BY <1>1, <1>4, Zenon DEF IsProcess, IsOther, IsLaunch, IsInit, IsTrail, Accounts
<1>6. (\E file \in Files : Moves(p, ToFinish(file), P.holds)) \/ Moves(p, ToReport, P.holds)
  BY DEF Files, Elsewhere
<1> QED  BY <1>5, <1>6 DEF Proceeds

LEMMA TruncateDoes ==
  ASSUME Shape, NEW p \in Running, Truncate(p)
  PROVE  Opens(p) \/ OpensAccount(p) \/ ResetsTrail(p) \/ Proceeds(p)
<1> DEFINE P == procs[p]
           content == IF File(p) = "audit" THEN << >> ELSE Torn
<1>1. Moves(p, Tail(P.steps), P.holds)
  BY AdvanceMoves DEF Truncate
<1>2. files' = [files EXCEPT ![File(p)] = content]
  BY DEF Truncate
<1>3. /\ printed' = IF P.cmd = "init" THEN {} ELSE printed
      /\ order' = IF File(p) = "audit" /\ NoWriterBeside(P) THEN "serial" ELSE order
  BY Zenon DEF Truncate, NoWriterBeside
<1>4. /\ P.steps[1].do = "truncate" /\ IsProcess(P) /\ P.steps[1].file = File(p)
  BY DEF Truncate, Doing, Shape, File
<1> HIDE DEF content
<1>5. CASE P.cmd = "launch" /\ P.steps = ToSave /\ File(p) = "state"
  <2>1. Leaves(Torn, files.audit)
    BY <1>2, <1>5, FileChanges DEF content, Leaves, Files
  <2> QED  BY <1>1, <1>3, <1>5, <2>1, StepsTail DEF Opens
<1>6. CASE P.cmd = "init" /\ P.steps = ToInit /\ File(p) = "state"
  <2>1. Leaves(Torn, files.audit)
    BY <1>2, <1>6, FileChanges DEF content, Leaves, Files
  <2> QED  BY <1>1, <1>3, <1>6, <2>1, StepsTail DEF OpensAccount
<1>7. CASE P.cmd = "init" /\ P.steps = ToReset /\ File(p) = "audit"
  <2>1. Leaves(files.state, << >>)
    BY <1>2, <1>7, FileChanges DEF content, Leaves, Files
  <2> QED  BY <1>1, <1>3, <1>7, <2>1, StepsTail DEF ResetsTrail
<1>8. CASE /\ P.cmd \notin {"launch", "init"}
           /\ \E file \in Elsewhere : P.steps = ToWrite(file) /\ File(p) = file
  <2>1. PICK file \in Elsewhere : P.steps = ToWrite(file) /\ File(p) = file
    BY <1>8
  <2>2. Leaves(files.state, files.audit)
    BY <1>2, <2>1, FileChanges DEF Leaves, Files, Elsewhere
  <2>3. Moves(p, ToFinish(file), P.holds)
    BY <1>1, <2>1, StepsTail
  <2>4. UNCHANGED <<printed, order>>
    BY <1>3, <1>8, <2>1 DEF Elsewhere
  <2>5. P.cmd = "make-envelope" => ToFinish(file) = ToFinish("envelope")
    <3>1. SUFFICES ASSUME P.cmd = "make-envelope"
                   PROVE  ToFinish(file) = ToFinish("envelope")
      OBVIOUS
    <3>2. P.steps \in {ToRead, ToWrite("envelope"), ToFinish("envelope"), ToReport}
      BY <1>4, <3>1 DEF IsProcess, IsLaunch, IsInit, IsOther
    <3>3. ToWrite(file) = ToWrite("envelope")
      BY <2>1, <3>2, PlacesDiffer
    <3> QED  BY <3>3, StepsTail
  <2> QED  BY <1>8, <2>2, <2>3, <2>4, <2>5, OtherGoesOn, PlacesDiffer
<1> QED  BY <1>4, <1>5, <1>6, <1>7, <1>8, WhoDoes

LEMMA FillDoes ==
  ASSUME Shape, NEW p \in Running, Fill(p)
  PROVE  Saves(p) \/ FillsAccount(p) \/ Proceeds(p)
<1> DEFINE P == procs[p]
           content == IF File(p) = "envelope" THEN EnvelopeOf(P.holds.state, P.holds.audit)
                      ELSE P.holds[File(p)]
<1>1. Moves(p, Tail(P.steps), P.holds)
  BY AdvanceMoves DEF Fill
<1>2. files' = [files EXCEPT ![File(p)] = content]
  BY DEF Fill
<1>3. UNCHANGED <<printed, order>>
  BY DEF Fill
<1>4. /\ P.steps[1].do = "fill" /\ IsProcess(P) /\ P.steps[1].file = File(p)
  BY DEF Fill, Doing, Shape, File
<1> HIDE DEF content
<1>5. ASSUME File(p) = "state"
      PROVE  Leaves(P.holds.state, files.audit)
  <2>1. content = P.holds.state
    BY <1>5 DEF content
  <2> QED  BY <1>2, <1>5, <2>1, FileChanges DEF Leaves, Files
<1>6. CASE P.cmd = "launch" /\ P.steps = ToFill /\ File(p) = "state"
  BY <1>1, <1>3, <1>5, <1>6, StepsTail DEF Saves
<1>7. CASE P.cmd = "init" /\ P.steps = ToBegin /\ File(p) = "state"
  BY <1>1, <1>3, <1>5, <1>7, StepsTail DEF FillsAccount
<1>8. CASE /\ P.cmd \notin {"launch", "init"}
           /\ \E file \in Elsewhere : P.steps = ToFinish(file) /\ File(p) = file
  <2>1. PICK file \in Elsewhere : P.steps = ToFinish(file) /\ File(p) = file
    BY <1>8
  <2>2. Leaves(files.state, files.audit)
    BY <1>2, <2>1, FileChanges DEF Leaves, Files, Elsewhere
  <2>3. Moves(p, ToReport, P.holds)
    BY <1>1, <2>1, StepsTail
  <2>4. ToReport # ToRead
    BY PlacesDiffer
  <2> QED  BY <1>3, <1>8, <2>2, <2>3, <2>4, OtherGoesOn
<1> QED  BY <1>4, <1>6, <1>7, <1>8, WhoDoes

-----------------------------------------------------------------------------
(***************************************************************************)
(* What a step leaves alone                                                *)
(***************************************************************************)

(* As p goes on, it changes, and nobody else.                              *)
LEMMA MovesKeeps ==
  ASSUME Shape, NEW p \in Running, NEW left, NEW holds, Moves(p, left, holds)
  PROVE  /\ Running' = Running
         /\ procs' = [q \in Invocations |-> procs'[q]]
         /\ procs'[p] = [ cmd |-> procs[p].cmd, steps |-> left, holds |-> holds,
                          auth |-> procs[p].auth, beside |-> procs[p].beside ]
         /\ \A q \in Running \ {p} : procs'[q] = procs[q]
         /\ \A q \in Running :
              procs'[q].cmd = procs[q].cmd /\ procs'[q].beside = procs[q].beside
<1> DEFINE P == procs[p]
           N == [cmd |-> P.cmd, steps |-> left, holds |-> holds, auth |-> P.auth, beside |-> P.beside]
<1>1. P.cmd # "none"
  BY WhoDoes DEF Shape
<1>2. N.cmd = P.cmd /\ N.beside = P.beside
  OBVIOUS
<1>3. N # Idle
  BY <1>1, <1>2 DEF Idle
<1>4. procs' = [q \in Invocations |-> IF q = p THEN N ELSE procs[q]]
  BY DEF Moves
<1>5. P # Idle /\ p \in Invocations /\ Running \subseteq Invocations
  BY DEF Running
<1> HIDE DEF N
<1>6. Running' = Running
  BY <1>3, <1>4, <1>5 DEF Running
<1>7. procs'[p] = N /\ \A q \in Running \ {p} : procs'[q] = procs[q]
  BY <1>4, <1>5
<1>8. \A q \in Running : procs'[q].cmd = procs[q].cmd /\ procs'[q].beside = procs[q].beside
  BY <1>2, <1>7
<1>9. procs' = [q \in Invocations |-> procs'[q]]
  BY <1>4
<1> QED  BY <1>6, <1>7, <1>8, <1>9 DEF N

LEMMA EndsKeeps ==
  ASSUME Shape, NEW p \in Running, Ends(p)
  PROVE  /\ Running' = Running \ {p}
         /\ procs' = [q \in Invocations |-> procs'[q]]
         /\ \A q \in Running' : procs'[q] = procs[q]
BY DEF Ends, Running

(* What a step of one process leaves of the order, if it empties no trail. *)
OrderStays == order' = order \/ (order = "serial" /\ order' = "cut")

(* Who runs beside whom does not change as a process goes on or is gone.   *)
LEMMA ApartStays ==
  ASSUME Apart, Running' \subseteq Running,
         \A q \in Running' : procs'[q].cmd = procs[q].cmd /\ procs'[q].beside = procs[q].beside,
         OrderStays
  PROVE  Apart'
<1>1. \A p, q \in Running' : p # q => procs'[q].cmd \in procs'[p].beside
  BY DEF Apart, OneByOne
<1>2. /\ order' # "disturbed" => order # "disturbed"
      /\ OneByOne' => OneByOne
  BY DEF OrderStays, OneByOne
<1>3. order' # "disturbed" =>
        \A p \in Running' : procs'[p].cmd = "init" => ~\E cmd \in procs'[p].beside : Writes(cmd)
  BY <1>2 DEF Apart, NoWriterBeside, OneByOne
<1>4. OneByOne' =>
       \A p, q \in Running' : procs'[p].cmd = "launch" /\ procs'[q].cmd = "launch" => p = q
  BY <1>2 DEF Apart, OneByOne
<1> QED  BY <1>1, <1>3, <1>4 DEF Apart, NoWriterBeside, Writes, OneByOne

(* What a process may rely on while others take steps.                     *)
LEMMA BooksStay ==
  ASSUME NEW q, Running' \subseteq Running, q \in Running', procs'[q] = procs[q], Books,
         OrderStays,
         order # "disturbed" => Audited(files.audit) \subseteq Audited(files'.audit),
         procs[q].cmd = "launch" /\ OneByOne =>
           /\ printed' \subseteq printed
           /\ Readable(files'.state) => files'.state = files.state /\ Readable(files.state),
         procs[q].cmd = "init" /\ NoWriterBeside(procs[q]) =>
           printed' \subseteq printed /\ files'.state = files.state
  PROVE  /\ procs'[q].cmd = "launch" => Carries(procs[q])'
         /\ procs'[q].cmd = "init" => Begins(procs[q])'
         /\ procs'[q].cmd = "make-envelope" => Gathers(procs[q])'
<1>1. /\ q \in Running
      /\ order' # "disturbed" => order # "disturbed"
      /\ OneByOne' => OneByOne
  BY DEF OrderStays, OneByOne
<1>2. /\ procs[q].cmd = "launch" => Carries(procs[q])
      /\ procs[q].cmd = "init" => Begins(procs[q])
      /\ procs[q].cmd = "make-envelope" => Gathers(procs[q])
  BY <1>1 DEF Books
<1>3. procs'[q].cmd = "launch" => Carries(procs[q])'
  <2> SUFFICES ASSUME procs[q].cmd = "launch", order' # "disturbed",
                      procs[q].steps \in {ToAudit, ToSave, ToFill} \/ procs[q].auth # Undefined
               PROVE  /\ Charged(procs[q].holds.state) \subseteq Audited(files'.audit) \cup Unsaid(procs[q])
                      /\ procs[q].auth \in Charged(procs[q].holds.state)
                      /\ OneByOne' =>
                           /\ printed' \subseteq Charged(procs[q].holds.state)
                           /\ procs[q].steps = ToReport /\ Readable(files'.state) =>
                                files'.state = procs[q].holds.state
    BY DEF Carries, Unsaid, Charged, Audited, AuthKey, Readable, ToAudit, ToSave, ToFill,
      ToReport, OneByOne
  <2> QED  BY <1>1, <1>2 DEF Carries, OneByOne
<1>4. procs'[q].cmd = "init" => Begins(procs[q])'
  BY <1>2 DEF Begins, NoWriterBeside
<1>5. procs'[q].cmd = "make-envelope" => Gathers(procs[q])'
  <2> SUFFICES ASSUME procs[q].cmd = "make-envelope", order' # "disturbed",
                      "init" \notin procs[q].beside
               PROVE  /\ procs[q].steps = ToRead =>
                           Charged(procs[q].holds.state) \subseteq Audited(files'.audit)
                      /\ procs[q].steps = ToWrite("envelope") =>
                           Charged(procs[q].holds.state) \subseteq Audited(procs[q].holds.audit)
    BY DEF Gathers, Charged, Audited, AuthKey, ToRead, ToWrite
  <2> QED  BY <1>1, <1>2 DEF Gathers
<1> QED  BY <1>3, <1>4, <1>5

(* The shape of things after a step.                                       *)
LEMMA ShapeStays ==
  ASSUME Shape, NEW p \in Running,
         \/ Ends(p)
         \/ \E left, holds : /\ Moves(p, left, holds)
                             /\ IsProcess([ cmd |-> procs[p].cmd, steps |-> left, holds |-> holds,
                                            auth |-> procs[p].auth, beside |-> procs[p].beside ]),
         NEW state, NEW audit, Leaves(state, audit), IsTrail(audit),
         Readable(state) => Accounts(state),
         order' \in {order, "serial", "cut", "disturbed"}
  PROVE  Shape'
<1>1. /\ files' = [f \in Files |-> files'[f]]
      /\ IsTrail(files'.audit)
      /\ Readable(files'.state) => Accounts(files'.state)
  BY DEF Leaves
<1>2. order' \in {"serial", "cut", "shared", "disturbed"}
  BY DEF Shape
<1>3. procs' = [q \in Invocations |-> procs'[q]] /\ \A q \in Running' : IsProcess(procs'[q])
  <2>1. CASE Ends(p)
    BY <2>1, EndsKeeps DEF Shape
  <2>2. CASE \E left, holds :
               /\ Moves(p, left, holds)
               /\ IsProcess([ cmd |-> procs[p].cmd, steps |-> left, holds |-> holds,
                              auth |-> procs[p].auth, beside |-> procs[p].beside ])
    <3>1. PICK left, holds :
            /\ Moves(p, left, holds)
            /\ IsProcess([ cmd |-> procs[p].cmd, steps |-> left, holds |-> holds,
                           auth |-> procs[p].auth, beside |-> procs[p].beside ])
      BY <2>2
    <3> DEFINE N == [ cmd |-> procs[p].cmd, steps |-> left, holds |-> holds,
                      auth |-> procs[p].auth, beside |-> procs[p].beside ]
    <3>2. /\ Running' = Running
          /\ procs' = [q \in Invocations |-> procs'[q]]
          /\ procs'[p] = N
          /\ \A q \in Running \ {p} : procs'[q] = procs[q]
      BY <3>1, MovesKeeps
    <3>3. IsProcess(N)
      BY <3>1
    <3> HIDE DEF N
    <3> QED  BY <3>2, <3>3 DEF Shape
  <2> QED  BY <2>1, <2>2
<1>4. \A q \in Running' : IsProcess(procs[q])'
  BY <1>3 DEF IsProcess, IsLaunch, IsInit, IsOther, IsTrail, Accounts, FreshStates, Elsewhere
<1> QED  BY <1>1, <1>2, <1>3, <1>4 DEF Shape, IsTrail, Accounts, Readable

(* What is said of a state and a trail that a step leaves.                 *)
Balanced(state, audit, shown, how) ==
  how # "disturbed" =>
    /\ shown \subseteq Audited(audit)
    /\ Readable(state) => /\ how \in {"serial", "cut"} => shown \subseteq Charged(state)
                          /\ Charged(state) \subseteq Audited(audit)

(* That is the property, now and after a step.                             *)
LEMMA BalanceNow == PrintedIsChargedIsAudited <=> Balanced(files.state, files.audit, printed, order)
BY DEF PrintedIsChargedIsAudited, Balanced, OneByOne

LEMMA BalanceNext ==
  ASSUME NEW state, NEW audit, Leaves(state, audit), Balanced(state, audit, printed', order')
  PROVE  PrintedIsChargedIsAudited'
BY DEF PrintedIsChargedIsAudited, Balanced, Leaves, Audited, Charged, Readable, AuthKey, OneByOne

(* After a step of p that goes on: what is to be shown of p itself.        *)
LEMMA InvMoves ==
  ASSUME Inv, NEW p \in Running, NEW left, NEW holds, Moves(p, left, holds),
         NEW N, N = [ cmd |-> procs[p].cmd, steps |-> left, holds |-> holds,
                      auth |-> procs[p].auth, beside |-> procs[p].beside ],
         IsProcess(N),
         NEW state, NEW audit, Leaves(state, audit), IsTrail(audit),
         Readable(state) => Accounts(state),
         order' = order,
         order # "disturbed" => Audited(files.audit) \subseteq Audited(audit),
         procs[p].cmd \notin {"launch", "init"} => printed' = printed /\ state = files.state,
         procs[p].cmd = "launch" => printed' = printed,
         procs[p].cmd = "launch" => Carries(N)',
         procs[p].cmd = "init" => Begins(N)',
         procs[p].cmd = "make-envelope" => Gathers(N)',
         Balanced(state, audit, printed', order)
  PROVE  Inv'
<1>1. /\ Running' = Running
      /\ procs' = [q \in Invocations |-> procs'[q]]
      /\ procs'[p] = N
      /\ \A q \in Running \ {p} : procs'[q] = procs[q]
      /\ \A q \in Running :
              procs'[q].cmd = procs[q].cmd /\ procs'[q].beside = procs[q].beside
  BY MovesKeeps DEF Inv
<1>2. Shape'
  BY ShapeStays DEF Inv
<1>3. Apart'
  BY <1>1, ApartStays DEF Inv, OrderStays
<1>4. Books'
  <2>1. ASSUME NEW q \in Running, q # p
        PROVE  /\ procs'[q].cmd = "launch" => Carries(procs[q])'
               /\ procs'[q].cmd = "init" => Begins(procs[q])'
               /\ procs'[q].cmd = "make-envelope" => Gathers(procs[q])'
    <3>1. procs[p].cmd \in procs[q].beside /\ procs[q].cmd \in procs[p].beside
      BY <2>1 DEF Inv, Apart, OneByOne
    <3>2. files'.state = state /\ files'.audit = audit
      BY DEF Leaves
    <3>3. procs[q].cmd = "launch" /\ OneByOne =>
            printed' = printed /\ state = files.state
      <4>1. CASE procs[p].cmd = "launch"
        BY <2>1, <4>1 DEF Inv, Apart, OneByOne
      <4>2. CASE procs[p].cmd = "init"
        BY <3>1, <4>2 DEF Inv, Apart, NoWriterBeside, Writes, OneByOne
      <4> QED  BY <4>1, <4>2
    <3>4. procs[q].cmd = "init" /\ NoWriterBeside(procs[q]) =>
            printed' = printed /\ state = files.state
      BY <3>1 DEF NoWriterBeside, Writes
    <3>5. Running' \subseteq Running /\ q \in Running' /\ procs'[q] = procs[q] /\ Books
      BY <1>1, <2>1 DEF Inv
    <3> QED  BY <3>2, <3>3, <3>4, <3>5, BooksStay DEF OrderStays
  <2>2. /\ procs'[p].cmd = "launch" => Carries(procs[p])'
        /\ procs'[p].cmd = "init" => Begins(procs[p])'
        /\ procs'[p].cmd = "make-envelope" => Gathers(procs[p])'
    <3>1. procs'[p] = N' /\ N'.cmd = procs[p].cmd
      BY <1>1
    <3> QED  BY <3>1 DEF Carries, Begins, Gathers, Unsaid, NoWriterBeside, OneByOne
  <2> QED  BY <1>1, <2>1, <2>2 DEF Books
<1>5. PrintedIsChargedIsAudited'
  BY BalanceNext
<1> QED  BY <1>2, <1>3, <1>4, <1>5 DEF Inv

-----------------------------------------------------------------------------
(***************************************************************************)
(* Every step keeps the invariant                                          *)
(***************************************************************************)

(* The events of a decision are appended.                                  *)
LEMMA AuditsKeeps ==
  ASSUME Inv, NEW p \in Running, Audits(p)
  PROVE  Inv'
<1>1. PICK P : P = procs[p]
  OBVIOUS
<1>2. PICK left : left = IF P.steps = ToAudit THEN ToSave ELSE ToReport
  OBVIOUS
<1>3. PICK audit : audit = files.audit \o P.holds.audit
  OBVIOUS
<1>4. PICK N : N = [cmd |-> P.cmd, steps |-> left, holds |-> P.holds, auth |-> P.auth,
                    beside |-> P.beside]
  OBVIOUS
<1>5. /\ P.cmd = "launch" /\ P.steps \in {ToAudit, ToDeny}
      /\ Moves(p, left, P.holds) /\ Leaves(files.state, audit)
      /\ UNCHANGED <<printed, order>>
  BY <1>1, <1>2, <1>3, Zenon DEF Audits
<1>6. IsLaunch(P) /\ Shape
  BY <1>1, <1>5 DEF Inv, Shape, IsProcess, IsInit, IsOther
<1>7. IsTrail(files.audit) /\ IsTrail(P.holds.audit)
  BY <1>5, <1>6 DEF Shape, IsLaunch
<1>8. IsTrail(audit) /\ Audited(audit) = Audited(files.audit) \cup Audited(P.holds.audit)
  BY <1>3, <1>7, TrailsJoin, JoinAudits
<1>9. N.cmd = P.cmd /\ N.steps = left /\ N.holds = P.holds /\ N.auth = P.auth /\ N.beside = P.beside
  BY <1>4
<1>10. IsProcess(N)
  <2>1. left \in {ToSave, ToReport} /\ (left = ToSave => P.steps = ToAudit)
    BY <1>2, PlacesDiffer
  <2>2. IsLaunch(N)
    BY <1>5, <1>6, <1>9, <2>1, PlacesDiffer DEF IsLaunch
  <2>3. N = [cmd |-> N.cmd, steps |-> N.steps, holds |-> N.holds, auth |-> N.auth,
             beside |-> N.beside]
    BY <1>4
  <2> QED  BY <2>2, <2>3 DEF IsProcess
<1>11. Carries(P)
  BY <1>1, <1>5 DEF Inv, Books
<1>12. Carries(N)'
  <2> SUFFICES ASSUME order' # "disturbed",
                      N.steps \in {ToAudit, ToSave, ToFill} \/ N.auth # Undefined
               PROVE  /\ Charged(N.holds.state) \subseteq Audited(files'.audit) \cup Unsaid(N)
                      /\ N.auth \in Charged(N.holds.state)
                      /\ OneByOne' =>
                           /\ printed' \subseteq Charged(N.holds.state)
                           /\ N.steps = ToReport /\ Readable(files'.state) =>
                                files'.state = N.holds.state
    BY DEF Carries, Unsaid, Charged, Audited, AuthKey, Readable, ToAudit, ToSave, ToFill,
      ToReport, OneByOne
  <2>1. P.steps = ToAudit /\ left = ToSave
    BY <1>2, <1>5, <1>6, <1>9, PlacesDiffer DEF IsLaunch
  <2>2. files'.audit = audit
    BY <1>5 DEF Leaves
  <2>3. order = order' /\ printed' = printed
    BY <1>5
  <2>4. /\ Charged(P.holds.state) \subseteq Audited(files.audit) \cup Audited(P.holds.audit)
        /\ P.auth \in Charged(P.holds.state)
        /\ OneByOne => printed \subseteq Charged(P.holds.state)
    BY <1>11, <2>1, <2>3 DEF Carries, Unsaid, OneByOne
  <2> QED  BY <1>8, <1>9, <2>1, <2>2, <2>3, <2>4, PlacesDiffer DEF OneByOne
<1>13. Balanced(files.state, audit, printed', order)
  BY <1>5, <1>8, BalanceNow DEF Inv, Balanced, OneByOne
<1>14. Readable(files.state) => Accounts(files.state)
  BY <1>6 DEF Shape
<1>15. Audited(files.audit) \subseteq Audited(audit)
  BY <1>8
<1> QED  BY <1>1, <1>4, <1>5, <1>8, <1>10, <1>12, <1>13, <1>14, <1>15, InvMoves

(* launch opens the state file to write it,                                *)
LEMMA OpensKeeps ==
  ASSUME Inv, NEW p \in Running, Opens(p)
  PROVE  Inv'
<1>1. PICK P : P = procs[p]
  OBVIOUS
<1>2. PICK N : N = [cmd |-> P.cmd, steps |-> ToFill, holds |-> P.holds, auth |-> P.auth,
                    beside |-> P.beside]
  OBVIOUS
<1>3. /\ P.cmd = "launch" /\ P.steps = ToSave
      /\ Moves(p, ToFill, P.holds) /\ Leaves(Torn, files.audit)
      /\ UNCHANGED <<printed, order>>
  BY <1>1, Zenon DEF Opens
<1>4. IsLaunch(P) /\ Shape
  BY <1>1, <1>3 DEF Inv, Shape, IsProcess, IsInit, IsOther
<1>5. N.cmd = P.cmd /\ N.steps = ToFill /\ N.holds = P.holds /\ N.auth = P.auth /\ N.beside = P.beside
  BY <1>2
<1>6. IsProcess(N)
  <2>1. IsLaunch(N)
    BY <1>3, <1>4, <1>5, PlacesDiffer DEF IsLaunch
  <2>2. N = [cmd |-> N.cmd, steps |-> N.steps, holds |-> N.holds, auth |-> N.auth,
             beside |-> N.beside]
    BY <1>2
  <2> QED  BY <2>1, <2>2 DEF IsProcess
<1>7. Carries(P)
  BY <1>1, <1>3 DEF Inv, Books
<1>8. Carries(N)'
  <2> SUFFICES ASSUME order' # "disturbed"
               PROVE  /\ Charged(N.holds.state) \subseteq Audited(files'.audit) \cup Unsaid(N)
                      /\ N.auth \in Charged(N.holds.state)
                      /\ OneByOne' => printed' \subseteq Charged(N.holds.state)
    BY <1>5, PlacesDiffer
       DEF Carries, Unsaid, Charged, Audited, AuthKey, Readable, ToAudit, ToSave, ToFill, ToReport, OneByOne
  <2>1. files'.audit = files.audit /\ order' = order /\ printed' = printed
    BY <1>3 DEF Leaves
  <2>2. /\ Charged(P.holds.state) \subseteq Audited(files.audit)
        /\ P.auth \in Charged(P.holds.state)
        /\ OneByOne => printed \subseteq Charged(P.holds.state)
    BY <1>3, <1>7, <2>1, PlacesDiffer DEF Carries, Unsaid, OneByOne
  <2> QED  BY <1>5, <2>1, <2>2 DEF OneByOne
<1>9. ~Readable(Torn)
  BY DEF Readable
<1>10. Balanced(Torn, files.audit, printed', order)
  BY <1>3, <1>9, BalanceNow DEF Inv, Balanced, OneByOne
<1>11. IsTrail(files.audit)
  BY <1>4 DEF Shape
<1> QED  BY <1>1, <1>2, <1>3, <1>6, <1>8, <1>9, <1>10, <1>11, InvMoves

(* and fills it with the state that it decided on.                         *)
LEMMA SavesKeeps ==
  ASSUME Inv, NEW p \in Running, Saves(p)
  PROVE  Inv'
<1>1. PICK P : P = procs[p]
  OBVIOUS
<1>2. PICK N : N = [cmd |-> P.cmd, steps |-> ToReport, holds |-> P.holds, auth |-> P.auth,
                    beside |-> P.beside]
  OBVIOUS
<1>3. /\ P.cmd = "launch" /\ P.steps = ToFill
      /\ Moves(p, ToReport, P.holds) /\ Leaves(P.holds.state, files.audit)
      /\ UNCHANGED <<printed, order>>
  BY <1>1, Zenon DEF Saves
<1>4. IsLaunch(P) /\ Shape
  BY <1>1, <1>3 DEF Inv, Shape, IsProcess, IsInit, IsOther
<1>5. N.cmd = P.cmd /\ N.steps = ToReport /\ N.holds = P.holds /\ N.auth = P.auth /\ N.beside = P.beside
  BY <1>2
<1>6. IsProcess(N)
  <2>1. IsLaunch(N)
    BY <1>3, <1>4, <1>5, PlacesDiffer DEF IsLaunch
  <2>2. N = [cmd |-> N.cmd, steps |-> N.steps, holds |-> N.holds, auth |-> N.auth,
             beside |-> N.beside]
    BY <1>2
  <2> QED  BY <2>1, <2>2 DEF IsProcess
<1>7. Carries(P)
  BY <1>1, <1>3 DEF Inv, Books
<1>8. order # "disturbed" =>
        /\ Charged(P.holds.state) \subseteq Audited(files.audit)
        /\ P.auth \in Charged(P.holds.state)
        /\ OneByOne => printed \subseteq Charged(P.holds.state)
  BY <1>3, <1>7, PlacesDiffer DEF Carries, Unsaid, OneByOne
<1>9. files'.audit = files.audit /\ order' = order /\ printed' = printed
      /\ files'.state = P.holds.state
  BY <1>3 DEF Leaves
<1>10. Carries(N)'
  <2> SUFFICES ASSUME order' # "disturbed"
               PROVE  /\ Charged(N.holds.state) \subseteq Audited(files'.audit) \cup Unsaid(N)
                      /\ N.auth \in Charged(N.holds.state)
                      /\ OneByOne' => /\ printed' \subseteq Charged(N.holds.state)
                                              /\ files'.state = N.holds.state
    BY DEF Carries, Unsaid, Charged, Audited, AuthKey, Readable, ToAudit, ToSave, ToFill,
      ToReport, OneByOne
  <2> QED  BY <1>5, <1>8, <1>9 DEF OneByOne
<1>11. Balanced(P.holds.state, files.audit, printed', order)
  BY <1>3, <1>8, BalanceNow DEF Inv, Balanced, OneByOne
<1>12. IsTrail(files.audit) /\ Accounts(P.holds.state)
  BY <1>3, <1>4 DEF Shape, IsLaunch
<1>13. PICK state : state = P.holds.state
  OBVIOUS
<1> QED  BY <1>1, <1>2, <1>3, <1>6, <1>10, <1>11, <1>12, <1>13, InvMoves

(* init opens the state file, which ends the account,                      *)
LEMMA OpensAccountKeeps ==
  ASSUME Inv, NEW p \in Running, OpensAccount(p)
  PROVE  Inv'
<1>1. PICK P : P = procs[p]
  OBVIOUS
<1>2. PICK N : N = [cmd |-> P.cmd, steps |-> ToBegin, holds |-> P.holds, auth |-> P.auth,
                    beside |-> P.beside]
  OBVIOUS
<1>3. /\ P.cmd = "init" /\ P.steps = ToInit
      /\ Moves(p, ToBegin, P.holds) /\ Leaves(Torn, files.audit)
      /\ printed' = {} /\ order' = order
  BY <1>1, Zenon DEF OpensAccount
<1>4. IsInit(P) /\ Shape
  BY <1>1, <1>3 DEF Inv, Shape, IsProcess, IsLaunch, IsOther
<1>5. N.cmd = P.cmd /\ N.steps = ToBegin /\ N.holds = P.holds /\ N.auth = P.auth /\ N.beside = P.beside
  BY <1>2
<1>6. IsProcess(N)
  <2>1. IsInit(N)
    BY <1>3, <1>4, <1>5 DEF IsInit
  <2>2. N = [cmd |-> N.cmd, steps |-> N.steps, holds |-> N.holds, auth |-> N.auth,
             beside |-> N.beside]
    BY <1>2
  <2> QED  BY <2>1, <2>2 DEF IsProcess
<1>7. Begins(N)'
  BY <1>3, <1>5, PlacesDiffer DEF Begins, NoWriterBeside, ToBegin, ToReset
<1>8. ~Readable(Torn)
  BY DEF Readable
<1>9. Balanced(Torn, files.audit, printed', order)
  BY <1>3, <1>8 DEF Balanced, OneByOne
<1>10. IsTrail(files.audit)
  BY <1>4 DEF Shape
<1> QED  BY <1>1, <1>2, <1>3, <1>6, <1>7, <1>8, <1>9, <1>10, InvMoves

(* fills it with one that charges nothing,                                 *)
LEMMA FillsAccountKeeps ==
  ASSUME NewAccounts, Inv, NEW p \in Running, FillsAccount(p)
  PROVE  Inv'
<1>1. PICK P : P = procs[p]
  OBVIOUS
<1>2. PICK N : N = [cmd |-> P.cmd, steps |-> ToReset, holds |-> P.holds, auth |-> P.auth,
                    beside |-> P.beside]
  OBVIOUS
<1>3. /\ P.cmd = "init" /\ P.steps = ToBegin
      /\ Moves(p, ToReset, P.holds) /\ Leaves(P.holds.state, files.audit)
      /\ UNCHANGED <<printed, order>>
  BY <1>1, Zenon DEF FillsAccount
<1>4. IsInit(P) /\ Shape
  BY <1>1, <1>3 DEF Inv, Shape, IsProcess, IsLaunch, IsOther
<1>5. N.cmd = P.cmd /\ N.steps = ToReset /\ N.holds = P.holds /\ N.auth = P.auth /\ N.beside = P.beside
  BY <1>2
<1>6. IsProcess(N)
  <2>1. IsInit(N)
    BY <1>3, <1>4, <1>5 DEF IsInit
  <2>2. N = [cmd |-> N.cmd, steps |-> N.steps, holds |-> N.holds, auth |-> N.auth,
             beside |-> N.beside]
    BY <1>2
  <2> QED  BY <2>1, <2>2 DEF IsProcess
<1>7. NoWriterBeside(P) => printed = {}
  BY <1>1, <1>3 DEF Inv, Books, Begins
<1>8. order # "disturbed" => NoWriterBeside(P)
  BY <1>1, <1>3 DEF Inv, Apart, OneByOne
<1>9. Begins(N)'
  <2> SUFFICES ASSUME NoWriterBeside(N)
               PROVE  printed' = {} /\ files'.state = N.holds.state
    BY DEF Begins, NoWriterBeside
  <2>1. NoWriterBeside(P)
    BY <1>5 DEF NoWriterBeside
  <2> QED  BY <1>3, <1>5, <1>7, <2>1 DEF Leaves
<1>10. PICK state : state = P.holds.state
  OBVIOUS
<1>11. Accounts(state) /\ Charged(state) = {}
  BY <1>4, <1>10 DEF IsInit, NewAccounts
<1>12. Balanced(state, files.audit, printed', order)
  BY <1>3, <1>7, <1>8, <1>11 DEF Balanced, OneByOne
<1>13. IsTrail(files.audit)
  BY <1>4 DEF Shape
<1> QED  BY <1>1, <1>2, <1>3, <1>6, <1>9, <1>10, <1>11, <1>12, <1>13, InvMoves

(* make-envelope reads the trail after the state.                          *)
LEMMA ReadsTrailKeeps ==
  ASSUME Inv, NEW p \in Running, ReadsTrail(p)
  PROVE  Inv'
<1>1. PICK P : P = procs[p]
  OBVIOUS
<1>2. PICK holds : holds = BothRead(p)
  OBVIOUS
<1>3. PICK N : N = [cmd |-> P.cmd, steps |-> ToWrite("envelope"), holds |-> holds,
                    auth |-> P.auth, beside |-> P.beside]
  OBVIOUS
<1>4. /\ P.cmd = "make-envelope" /\ P.steps = ToRead
      /\ Moves(p, ToWrite("envelope"), holds) /\ Leaves(files.state, files.audit)
      /\ UNCHANGED <<printed, order>>
  BY <1>1, <1>2, Zenon DEF ReadsTrail
<1>5. IsOther(P) /\ Shape
  BY <1>1, <1>4 DEF Inv, Shape, IsProcess, IsLaunch, IsInit
<1>6. N.cmd = P.cmd /\ N.steps = ToWrite("envelope") /\ N.holds = holds /\ N.auth = P.auth
      /\ N.beside = P.beside
  BY <1>3
<1>7. holds.audit = files.audit /\ holds.state = P.holds.state
  <2>1. "state" \in DOMAIN P.holds
    BY <1>4, <1>5 DEF IsOther
  <2> QED  BY <1>1, <1>2, <2>1 DEF BothRead
<1>8. IsProcess(N)
  <2>1. IsOther(N)
    BY <1>4, <1>6, PlacesDiffer DEF IsOther, Elsewhere
  <2>2. N = [cmd |-> N.cmd, steps |-> N.steps, holds |-> N.holds, auth |-> N.auth,
             beside |-> N.beside]
    BY <1>3
  <2> QED  BY <2>1, <2>2 DEF IsProcess
<1>9. Gathers(P)
  BY <1>1, <1>4 DEF Inv, Books
<1>10. Gathers(N)'
  <2> SUFFICES ASSUME order' # "disturbed", "init" \notin N.beside
               PROVE  Charged(N.holds.state) \subseteq Audited(N.holds.audit)
    BY <1>6, PlacesDiffer DEF Gathers, Charged, Audited, AuthKey, ToRead, ToWrite
  <2>1. Charged(P.holds.state) \subseteq Audited(files.audit)
    BY <1>4, <1>6, <1>9 DEF Gathers
  <2> QED  BY <1>6, <1>7, <2>1
<1>11. Balanced(files.state, files.audit, printed', order)
  BY <1>4, BalanceNow DEF Inv
<1>12. IsTrail(files.audit) /\ (Readable(files.state) => Accounts(files.state))
  BY <1>5 DEF Shape
<1> QED  BY <1>1, <1>3, <1>4, <1>8, <1>10, <1>11, <1>12, InvMoves

(* What is written elsewhere concerns neither of the two.                  *)
LEMMA ProceedsKeeps ==
  ASSUME Inv, NEW p \in Running, Proceeds(p)
  PROVE  Inv'
<1>1. PICK P : P = procs[p]
  OBVIOUS
<1>2. /\ P.cmd \notin {"launch", "init"}
      /\ Leaves(files.state, files.audit)
      /\ UNCHANGED <<printed, order>>
      /\ IsProcess(procs'[p])
  BY <1>1 DEF Proceeds, IsProcess, IsLaunch, IsInit, IsOther, IsTrail, Accounts,
    FreshStates, Elsewhere
<1>3. PICK left : /\ left = ToReport \/ \E file \in Files : left = ToFinish(file)
                  /\ Moves(p, left, P.holds)
  BY <1>1, Zenon DEF Proceeds
<1>4. PICK N : N = [cmd |-> P.cmd, steps |-> left, holds |-> P.holds,
                    auth |-> P.auth, beside |-> P.beside]
  OBVIOUS
<1>5. Shape
  BY DEF Inv
<1>6. procs'[p] = N
  BY <1>1, <1>3, <1>4, <1>5, MovesKeeps
<1>7. IsProcess(N)
  BY <1>2, <1>6
<1>8. Gathers(N)'
  <2>1. N.steps \notin {ToRead, ToWrite("envelope")}
    <3>1. N.steps = left
      BY <1>4
    <3>2. ToReport # ToWrite("envelope") /\ ToReport # ToRead
      BY PlacesDiffer
    <3>3. \A file : ToFinish(file) \notin {ToRead, ToWrite("envelope")}
      BY PlacesDiffer
    <3> QED  BY <1>3, <3>1, <3>2, <3>3
  <2> QED  BY <2>1 DEF Gathers, ToRead, ToWrite
<1>9. Balanced(files.state, files.audit, printed', order)
  BY <1>2, BalanceNow DEF Inv
<1>10. IsTrail(files.audit) /\ (Readable(files.state) => Accounts(files.state))
  BY <1>5 DEF Shape
<1> QED  BY <1>1, <1>2, <1>3, <1>4, <1>7, <1>8, <1>9, <1>10, InvMoves

(* and empties the trail: undisturbed, it starts a serial order.           *)
LEMMA ResetsTrailKeeps ==
  ASSUME NewAccounts, Inv, NEW p \in Running, ResetsTrail(p)
  PROVE  Inv'
<1>1. PICK P : P = procs[p]
  OBVIOUS
<1>2. PICK N : N = [cmd |-> P.cmd, steps |-> ToReport, holds |-> P.holds, auth |-> P.auth,
                    beside |-> P.beside]
  OBVIOUS
<1>3. /\ P.cmd = "init" /\ P.steps = ToReset
      /\ Moves(p, ToReport, P.holds) /\ Leaves(files.state, << >>)
      /\ printed' = {}
      /\ order' = IF NoWriterBeside(P) THEN "serial" ELSE order
  BY <1>1, Zenon DEF ResetsTrail
<1>4. IsInit(P) /\ Shape
  BY <1>1, <1>3 DEF Inv, Shape, IsProcess, IsLaunch, IsOther
<1>5. N.cmd = P.cmd /\ N.steps = ToReport /\ N.holds = P.holds /\ N.auth = P.auth /\ N.beside = P.beside
  BY <1>2
<1>6. IsProcess(N)
  <2>1. IsInit(N)
    BY <1>3, <1>4, <1>5 DEF IsInit
  <2>2. N = [cmd |-> N.cmd, steps |-> N.steps, holds |-> N.holds, auth |-> N.auth,
             beside |-> N.beside]
    BY <1>2
  <2> QED  BY <2>1, <2>2 DEF IsProcess
<1>7. IsTrail(<< >>)
  BY DEF IsTrail
<1>8. Readable(files.state) => Accounts(files.state)
  BY <1>4 DEF Shape
<1>9. Begins(N)'
  BY <1>5, PlacesDiffer DEF Begins, ToReport, ToBegin, ToReset
<1>10. CASE ~NoWriterBeside(P)
  <2>1. order = "disturbed" /\ order' = order
    BY <1>1, <1>3, <1>10 DEF Inv, Apart, OneByOne
  <2>2. Balanced(files.state, << >>, printed', order)
    BY <2>1 DEF Balanced, OneByOne
  <2> QED  BY <1>1, <1>2, <1>3, <1>6, <1>7, <1>8, <1>9, <2>1, <2>2, InvMoves
<1>11. CASE NoWriterBeside(P)
  <2>1. order' = "serial"
    BY <1>3, <1>11
  <2>2. /\ Running' = Running
        /\ procs' = [q \in Invocations |-> procs'[q]]
        /\ procs'[p] = N
        /\ \A q \in Running \ {p} : procs'[q] = procs[q]
        /\ \A q \in Running :
              procs'[q].cmd = procs[q].cmd /\ procs'[q].beside = procs[q].beside
    BY <1>1, <1>2, <1>3, <1>4, MovesKeeps
  <2>3. Shape'
    BY <1>1, <1>2, <1>3, <1>4, <1>6, <1>7, <1>8, <2>1, ShapeStays
  <2>4. \A q \in Running \ {p} : /\ procs[q].cmd \notin {"launch", "init"}
                                 /\ "init" \in procs[q].beside
    <3> TAKE q \in Running \ {p}
    <3>1. procs[q].cmd \in P.beside /\ P.cmd \in procs[q].beside
      BY <1>1 DEF Inv, Apart, OneByOne
    <3> QED  BY <1>3, <1>11, <3>1 DEF NoWriterBeside, Writes
  <2>5. Apart'
    <3>1. \A q, r \in Running' : q # r => procs'[r].cmd \in procs'[q].beside
      BY <2>2 DEF Inv, Apart, OneByOne
    <3>2. \A q \in Running' : procs'[q].cmd = "init" => ~\E cmd \in procs'[q].beside : Writes(cmd)
      <4>1. ASSUME NEW q \in Running', procs'[q].cmd = "init" PROVE q = p
        BY <2>2, <2>4, <4>1
      <4>2. procs'[p].beside = P.beside
        BY <1>1, <2>2
      <4> QED  BY <1>11, <4>1, <4>2 DEF NoWriterBeside
    <3>3. \A q, r \in Running' : procs'[q].cmd = "launch" /\ procs'[r].cmd = "launch" => q = r
      <4>1. \A q \in Running' : procs'[q].cmd # "launch"
        BY <1>1, <1>3, <2>2, <2>4
      <4> QED  BY <4>1
    <3> QED  BY <3>1, <3>2, <3>3 DEF Apart, NoWriterBeside, Writes, OneByOne
  <2>6. Books'
    <3>1. \A q \in Running' : procs'[q].cmd # "launch"
      BY <1>1, <1>3, <2>2, <2>4
    <3>2. ASSUME NEW q \in Running', procs'[q].cmd = "init"
          PROVE  Begins(procs[q])'
      <4>1. q = p
        BY <2>2, <2>4, <3>2
      <4>2. procs'[q].steps \notin {ToBegin, ToReset}
        BY <1>5, <2>2, <4>1, PlacesDiffer
      <4> QED  BY <4>2 DEF Begins, ToBegin, ToReset
    <3>3. ASSUME NEW q \in Running', procs'[q].cmd = "make-envelope"
          PROVE  Gathers(procs[q])'
      <4>1. "init" \in procs'[q].beside
        BY <1>1, <1>3, <2>2, <2>4, <3>3
      <4> QED  BY <4>1 DEF Gathers
    <3> QED  BY <3>1, <3>2, <3>3 DEF Books
  <2>7. PrintedIsChargedIsAudited'
    <3>1. files.state = P.holds.state
      BY <1>1, <1>3, <1>11 DEF Inv, Books, Begins
    <3>2. Charged(files.state) = {}
      BY <1>4, <3>1 DEF IsInit, NewAccounts
    <3>3. Balanced(files.state, << >>, printed', order')
      BY <1>3, <3>2 DEF Balanced, OneByOne
    <3> QED  BY <1>3, <3>3, BalanceNext
  <2> QED  BY <2>3, <2>5, <2>6, <2>7 DEF Inv
<1> QED  BY <1>10, <1>11

(* A process that is gone takes nothing along.                             *)
LEMMA EndKeeps ==
  ASSUME Inv, NEW p \in Running, Ends(p), Leaves(files.state, files.audit),
         OrderStays,
         Balanced(files.state, files.audit, printed', order'),
         \A q \in Running \ {p} :
           (procs[q].cmd = "launch" /\ OneByOne)
             \/ (procs[q].cmd = "init" /\ NoWriterBeside(procs[q])) => printed' = printed
  PROVE  Inv'
<1>1. /\ Running' = Running \ {p}
      /\ \A q \in Running' : procs'[q] = procs[q]
  BY EndsKeeps DEF Inv
<1>2. Shape'
  BY ShapeStays DEF Inv, Shape, OrderStays
<1>3. Apart'
  BY <1>1, ApartStays DEF Inv
<1>4. Books'
  <2>1. files'.state = files.state /\ files'.audit = files.audit
    BY DEF Leaves
  <2>2. ASSUME NEW q \in Running'
        PROVE  /\ procs'[q].cmd = "launch" => Carries(procs[q])'
               /\ procs'[q].cmd = "init" => Begins(procs[q])'
               /\ procs'[q].cmd = "make-envelope" => Gathers(procs[q])'
    <3>1. procs'[q] = procs[q] /\ Running' \subseteq Running /\ q \in Running \ {p} /\ Books
      BY <1>1, <2>2 DEF Inv
    <3> QED  BY <2>1, <3>1, BooksStay
  <2> QED  BY <2>2 DEF Books
<1>5. PrintedIsChargedIsAudited'
  BY BalanceNext
<1> QED  BY <1>2, <1>3, <1>4, <1>5 DEF Inv

(* launch reports what it charged and audited.                             *)
LEMMA SaysKeeps ==
  ASSUME Inv, NEW p \in Running, Says(p)
  PROVE  Inv'
<1>1. PICK P : P = procs[p]
  OBVIOUS
<1>2. /\ P.cmd = "launch" /\ P.steps = ToReport /\ P.auth # Undefined
      /\ Ends(p) /\ Leaves(files.state, files.audit)
      /\ printed' = printed \cup {P.auth} /\ order' = order
  BY <1>1 DEF Says
<1>3. order # "disturbed" =>
        /\ Charged(P.holds.state) \subseteq Audited(files.audit)
        /\ P.auth \in Charged(P.holds.state)
        /\ OneByOne /\ Readable(files.state) => files.state = P.holds.state
  BY <1>1, <1>2, PlacesDiffer DEF Inv, Books, Carries, Unsaid, OneByOne
<1>4. Balanced(files.state, files.audit, printed', order')
  BY <1>2, <1>3, BalanceNow DEF Inv, Balanced, OneByOne
<1>5. \A q \in Running \ {p} : /\ ~(procs[q].cmd = "launch" /\ OneByOne)
                               /\ ~(procs[q].cmd = "init" /\ NoWriterBeside(procs[q]))
  BY <1>1, <1>2 DEF Inv, Apart, NoWriterBeside, Writes, OneByOne
<1> QED  BY <1>2, <1>4, <1>5, EndKeeps DEF OrderStays

(* Who is killed, or ends with nothing to say.                             *)
LEMMA QuitsKeeps ==
  ASSUME Inv, NEW p \in Running, Quits(p) \/ Breaks(p)
  PROVE  Inv'
<1>1. Ends(p) /\ Leaves(files.state, files.audit) /\ OrderStays
      /\ printed' = printed
  BY DEF Quits, Breaks, OrderStays
<1>2. Balanced(files.state, files.audit, printed', order')
  BY <1>1, BalanceNow DEF Inv, Balanced, OrderStays
<1> QED  BY <1>1, <1>2, EndKeeps

-----------------------------------------------------------------------------
(***************************************************************************)
(* Every command keeps the invariant as it starts                          *)
(***************************************************************************)

(* A command that starts: what it is, and what becomes of the others.      *)
LEMMA StartDoes ==
  ASSUME Shape, NEW p \in Invocations, procs[p] = Idle,
         NEW cmd, NEW steps, NEW holds, NEW auth, Start(p, cmd, steps, holds, auth), cmd # "none"
  PROVE  /\ Running' = Running \cup {p}
         /\ p \notin Running
         /\ procs' = [q \in Invocations |-> procs'[q]]
         /\ procs'[p] = [ cmd |-> cmd, steps |-> steps, holds |-> holds, auth |-> auth,
                          beside |-> {procs[r].cmd : r \in Running} ]
         /\ \A q \in Running :
              procs'[q] = [ cmd |-> procs[q].cmd, steps |-> procs[q].steps,
                            holds |-> procs[q].holds, auth |-> procs[q].auth,
                            beside |-> procs[q].beside \cup {cmd} ]
         /\ order' = OrderWith(cmd)
         /\ UNCHANGED <<files, printed>>
<1>1. PICK N : N = [ cmd |-> cmd, steps |-> steps, holds |-> holds, auth |-> auth,
                     beside |-> {procs[r].cmd : r \in Running} ]
  OBVIOUS
<1> DEFINE more(q) == [ cmd |-> procs[q].cmd, steps |-> procs[q].steps,
                        holds |-> procs[q].holds, auth |-> procs[q].auth,
                        beside |-> procs[q].beside \cup {cmd} ]
<1>2. \A q \in Running : [procs[q] EXCEPT !.beside = @ \cup {cmd}] = more(q)
  <2> TAKE q \in Running
  <2>1. PICK P : P = procs[q]
    OBVIOUS
  <2>2. P = [cmd |-> P.cmd, steps |-> P.steps, holds |-> P.holds, auth |-> P.auth,
             beside |-> P.beside]
    BY <2>1 DEF Shape, IsProcess
  <2>3. [P EXCEPT !.beside = @ \cup {cmd}] = [cmd |-> P.cmd, steps |-> P.steps, holds |-> P.holds,
          auth |-> P.auth, beside |-> P.beside \cup {cmd}]
    BY <2>2
  <2> QED  BY <2>1, <2>3
<1>3. procs' = [q \in Invocations |->
                  IF q = p THEN N
                  ELSE IF q \in Running THEN [procs[q] EXCEPT !.beside = @ \cup {cmd}] ELSE Idle]
  BY <1>1, Zenon DEF Start
<1>4. \A q \in Running : more(q).cmd = procs[q].cmd /\ procs[q].cmd # "none"
  BY WhoDoes DEF Shape
<1>5. \A q \in Running : more(q) # Idle
  BY <1>4 DEF Idle
<1>6. N # Idle
  BY <1>1 DEF Idle
<1>7. p \notin Running /\ Running \subseteq Invocations
  BY DEF Running
<1> HIDE DEF more
<1>8. /\ procs'[p] = N
      /\ \A q \in Running : procs'[q] = more(q)
      /\ \A q \in Invocations \ (Running \cup {p}) : procs'[q] = Idle
  BY <1>2, <1>3, <1>7
<1>9. Running' = Running \cup {p}
  <2>1. Running' = {q \in Invocations : procs'[q] # Idle}
    BY DEF Running, Idle
  <2> QED  BY <1>5, <1>6, <1>7, <1>8, <2>1
<1>10. procs' = [q \in Invocations |-> procs'[q]]
  BY <1>3
<1> QED  BY <1>1, <1>7, <1>8, <1>9, <1>10, Zenon DEF Start, more

(* What is to be shown of a command that starts.                           *)
LEMMA StartKeeps ==
  ASSUME Inv, NEW p \in Invocations, procs[p] = Idle,
         NEW cmd, NEW steps, NEW holds, NEW auth, Start(p, cmd, steps, holds, auth),
         NEW N, N = [ cmd |-> cmd, steps |-> steps, holds |-> holds, auth |-> auth,
                      beside |-> {procs[r].cmd : r \in Running} ],
         IsProcess(N),
         cmd = "init" => steps = ToInit,
         cmd = "launch" => Carries(N),
         cmd = "make-envelope" => Gathers(N)
  PROVE  Inv'
<1>1. cmd # "none"
  BY WhoDoes
<1>2. PICK others : others = {procs[r].cmd : r \in Running}
  OBVIOUS
<1>3. /\ Running' = Running \cup {p}
      /\ p \notin Running
      /\ procs' = [q \in Invocations |-> procs'[q]]
      /\ procs'[p] = N
      /\ \A q \in Running :
              procs'[q] = [ cmd |-> procs[q].cmd, steps |-> procs[q].steps,
                            holds |-> procs[q].holds, auth |-> procs[q].auth,
                            beside |-> procs[q].beside \cup {cmd} ]
      /\ order' = OrderWith(cmd)
      /\ UNCHANGED <<files, printed>>
  <2>1. Shape
    BY DEF Inv
  <2> QED  BY <1>1, <2>1, StartDoes
<1>4. \A q \in Running : /\ procs'[q].cmd = procs[q].cmd
                         /\ procs'[q].steps = procs[q].steps
                         /\ procs'[q].holds = procs[q].holds
                         /\ procs'[q].auth = procs[q].auth
                         /\ procs'[q].beside = procs[q].beside \cup {cmd}
  <2> TAKE q \in Running
  <2>1. PICK M : M = procs'[q]
    OBVIOUS
  <2>2. M = [ cmd |-> procs[q].cmd, steps |-> procs[q].steps,
              holds |-> procs[q].holds, auth |-> procs[q].auth,
              beside |-> procs[q].beside \cup {cmd} ]
    BY <1>3, <2>1, Zenon
  <2>3. /\ M.cmd = procs[q].cmd /\ M.steps = procs[q].steps /\ M.holds = procs[q].holds
        /\ M.auth = procs[q].auth /\ M.beside = procs[q].beside \cup {cmd}
    BY <2>2
  <2> QED  BY <2>1, <2>3
<1>5. N.cmd = cmd /\ N.steps = steps /\ N.holds = holds /\ N.auth = auth /\ N.beside = others
  BY <1>2
<1>6. order' = IF Writes(cmd) /\ (("init" \in others) \/ (cmd = "init" /\ "launch" \in others))
               THEN "disturbed"
               ELSE IF cmd = "launch" /\ "launch" \in others /\ OneByOne THEN "shared"
               ELSE order
  BY <1>2, <1>3 DEF OrderWith, OneByOne
<1>7. /\ order' # "disturbed" => order # "disturbed"
      /\ OneByOne' => OneByOne
      /\ order' \in {"disturbed", "shared", order}
  BY <1>6 DEF OneByOne
<1>8. Shape'
  <2>1. \A q \in Running : IsProcess(procs'[q])
    <3>1. ASSUME NEW q \in Running PROVE IsProcess(procs'[q])
      <4>1. PICK P, M : P = procs[q] /\ M = procs'[q]
        OBVIOUS
      <4>2. IsProcess(P)
        BY <4>1 DEF Inv, Shape
      <4>3. M.cmd = P.cmd /\ M.steps = P.steps /\ M.holds = P.holds /\ M.auth = P.auth
            /\ M = [cmd |-> M.cmd, steps |-> M.steps, holds |-> M.holds, auth |-> M.auth,
                    beside |-> M.beside]
        BY <1>3, <1>4, <4>1
      <4>4. IsLaunch(M) \/ IsInit(M) \/ IsOther(M)
        <5>1. IsLaunch(P) => IsLaunch(M)
          BY <4>3 DEF IsLaunch
        <5>2. IsInit(P) => IsInit(M)
          BY <4>3 DEF IsInit
        <5>3. IsOther(P) => IsOther(M)
          BY <4>3, Zenon DEF IsOther
        <5> QED  BY <4>2, <5>1, <5>2, <5>3 DEF IsProcess
      <4> QED  BY <4>1, <4>3, <4>4 DEF IsProcess
    <3> QED  BY <3>1
  <2>2. \A q \in Running' : IsProcess(procs'[q])
    BY <1>3, <2>1
  <2>3. \A q \in Running' : IsProcess(procs[q])'
    BY <2>2 DEF IsProcess, IsLaunch, IsInit, IsOther, IsTrail, Accounts, FreshStates, Elsewhere
  <2>4. /\ files' = [f \in Files |-> files'[f]]
        /\ IsTrail(files'.audit)
        /\ Readable(files'.state) => Accounts(files'.state)
    BY <1>3 DEF Inv, Shape
  <2>5. order' \in {"serial", "cut", "shared", "disturbed"}
    BY <1>7 DEF Inv, Shape
  <2> QED  BY <1>3, <2>3, <2>4, <2>5 DEF Shape, IsTrail, Accounts, Readable
<1>9. Apart'
  <2>1. \A q, r \in Running' : q # r => procs'[r].cmd \in procs'[q].beside
    <3>1. ASSUME NEW q \in Running', NEW r \in Running', q # r
          PROVE  procs'[r].cmd \in procs'[q].beside
      <4>1. CASE q = p
        BY <1>2, <1>3, <1>4, <1>5, <3>1, <4>1
      <4>2. CASE q # p /\ r = p
        BY <1>3, <1>4, <1>5, <3>1, <4>2
      <4>3. CASE q # p /\ r # p
        BY <1>3, <1>4, <3>1, <4>3 DEF Inv, Apart, OneByOne
      <4> QED  BY <4>1, <4>2, <4>3
    <3> QED  BY <3>1
  <2>2. ASSUME order' # "disturbed", NEW q \in Running', procs'[q].cmd = "init"
        PROVE  ~\E c \in procs'[q].beside : Writes(c)
    <3>1. CASE q = p
      <4>1. cmd = "init" /\ procs'[q].beside = others
        BY <1>3, <1>5, <2>2, <3>1
      <4> QED  BY <1>6, <2>2, <4>1 DEF Writes
    <3>2. CASE q # p
      <4>1. q \in Running /\ procs[q].cmd = "init"
        BY <1>3, <1>4, <2>2, <3>2
      <4>2. ~Writes(cmd)
        BY <1>2, <1>6, <2>2, <4>1
      <4>3. ~\E c \in procs[q].beside : Writes(c)
        BY <1>7, <2>2, <4>1 DEF Inv, Apart, NoWriterBeside, OneByOne
      <4> QED  BY <1>4, <4>1, <4>2, <4>3
    <3> QED  BY <3>1, <3>2
  <2>3. ASSUME OneByOne', NEW q \in Running', NEW r \in Running',
               procs'[q].cmd = "launch", procs'[r].cmd = "launch"
        PROVE  q = r
    <3>1. OneByOne /\ ~(cmd = "launch" /\ "launch" \in others)
      BY <1>6, <1>7, <2>3 DEF OneByOne
    <3>2. \A s \in Running : procs[s].cmd \in others /\ procs'[s].cmd = procs[s].cmd
      BY <1>2, <1>4
    <3>3. \A s, t \in Running : procs[s].cmd = "launch" /\ procs[t].cmd = "launch" => s = t
      BY <3>1 DEF Inv, Apart, OneByOne
    <3>4. procs'[p].cmd = cmd
      BY <1>3, <1>5
    <3> QED  BY <1>3, <2>3, <3>1, <3>2, <3>3, <3>4
  <2> QED  BY <2>1, <2>2, <2>3, Zenon DEF Apart, NoWriterBeside, Writes, OneByOne
<1>10. Books'
  <2>1. ASSUME NEW q \in Running
        PROVE  /\ procs'[q].cmd = "launch" => Carries(procs[q])'
               /\ procs'[q].cmd = "init" => Begins(procs[q])'
               /\ procs'[q].cmd = "make-envelope" => Gathers(procs[q])'
    <3>1. /\ procs[q].cmd = "launch" => Carries(procs[q])
          /\ procs[q].cmd = "init" => Begins(procs[q])
          /\ procs[q].cmd = "make-envelope" => Gathers(procs[q])
      BY DEF Inv, Books
    <3>2. procs[q].cmd = "launch" => Carries(procs[q])'
      <4>1. Unsaid(procs[q])' = Unsaid(procs[q])
        BY <1>4 DEF Unsaid, Audited, AuthKey, ToAudit
      <4>2. SUFFICES ASSUME procs[q].cmd = "launch", order' # "disturbed",
                            procs[q].steps \in {ToAudit, ToSave, ToFill} \/ procs[q].auth # Undefined
            PROVE  /\ Charged(procs[q].holds.state) \subseteq Audited(files.audit) \cup Unsaid(procs[q])
                   /\ procs[q].auth \in Charged(procs[q].holds.state)
                   /\ OneByOne' =>
                        /\ printed \subseteq Charged(procs[q].holds.state)
                        /\ procs[q].steps = ToReport /\ Readable(files.state) =>
                             files.state = procs[q].holds.state
        BY <1>3, <1>4, <4>1
           DEF Carries, Charged, Audited, AuthKey, Readable, ToAudit, ToSave, ToFill, ToReport, OneByOne
      <4> QED  BY <1>7, <3>1, <4>2 DEF Carries, OneByOne
    <3>3. procs[q].cmd = "init" => Begins(procs[q])'
      BY <1>3, <1>4, <3>1 DEF Begins, NoWriterBeside, ToBegin, ToReset, Writes
    <3>4. procs[q].cmd = "make-envelope" => Gathers(procs[q])'
      <4>1. SUFFICES ASSUME procs[q].cmd = "make-envelope", order' # "disturbed",
                            "init" \notin procs'[q].beside
            PROVE  /\ procs[q].steps = ToRead =>
                        Charged(procs[q].holds.state) \subseteq Audited(files.audit)
                   /\ procs[q].steps = ToWrite("envelope") =>
                        Charged(procs[q].holds.state) \subseteq Audited(procs[q].holds.audit)
        BY <1>3, <1>4 DEF Gathers, Charged, Audited, AuthKey, ToRead, ToWrite
      <4> QED  BY <1>4, <1>7, <3>1, <4>1 DEF Gathers
    <3> QED  BY <1>4, <3>2, <3>3, <3>4
  <2>2. /\ procs'[p].cmd = "launch" => Carries(procs[p])'
        /\ procs'[p].cmd = "init" => Begins(procs[p])'
        /\ procs'[p].cmd = "make-envelope" => Gathers(procs[p])'
    <3>1. cmd = "launch" => Carries(procs[p])'
      <4>1. SUFFICES ASSUME cmd = "launch", order' # "disturbed",
                            N.steps \in {ToAudit, ToSave, ToFill} \/ N.auth # Undefined
            PROVE  /\ Charged(N.holds.state) \subseteq Audited(files.audit) \cup Unsaid(N)
                   /\ N.auth \in Charged(N.holds.state)
                   /\ OneByOne' =>
                        /\ printed \subseteq Charged(N.holds.state)
                        /\ N.steps = ToReport /\ Readable(files.state) => files.state = N.holds.state
        <5>1. Unsaid(procs[p])' = Unsaid(N)
          BY <1>3 DEF Unsaid, Audited, AuthKey, ToAudit
        <5> QED  BY <1>3, <5>1
          DEF Carries, Charged, Audited, AuthKey, Readable, ToAudit, ToSave, ToFill, ToReport, OneByOne
      <4> QED  BY <1>7, <4>1 DEF Carries, OneByOne
    <3>2. cmd = "init" => Begins(procs[p])'
      <4>1. cmd = "init" => procs'[p].steps \notin {ToBegin, ToReset}
        BY <1>3, <1>5, PlacesDiffer
      <4> QED  BY <4>1 DEF Begins, ToBegin, ToReset
    <3>3. cmd = "make-envelope" => Gathers(procs[p])'
      <4>1. SUFFICES ASSUME cmd = "make-envelope", order' # "disturbed", "init" \notin N.beside
            PROVE  /\ N.steps = ToRead => Charged(N.holds.state) \subseteq Audited(files.audit)
                   /\ N.steps = ToWrite("envelope") =>
                        Charged(N.holds.state) \subseteq Audited(N.holds.audit)
        BY <1>3 DEF Gathers, Charged, Audited, AuthKey, ToRead, ToWrite
      <4> QED  BY <1>7, <4>1 DEF Gathers
    <3> QED  BY <1>3, <1>5, <3>1, <3>2, <3>3
  <2> QED  BY <1>3, <2>1, <2>2 DEF Books
<1>11. PrintedIsChargedIsAudited'
  BY <1>3, <1>7 DEF Inv, PrintedIsChargedIsAudited, Audited, Charged, Readable, AuthKey, OneByOne
<1> QED  BY <1>8, <1>9, <1>10, <1>11 DEF Inv

(* A new process is what it is.                                            *)
LEMMA NewProcess ==
  ASSUME NEW cmd, NEW steps, NEW holds, NEW auth, NEW beside,
         NEW N, N = [cmd |-> cmd, steps |-> steps, holds |-> holds, auth |-> auth,
                     beside |-> beside]
  PROVE  /\ N.cmd = cmd /\ N.steps = steps /\ N.holds = holds /\ N.auth = auth
         /\ N = [cmd |-> N.cmd, steps |-> N.steps, holds |-> N.holds, auth |-> N.auth,
                 beside |-> N.beside]
OBVIOUS

(* What starts and writes neither state nor trail.                         *)
LEMMA StartOther ==
  ASSUME Inv, NEW p \in Invocations, procs[p] = Idle,
         NEW cmd \in {"dry-run", "auth create", "build", "make-envelope"},
         NEW steps \in {ToReport, ToRead} \cup {ToWrite(file) : file \in Elsewhere},
         NEW holds, NEW auth, Start(p, cmd, steps, holds, auth),
         steps = ToRead =>
           /\ cmd = "make-envelope" /\ "state" \in DOMAIN holds
           /\ order # "disturbed" => Charged(holds.state) \subseteq Audited(files.audit),
         cmd = "make-envelope" => steps = ToRead
  PROVE  Inv'
<1>1. PICK N : N = [ cmd |-> cmd, steps |-> steps, holds |-> holds, auth |-> auth,
                     beside |-> {procs[r].cmd : r \in Running} ]
  OBVIOUS
<1>2. /\ N.cmd = cmd /\ N.steps = steps /\ N.holds = holds /\ N.auth = auth
      /\ N = [cmd |-> N.cmd, steps |-> N.steps, holds |-> N.holds, auth |-> N.auth,
              beside |-> N.beside]
  BY <1>1, NewProcess
<1>3. IsProcess(N)
  <2>1. IsOther(N)
    BY <1>2 DEF IsOther
  <2> QED  BY <1>2, <2>1 DEF IsProcess
<1>4. cmd = "make-envelope" => Gathers(N)
  <2>1. ToRead # ToWrite("envelope")
    BY PlacesDiffer
  <2> QED  BY <1>2, <2>1 DEF Gathers
<1>5. cmd # "init" /\ cmd # "launch"
  OBVIOUS
<1> QED  BY <1>1, <1>3, <1>4, <1>5, StartKeeps

(* init, and examples init.                                                *)
LEMMA StartInit ==
  ASSUME Inv, NEW p \in Invocations, procs[p] = Idle, NEW state \in FreshStates,
         Start(p, "init", InitSteps, [state |-> state], Undefined)
  PROVE  Inv'
<1>1. PICK N : N = [ cmd |-> "init", steps |-> ToInit, holds |-> [state |-> state],
                     auth |-> Undefined, beside |-> {procs[r].cmd : r \in Running} ]
  OBVIOUS
<1>2. /\ N.cmd = "init" /\ N.steps = ToInit /\ N.holds = [state |-> state] /\ N.auth = Undefined
      /\ N = [cmd |-> N.cmd, steps |-> N.steps, holds |-> N.holds, auth |-> N.auth,
              beside |-> N.beside]
  BY <1>1, NewProcess
<1>3. IsProcess(N)
  <2>1. IsInit(N)
    BY <1>2 DEF IsInit
  <2> QED  BY <1>2, <2>1 DEF IsProcess
<1>4. Start(p, "init", ToInit, [state |-> state], Undefined)
  BY StepsToDo
<1> QED  BY <1>1, <1>3, <1>4, StartKeeps

(* launch, when it has decided.                                            *)
LEMMA StartLaunch ==
  ASSUME Inv, NEW p \in Invocations, procs[p] = Idle, Readable(files.state),
         NEW i, i.type = "EXECUTE",
         NEW out, out = Decide(i, files.state),
         NEW holds, holds = [audit |-> Events(i, files.state.policy_version, out.events),
                             state |-> out.next],
         NEW auth, auth = IF out.decision = "ALLOW" THEN AuthKey(i.nonce, i.timestamp)
                          ELSE Undefined,
         Start(p, "launch", LaunchSteps(out.decision, FALSE), holds, auth)
  PROVE  Inv'
<1>1. PICK steps : steps = IF out.decision = "ALLOW" THEN ToAudit ELSE ToDeny
  OBVIOUS
<1>2. Start(p, "launch", steps, holds, auth)
  <2>1. LaunchSteps(out.decision, FALSE) = steps
    BY <1>1, StepsToDo
  <2> QED  BY <2>1
<1>3. PICK N : N = [ cmd |-> "launch", steps |-> steps, holds |-> holds,
                     auth |-> auth, beside |-> {procs[r].cmd : r \in Running} ]
  OBVIOUS
<1>4. /\ N.cmd = "launch" /\ N.steps = steps /\ N.holds = holds /\ N.auth = auth
      /\ N = [cmd |-> N.cmd, steps |-> N.steps, holds |-> N.holds, auth |-> N.auth,
              beside |-> N.beside]
  BY <1>3, NewProcess
<1>5. PICK audit : audit = Events(i, files.state.policy_version, out.events)
  OBVIOUS
<1>6. holds.audit = audit /\ holds.state = out.next
  BY <1>5
<1>7. Accounts(files.state)
  BY DEF Inv, Shape
<1>8. IsTrail(audit)
  <2>1. out.events \in Outcomes
    BY DecisionKeepsVersion
  <2> QED  BY <1>5, <2>1, EventsAreATrail
<1>9. out.decision = "ALLOW" =>
        /\ Accounts(out.next)
        /\ Charged(out.next) = Charged(files.state) \cup {auth}
        /\ auth \in Audited(audit)
  <2> SUFFICES ASSUME out.decision = "ALLOW"
               PROVE  /\ Accounts(out.next)
                      /\ Charged(out.next) = Charged(files.state) \cup {AuthKey(i.nonce, i.timestamp)}
                      /\ AuthKey(i.nonce, i.timestamp) \in Audited(audit)
    OBVIOUS
  <2>1. /\ out.events = <<"INTENT_RECEIVED", "DECISION", "AUTH_EMITTED">>
        /\ Accounts(out.next)
        /\ Charged(out.next) = Charged(files.state) \cup {AuthKey(i.nonce, i.timestamp)}
    BY <1>7, AllowedIsCharged
  <2> QED  BY <1>5, <2>1, AllowedIsAudited
<1>10. IsProcess(N)
  <2>1. IsLaunch(N)
    BY <1>1, <1>4, <1>6, <1>8, <1>9, PlacesDiffer DEF IsLaunch
  <2> QED  BY <1>4, <2>1 DEF IsProcess
<1>11. Carries(N)
  <2>1. SUFFICES ASSUME order # "disturbed",
                        N.steps \in {ToAudit, ToSave, ToFill} \/ N.auth # Undefined
        PROVE  /\ Charged(out.next) \subseteq Audited(files.audit) \cup Unsaid(N)
               /\ auth \in Charged(out.next)
               /\ OneByOne =>
                    /\ printed \subseteq Charged(out.next)
                    /\ N.steps = ToReport /\ Readable(files.state) => files.state = out.next
    BY <1>4, <1>6 DEF Carries, OneByOne
  <2>2. out.decision = "ALLOW" /\ N.steps = ToAudit
    BY <1>1, <1>4, <2>1, PlacesDiffer
  <2>3. Unsaid(N) = Audited(audit)
    BY <1>4, <1>6, <2>2 DEF Unsaid
  <2>4. /\ Charged(files.state) \subseteq Audited(files.audit)
        /\ OneByOne => printed \subseteq Charged(files.state)
    BY <2>1 DEF Inv, PrintedIsChargedIsAudited, OneByOne
  <2>5. N.steps # ToReport
    BY <2>2, PlacesDiffer
  <2> QED  BY <1>9, <2>2, <2>3, <2>4, <2>5
<1> QED  BY <1>2, <1>3, <1>10, <1>11, StartKeeps

LEMMA LaunchKeeps ==
  ASSUME Inv, NEW p \in Invocations, procs[p] = Idle, NEW parsed, Launch(p, parsed)
  PROVE  Inv'
<1>1. PICK dryRun : dryRun = (Line!Arg(parsed, 2) = "dry-run")
  OBVIOUS
<1>2. PICK i : i = IntentOf(parsed, IF dryRun THEN 3 ELSE 2)
  OBVIOUS
<1>3. PICK out : out = Decide(i, files.state)
  OBVIOUS
<1>4. PICK holds : holds = [audit |-> Events(i, files.state.policy_version, out.events),
                            state |-> out.next]
  OBVIOUS
<1>5. PICK auth : auth = IF out.decision = "ALLOW" THEN AuthKey(i.nonce, i.timestamp) ELSE Undefined
  OBVIOUS
<1>6. /\ i # Undefined
      /\ Readable(files.state)
      /\ Start(p, IF dryRun THEN "dry-run" ELSE "launch", LaunchSteps(out.decision, dryRun),
               holds, auth)
  BY <1>1, <1>2, <1>3, <1>4, <1>5, Zenon DEF Launch
<1>7. CASE dryRun
  <2>1. Start(p, "dry-run", ToReport, holds, auth)
    <3>1. dryRun = TRUE
      BY <1>1, <1>7
    <3>2. LaunchSteps(out.decision, dryRun) = ToReport
      BY <3>1, StepsToDo
    <3> QED  BY <1>6, <1>7, <3>2
  <2>2. ToReport # ToRead
    BY PlacesDiffer
  <2> QED  BY <2>1, <2>2, StartOther
<1>8. CASE ~dryRun
  <2>1. Start(p, "launch", LaunchSteps(out.decision, FALSE), holds, auth)
    <3>1. dryRun = FALSE
      BY <1>1, <1>8
    <3> QED  BY <1>6, <3>1
  <2>2. i.type = "EXECUTE"
    <3>1. PICK word, offset : /\ word = Line!Arg(parsed, offset)
                              /\ offset = IF dryRun THEN 3 ELSE 2
      OBVIOUS
    <3>2. i = [ type |-> "EXECUTE", agent_id |-> parsed.flags["--agent"],
                nonce |-> parsed.flags["--nonce"], timestamp |-> now,
                request |-> RequestOf[word], authorization_id |-> Undefined ]
      BY <1>2, <1>6, <3>1, Zenon DEF IntentOf
    <3> QED  BY <3>2
  <2> QED  BY <1>3, <1>4, <1>5, <1>6, <2>1, <2>2, StartLaunch
<1> QED  BY <1>7, <1>8

LEMMA AuthCreateKeeps ==
  ASSUME Inv, NEW p \in Invocations, procs[p] = Idle, NEW parsed, AuthCreate(p, parsed)
  PROVE  Inv'
<1>1. PICK holds, auth : Start(p, "auth create", WriteFile("authorization") \o Report, holds, auth)
  BY Zenon DEF AuthCreate
<1>2. Start(p, "auth create", ToWrite("authorization"), holds, auth)
  BY <1>1, StepsToDo
<1>3. ToWrite("authorization") # ToRead
  BY PlacesDiffer
<1> QED  BY <1>2, <1>3, StartOther DEF Elsewhere

LEMMA BuildKeeps ==
  ASSUME Inv, NEW p \in Invocations, procs[p] = Idle, NEW parsed, Build(p, parsed)
  PROVE  Inv'
<1>1. PICK holds, out :
        /\ out = IF Line!Given(parsed, "--out") THEN WriteFile("snapshot") ELSE << >>
        /\ Start(p, "build", out \o Report, holds, Undefined)
  BY Zenon DEF Build
<1>2. PICK steps \in {ToReport, ToWrite("snapshot")} : Start(p, "build", steps, holds, Undefined)
  <2>1. out \o Report = ToReport \/ out \o Report = ToWrite("snapshot")
    BY <1>1, StepsToDo
  <2> QED  BY <1>1, <2>1
<1>3. ToWrite("snapshot") # ToRead /\ ToReport # ToRead
  BY PlacesDiffer
<1> QED  BY <1>2, <1>3, StartOther DEF Elsewhere

LEMMA MakeEnvelopeKeeps ==
  ASSUME Inv, NEW p \in Invocations, procs[p] = Idle, NEW parsed, MakeEnvelope(p, parsed)
  PROVE  Inv'
<1>1. EnvelopeReads[1] = "state" /\ EnvelopeReads[2] = "audit"
  BY DEF EnvelopeReads
<1>2. PICK holds : holds = [f \in {"state"} |-> files[f]]
  OBVIOUS
<1>3. /\ Readable(files.state)
      /\ Start(p, "make-envelope", Do("read", "audit") \o WriteFile("envelope") \o Report,
               holds, Undefined)
  BY <1>1, <1>2 DEF MakeEnvelope
<1>4. Start(p, "make-envelope", ToRead, holds, Undefined)
  BY <1>3, StepsToDo
<1>5. "state" \in DOMAIN holds /\ holds.state = files.state
  BY <1>2
<1>6. order # "disturbed" => Charged(holds.state) \subseteq Audited(files.audit)
  BY <1>3, <1>5 DEF Inv, PrintedIsChargedIsAudited, OneByOne
<1> QED  BY <1>4, <1>5, <1>6, StartOther

LEMMA RunKeeps ==
  ASSUME Inv, NEW p \in Invocations, Run(p)
  PROVE  Inv'
<1>1. procs[p] = Idle
  BY DEF Run
<1>2. PICK parsed :
        \/ Launch(p, parsed) \/ AuthCreate(p, parsed)
        \/ InitCommand(p, parsed) \/ ExamplesInit(p, parsed)
        \/ Build(p, parsed) \/ MakeEnvelope(p, parsed)
  BY Zenon DEF Run
<1>3. InitCommand(p, parsed) => Inv'
  BY <1>1, StartInit DEF InitCommand, FreshStates
<1>4. ExamplesInit(p, parsed) => Inv'
  BY <1>1, StartInit DEF ExamplesInit, FreshStates
<1> QED  BY <1>1, <1>2, <1>3, <1>4, LaunchKeeps, AuthCreateKeeps, BuildKeeps, MakeEnvelopeKeeps

LEMMA StepKeeps ==
  ASSUME NewAccounts, Inv, NEW p \in Running, Step(p) \/ Kill(p)
  PROVE  Inv'
<1>1. Shape
  BY DEF Inv
<1>2. \/ Audits(p) \/ Opens(p) \/ Saves(p) \/ Says(p) \/ OpensAccount(p) \/ FillsAccount(p)
      \/ ResetsTrail(p) \/ ReadsTrail(p) \/ Proceeds(p) \/ Quits(p) \/ Breaks(p)
  BY <1>1, ReadDoes, TruncateDoes, FillDoes, AppendDoes, ExitDoes, KillDoes DEF Step
<1> QED  BY <1>2, AuditsKeeps, OpensKeeps, SavesKeeps, SaysKeeps, OpensAccountKeeps,
            FillsAccountKeeps, ResetsTrailKeeps, ReadsTrailKeeps, ProceedsKeeps, QuitsKeeps

-----------------------------------------------------------------------------
(***************************************************************************)
(* The theorem                                                             *)
(***************************************************************************)

LEMMA InitInv == Init => Inv
<1> SUFFICES ASSUME Init PROVE Inv
  OBVIOUS
<1>1. Running = {}
  BY DEF Init, Running
<1>2. ~Readable(files.state) /\ files.audit = << >> /\ printed = {} /\ order = "serial"
  BY DEF Init, Readable
<1>3. Shape
  BY <1>1, <1>2 DEF Init, Shape, Files, IsTrail
<1> QED  BY <1>1, <1>2, <1>3 DEF Inv, Apart, Books, PrintedIsChargedIsAudited, OneByOne

LEMMA NextInv == NewAccounts /\ Inv /\ [Next]_vars => Inv'
<1> SUFFICES ASSUME NewAccounts, Inv, [Next]_vars PROVE Inv'
  OBVIOUS
<1>1. ASSUME UNCHANGED <<files, procs, printed, order>>
      PROVE  Inv'
  <2>1. Running' = Running
    BY <1>1 DEF Running
  <2>2. Shape'
    <3>1. \A q \in Running' : IsProcess(procs'[q])
      BY <1>1, <2>1 DEF Inv, Shape
    <3>2. \A q \in Running' : IsProcess(procs[q])'
      BY <3>1
        DEF IsProcess, IsLaunch, IsInit, IsOther, IsTrail, Accounts, FreshStates, Elsewhere
    <3> QED  BY <1>1, <3>2 DEF Inv, Shape, IsTrail, Accounts, Readable
  <2>3. Apart'
    BY <1>1, <2>1, ApartStays DEF Inv, OrderStays
  <2>4. Books'
    <3>1. ASSUME NEW q \in Running'
          PROVE  /\ procs'[q].cmd = "launch" => Carries(procs[q])'
                 /\ procs'[q].cmd = "init" => Begins(procs[q])'
                 /\ procs'[q].cmd = "make-envelope" => Gathers(procs[q])'
      <4>1. procs'[q] = procs[q] /\ Running' \subseteq Running /\ q \in Running' /\ Books
        BY <1>1, <2>1 DEF Inv
      <4> QED  BY <1>1, <4>1, BooksStay DEF OrderStays
    <3> QED  BY <3>1 DEF Books
  <2>5. PrintedIsChargedIsAudited'
    BY <1>1 DEF Inv, PrintedIsChargedIsAudited, Audited, Charged, Readable, AuthKey, OneByOne
  <2> QED  BY <2>2, <2>3, <2>4, <2>5 DEF Inv
<1>2. CASE UNCHANGED vars
  BY <1>1, <1>2 DEF vars
<1>3. CASE Tick
  BY <1>1, <1>3 DEF Tick
<1>4. ASSUME NEW p \in Invocations, Run(p) \/ Step(p) \/ Kill(p)
      PROVE  Inv'
  <2>1. Step(p) \/ Kill(p) => p \in Running
    BY DEF Step, Read, Truncate, Fill, AppendAuditEvents, Exit, Kill, Doing, Running
  <2> QED  BY <1>4, <2>1, RunKeeps, StepKeeps
<1> QED  BY <1>2, <1>3, <1>4 DEF Next

(* What launch reports is charged to the state file, and what that file    *)
(* charges is on the trail, however many launches run, whatever they are   *)
(* asked, and wherever they are killed, if the state that an init starts   *)
(* from charges nothing: launch appends before it saves and saves before   *)
(* it reports (main.ts:997-1004).                                          *)
THEOREM PrintedIsChargedIsAuditedAlways ==
  NewAccounts => (Spec => []PrintedIsChargedIsAudited)
<1> SUFFICES ASSUME NewAccounts
             PROVE  Spec => []PrintedIsChargedIsAudited
  OBVIOUS
<1>1. Inv /\ [Next]_vars => Inv'
  BY NextInv
<1>2. Inv => PrintedIsChargedIsAudited
  BY DEF Inv
<1> QED  BY <1>1, <1>2, InitInv, PTL DEF Spec

-----------------------------------------------------------------------------
(***************************************************************************)
(* Trails in order                                                         *)
(***************************************************************************)

Fits(event, versions, t) ==
  /\ Line!WellFormedEvent(event) /\ ~Line!IsCheckpoint(event)
  /\ "policyId" \in DOMAIN event /\ event.policyId \in versions
  /\ event.timestamp \in Nat /\ event.timestamp <= t

(* Events of these policies, in the order of the clock.                    *)
Orderly(events, versions, t) ==
  /\ \A k \in DOMAIN events : Fits(events[k], versions, t)
  /\ \A j, k \in DOMAIN events : j < k => events[j].timestamp <= events[k].timestamp

LEMMA SameCount == \A S : Line!Cardinality(S) = Cardinality(S)
BY DEF Line!Cardinality, Cardinality

(* Such a trail misses an anchor, and may mix policies, and no more.       *)
LEMMA OrderlyVerifies ==
  ASSUME NEW events, NEW versions, NEW t, Orderly(events, versions, t)
  PROVE  LET verdict == Line!VerifyAudit(events)
             mixed   == Line!Cardinality(Line!PolicyIdsOf(events, Line!Checked(events))) > 1
         IN  /\ verdict.violations = {"NO_STATE_ANCHOR"}
                   \cup (IF mixed THEN {"MIXED_POLICY_ID"} ELSE {})
             /\ verdict.status = IF mixed THEN "invalid" ELSE "inconclusive"
             /\ Line!VerificationExitCode(verdict) = IF mixed THEN 1 ELSE 3
<1> DEFINE opts == [mode |-> "strict", requireStateAnchors |-> Undefined, expectedPolicyId |-> Undefined]
           places == Line!Checked(events)
           ids == Line!PolicyIdsOf(events, places)
           mixed == Line!Cardinality(ids) > 1
           codes == {"NO_STATE_ANCHOR"} \cup (IF mixed THEN {"MIXED_POLICY_ID"} ELSE {})
           In(code, condition) == IF condition THEN {code} ELSE {}
<1>1. places = DOMAIN events
  BY DEF Line!Checked, Orderly, Fits
<1>2. Line!GoesBack(events, places) = FALSE
  BY <1>1 DEF Line!GoesBack, Orderly, Fits
<1>3. Line!AuditCodes(events, opts) = codes
  <2>1. opts.mode = "strict" /\ opts.requireStateAnchors = Undefined /\ opts.expectedPolicyId = Undefined
    OBVIOUS
  <2> HIDE DEF opts, places, ids
  <2>2. Line!AuditCodes(events, opts) = UNION {
          In("MALFORMED_EVENT", Line!Checked(events) # DOMAIN events),
          In("NON_MONOTONIC_TIMESTAMP", Line!GoesBack(events, Line!Checked(events))),
          In("POLICY_ID_MISSING",
             opts.expectedPolicyId # Undefined
               /\ \E k \in Line!Checked(events) : ~Line!HasPolicyId(events[k])),
          In("POLICY_ID_MISMATCH",
             opts.expectedPolicyId # Undefined
               /\ \E p \in Line!PolicyIdsOf(events, Line!Checked(events)) : p # opts.expectedPolicyId),
          In("MIXED_POLICY_ID", Line!Cardinality(Line!PolicyIdsOf(events, Line!Checked(events))) > 1),
          In("NO_STATE_ANCHOR",
             (IF opts.requireStateAnchors = Undefined THEN opts.mode = "strict" ELSE opts.requireStateAnchors)
               /\ ~\E k \in Line!Checked(events) : Line!IsCheckpoint(events[k])) }
    BY Zenon DEF Line!AuditCodes
  <2>3. /\ (Line!Checked(events) # DOMAIN events) = FALSE
        /\ Line!GoesBack(events, Line!Checked(events)) = FALSE
        /\ (opts.expectedPolicyId # Undefined
               /\ \E k \in Line!Checked(events) : ~Line!HasPolicyId(events[k])) = FALSE
        /\ (opts.expectedPolicyId # Undefined
               /\ \E p \in Line!PolicyIdsOf(events, Line!Checked(events)) : p # opts.expectedPolicyId)
             = FALSE
    BY <1>1, <1>2, <2>1 DEF places, ids
  <2>4. ( (IF opts.requireStateAnchors = Undefined THEN opts.mode = "strict" ELSE opts.requireStateAnchors)
               /\ ~\E k \in Line!Checked(events) : Line!IsCheckpoint(events[k]) ) = TRUE
    BY <1>1, <2>1 DEF places, Orderly, Fits
  <2>5. Line!AuditCodes(events, opts) = UNION {
          In("MALFORMED_EVENT", FALSE), In("NON_MONOTONIC_TIMESTAMP", FALSE),
          In("POLICY_ID_MISSING", FALSE), In("POLICY_ID_MISMATCH", FALSE),
          In("MIXED_POLICY_ID", Line!Cardinality(Line!PolicyIdsOf(events, Line!Checked(events))) > 1),
          In("NO_STATE_ANCHOR", TRUE) }
    <3> HIDE DEF In
    <3> QED  BY <2>2, <2>3, <2>4, Zenon
  <2>6. \A code : In(code, FALSE) = {} /\ In(code, TRUE) = {code}
    OBVIOUS
  <2>7. In("MIXED_POLICY_ID", Line!Cardinality(Line!PolicyIdsOf(events, Line!Checked(events))) > 1)
          = IF mixed THEN {"MIXED_POLICY_ID"} ELSE {}
    BY Zenon DEF ids, places
  <2> HIDE DEF In, mixed
  <2> QED  BY <2>5, <2>6, <2>7
<1> HIDE DEF mixed
<1>4. Line!AuditStatus(codes) = IF mixed THEN "invalid" ELSE "inconclusive"
  BY DEF Line!AuditStatus
<1>5. PICK verdict : verdict = Line!VerifyAudit(events)
  OBVIOUS
<1>6. verdict.violations = codes /\ verdict.status = IF mixed THEN "invalid" ELSE "inconclusive"
  <2>1. verdict = Line!VerifyAuditEvents(events, opts)
    BY <1>5, Zenon DEF Line!VerifyAudit
  <2> HIDE DEF opts, codes
  <2>2. /\ verdict.status = Line!AuditStatus(Line!AuditCodes(events, opts))
        /\ verdict.violations = Line!AuditCodes(events, opts)
    BY <2>1 DEF Line!VerifyAuditEvents
  <2> QED  BY <1>3, <1>4, <2>2
<1>7. Line!VerificationExitCode(verdict) = IF mixed THEN 1 ELSE 3
  BY <1>6 DEF Line!VerificationExitCode
<1> QED  BY <1>5, <1>6, <1>7 DEF mixed, ids, places

(* Of one policy, it misses an anchor, and no more.                        *)
LEMMA OneVerifies ==
  ASSUME NEW events, NEW version, NEW t, Orderly(events, {version}, t)
  PROVE  LET verdict == Line!VerifyAudit(events)
         IN  /\ verdict.violations = {"NO_STATE_ANCHOR"}
             /\ verdict.status = "inconclusive"
             /\ Line!VerificationExitCode(verdict) = 3
<1> DEFINE places == Line!Checked(events)
           ids == Line!PolicyIdsOf(events, places)
<1>1. places = DOMAIN events
  BY DEF Line!Checked, Orderly, Fits
<1>2. ~(Line!Cardinality(ids) > 1)
  <2>1. ids \subseteq {version}
    BY <1>1 DEF Line!PolicyIdsOf, Orderly, Fits
  <2>2. ids = {} \/ ids = {version}
    BY <2>1
  <2>3. Cardinality(ids) \in {0, 1}
    BY <2>2, FS_EmptySet, FS_Singleton
  <2> QED  BY <2>3, SameCount
<1> QED  BY <1>2, OrderlyVerifies

(* The clock goes on.                                                      *)
LEMMA OrderlyLater ==
  ASSUME NEW events, NEW versions, NEW t \in Nat, NEW u \in Nat, t <= u, Orderly(events, versions, t)
  PROVE  Orderly(events, versions, u)
BY DEF Orderly, Fits

(* More policies allow more.                                               *)
LEMMA OrderlyWider ==
  ASSUME NEW events, NEW versions, NEW more, versions \subseteq more, NEW t,
         Orderly(events, versions, t)
  PROVE  Orderly(events, more, t)
BY DEF Orderly, Fits

(* The types of the events of a decision.                                  *)
Said == {"INTENT_RECEIVED", "DECISION", "AUTH_EMITTED"}

LEMMA FitsItsTime ==
  ASSUME NEW event, NEW versions, "policyId" \in DOMAIN event,
         event.policyId \in versions,
         event.timestamp \in Nat,
         Line!WellFormedEvent(event), ~Line!IsCheckpoint(event)
  PROVE  Fits(event, versions, event.timestamp)
BY DEF Fits

LEMMA EventFits ==
  ASSUME NEW i, i.nonce # "", i.timestamp \in Nat, NEW versions, NEW version \in versions,
         NEW type \in Said
  PROVE  /\ Fits(AuditEvent(type, i, version), versions, i.timestamp)
         /\ AuditEvent(type, i, version).timestamp = i.timestamp
<1> DEFINE own == Line!OwnFields[type]
           fields == {"type", "timestamp", "policyId"} \cup own
           event == AuditEvent(type, i, version)
<1>1. /\ own \in {{"intent_hash", "agent_id"}, {"intent_hash", "decision"},
                  {"intent_hash", "authorization_id"}}
      /\ type \in DOMAIN Line!OwnFields
  <2>1. CASE type = "INTENT_RECEIVED"
    BY <2>1 DEF Line!OwnFields
  <2>2. CASE type = "DECISION"
    BY <2>2 DEF Line!OwnFields
  <2>3. CASE type = "AUTH_EMITTED"
    BY <2>3 DEF Line!OwnFields
  <2> QED  BY <2>1, <2>2, <2>3 DEF Said
<1>2. event = [f \in fields |-> CASE f = "type"      -> type
                                  [] f = "timestamp" -> i.timestamp
                                  [] f = "policyId"  -> version
                                  [] f = "agent_id"  -> i.agent_id
                                  [] OTHER           -> i.nonce]
  BY Zenon DEF AuditEvent
<1> HIDE DEF own, event
<1>3. /\ DOMAIN event = fields
      /\ event["type"] = type /\ event["timestamp"] = i.timestamp /\ event["policyId"] = version
  BY <1>2
<1>4. \A f \in own \ {"agent_id", "decision", "execution_ref"} : event[f] = i.nonce
  BY <1>1, <1>2
<1>5. Line!Required(event) = own \ {"agent_id", "decision", "execution_ref"}
  <2>1. event.type = type
    BY <1>3
  <2> QED  BY <2>1, Zenon DEF Line!Required, own
<1>6. Line!WellFormedEvent(event)
  <2>1. \A f \in Line!Required(event) : event[f] # ""
    BY <1>4, <1>5
  <2>2. /\ "type" \in DOMAIN event /\ "timestamp" \in DOMAIN event
        /\ own \subseteq DOMAIN event /\ DOMAIN event \subseteq fields
    BY <1>3
  <2>3. event.type = type /\ event.timestamp \in Nat
    BY <1>3
  <2>4. type \in DOMAIN Line!OwnFields
    BY <1>1
  <2> QED  BY <2>1, <2>2, <2>3, <2>4, Zenon DEF Line!WellFormedEvent, own
<1>7. ~Line!IsCheckpoint(event)
  BY <1>3 DEF Line!IsCheckpoint, Said
<1>8. "policyId" \in DOMAIN event /\ event.policyId = version /\ event.timestamp = i.timestamp
  BY <1>3
<1>9. event.timestamp \in Nat
  BY <1>8, Zenon
<1>10. Fits(event, versions, event.timestamp)
  BY <1>6, <1>7, <1>8, <1>9, FitsItsTime, Zenon
<1> QED  BY <1>8, <1>10, Zenon DEF event

LEMMA OutcomesSay ==
  \A types \in Outcomes : \A k \in DOMAIN types :
    types[k] \in Said
<1> SUFFICES ASSUME NEW types \in Outcomes, NEW k \in DOMAIN types
             PROVE  types[k] \in Said
  OBVIOUS
<1>1. CASE types = << >>
  BY <1>1 DEF Said
<1>2. CASE types = <<"INTENT_RECEIVED">>
  BY <1>2 DEF Said
<1>3. CASE types = <<"INTENT_RECEIVED", "DECISION">>
  BY <1>3 DEF Said
<1>4. CASE types = <<"INTENT_RECEIVED", "DECISION", "AUTH_EMITTED">>
  BY <1>4 DEF Said
<1> QED  BY <1>1, <1>2, <1>3, <1>4 DEF Outcomes

(* The places of two trails, one behind the other.                         *)
LEMMA TrailParts ==
  ASSUME NEW s, IsTrail(s), NEW t, IsTrail(t)
  PROVE  /\ \A k \in DOMAIN (s \o t) : k \in DOMAIN s => (s \o t)[k] = s[k]
         /\ \A k \in DOMAIN (s \o t) :
              k \notin DOMAIN s => \E j \in DOMAIN t : (s \o t)[k] = t[j]
         /\ \A j, k \in DOMAIN (s \o t) : j < k /\ k \in DOMAIN s => j \in DOMAIN s
<1>1. PICK both : both = s \o t
  OBVIOUS
<1>2. PICK m : m = Len(s)
  OBVIOUS
<1>3. PICK n : n = Len(t)
  OBVIOUS
<1>4. /\ m \in Nat /\ n \in Nat
      /\ DOMAIN s = 1 .. m /\ DOMAIN t = 1 .. n /\ DOMAIN both = 1 .. m + n
      /\ \A k \in 1 .. m : both[k] = s[k]
      /\ \A k \in 1 .. n : both[m + k] = t[k]
  <2>1. m \in Nat /\ n \in Nat
    BY <1>2, <1>3, TrailsJoin, Zenon
  <2>2. DOMAIN s = 1 .. m /\ DOMAIN t = 1 .. n
    BY <1>2, <1>3, TrailsJoin, Zenon
  <2>3. DOMAIN both = 1 .. m + n
    BY <1>1, <1>2, <1>3, TrailsJoin, Zenon
  <2>4. \A k \in 1 .. m : both[k] = s[k]
    BY <1>1, <1>2, TrailsJoin, Zenon
  <2>5. \A k \in 1 .. n : both[m + k] = t[k]
    <3>1. \A k \in 1 .. Len(t) : (s \o t)[Len(s) + k] = t[k]
      BY TrailsJoin
    <3> QED  BY <1>1, <1>2, <1>3, <3>1
  <2> QED  BY <2>1, <2>2, <2>3, <2>4, <2>5
<1>5. ASSUME NEW k \in DOMAIN both, k \notin DOMAIN s
      PROVE  \E j \in DOMAIN t : both[k] = t[j]
  <2>1. k - m \in 1 .. n /\ k = m + (k - m)
    BY <1>4, <1>5
  <2>2. PICK j \in 1 .. n : k = m + j
    BY <2>1
  <2> QED  BY <1>4, <2>2
<1>6. \A j, k \in DOMAIN both : j < k /\ k \in DOMAIN s => j \in DOMAIN s
  BY <1>4
<1> QED  BY <1>1, <1>4, <1>5, <1>6

(* What a decision says goes behind what was said before.                  *)
LEMMA OrderlyMore ==
  ASSUME NEW s, IsTrail(s), NEW i, i.nonce # "", i.timestamp \in Nat,
         NEW types \in Outcomes, NEW versions, NEW version \in versions,
         Orderly(s, versions, i.timestamp)
  PROVE  Orderly(s \o Events(i, version, types), versions, i.timestamp)
<1>1. PICK t : t = Events(i, version, types)
  OBVIOUS
<1>2. PICK both : both = s \o t
  OBVIOUS
<1>3. IsTrail(t) /\ DOMAIN t = DOMAIN types
      /\ \A k \in DOMAIN t : t[k] = AuditEvent(types[k], i, version)
  BY <1>1, EventsAreATrail
<1>4. \A k \in DOMAIN t : Fits(t[k], versions, i.timestamp) /\ t[k].timestamp = i.timestamp
  <2> TAKE k \in DOMAIN t
  <2>1. types[k] \in Said
    <3>1. k \in DOMAIN types
      BY <1>3
    <3> QED  BY <3>1, OutcomesSay
  <2>2. t[k] = AuditEvent(types[k], i, version)
    BY <1>3
  <2>3. PICK type \in Said : type = types[k]
    BY <2>1
  <2>4. /\ Fits(AuditEvent(type, i, version), versions, i.timestamp)
        /\ AuditEvent(type, i, version).timestamp = i.timestamp
    BY EventFits, Zenon
  <2> QED  BY <2>2, <2>3, <2>4, Zenon
<1>5. \A k \in DOMAIN both :
        \/ k \in DOMAIN s /\ both[k] = s[k]
        \/ /\ k \notin DOMAIN s
           /\ Fits(both[k], versions, i.timestamp) /\ both[k].timestamp = i.timestamp
  <2> TAKE k \in DOMAIN both
  <2>1. CASE k \in DOMAIN s
    BY <1>2, <1>3, <2>1, TrailParts, Zenon
  <2>2. CASE k \notin DOMAIN s
    <3>1. PICK j \in DOMAIN t : both[k] = t[j]
      <4>1. k \in DOMAIN (s \o t) /\ IsTrail(t)
        BY <1>2, <1>3
      <4>2. \E j \in DOMAIN t : (s \o t)[k] = t[j]
        BY <2>2, <4>1, TrailParts
      <4> QED  BY <1>2, <4>2
    <3> QED  BY <1>4, <2>2, <3>1, Zenon
  <2> QED  BY <2>1, <2>2
<1>6. \A j, k \in DOMAIN both : j < k /\ k \in DOMAIN s => j \in DOMAIN s
  BY <1>2, <1>3, TrailParts, Zenon
<1>7. \A k \in DOMAIN both : Fits(both[k], versions, i.timestamp)
  BY <1>5 DEF Orderly
<1>8. ASSUME NEW j \in DOMAIN both, NEW k \in DOMAIN both, j < k
      PROVE  both[j].timestamp <= both[k].timestamp
  <2>1. CASE k \in DOMAIN s
    <3>1. j \in DOMAIN s
      BY <1>6, <1>8, <2>1
    <3>2. both[j] = s[j] /\ both[k] = s[k]
      BY <1>5, <2>1, <3>1
    <3> QED  BY <1>8, <2>1, <3>1, <3>2 DEF Orderly
  <2>2. CASE k \notin DOMAIN s
    <3>1. both[k].timestamp = i.timestamp
      BY <1>5, <2>2
    <3>2. Fits(both[j], versions, i.timestamp)
      BY <1>7
    <3> QED  BY <3>1, <3>2 DEF Fits
  <2> QED  BY <2>1, <2>2
<1> QED  BY <1>1, <1>2, <1>7, <1>8 DEF Orderly

-----------------------------------------------------------------------------
(***************************************************************************)
(* What launches one by one keep: one policy, one order                    *)
(***************************************************************************)

Versions == {s.policy_version : s \in FreshStates}

(* Of which policies the trail tells: of one, or of any, after an init that*)
(* was cut short.                                                          *)
Choices == IF order = "cut" THEN {Versions} ELSE {{version} : version \in Versions}

(* What a process is about to put in a file agrees with what is there.     *)
Keeps(P, versions, audit, t) ==
  /\ P.cmd = "launch" =>
       /\ P.steps \in {ToAudit, ToSave, ToFill} => P.holds.state.policy_version \in versions
       /\ P.steps \in {ToAudit, ToDeny} => Orderly(audit \o P.holds.audit, versions, t)
  /\ P.cmd = "make-envelope" /\ "init" \notin P.beside =>
       /\ P.steps \in {ToRead, ToWrite("envelope")} => P.holds.state.policy_version \in versions
       /\ P.steps = ToWrite("envelope") =>
            IsTrail(P.holds.audit) /\ Orderly(P.holds.audit, versions, t)

AtReset(P) == P.cmd = "init" /\ P.steps = ToReset

OneVersion(versions) ==
  /\ Orderly(files.audit, versions, now)
  /\ Readable(files.state) => \/ files.state.policy_version \in versions
                              \/ \E p \in Running : AtReset(procs[p])
  /\ \A p \in Running : Keeps(procs[p], versions, files.audit, now)

Serial == OneByOne => \E versions \in Choices : OneVersion(versions)

SerialInv == Inv /\ now \in Nat /\ Serial

(* What it is for the next state.                                          *)
LEMMA OneVersionNext ==
  ASSUME NEW versions, Orderly(files'.audit, versions, now'),
         Readable(files'.state) => \/ files'.state.policy_version \in versions
                                   \/ \E p \in Running' : AtReset(procs'[p]),
         \A p \in Running' : Keeps(procs'[p], versions, files'.audit, now')
  PROVE  OneVersion(versions)'
<1>1. (\E p \in Running' : AtReset(procs'[p])) <=> (\E p \in Running : AtReset(procs[p]))'
  BY DEF AtReset, ToReset
<1>2. \A p \in Running' : Keeps(procs[p], versions, files.audit, now)'
  BY Zenon DEF Keeps, IsTrail, Orderly, Fits, ToAudit, ToSave, ToFill, ToDeny, ToRead, ToWrite
<1>3. Orderly(files.audit, versions, now)'
  BY DEF Orderly, Fits
<1> QED  BY <1>1, <1>2, <1>3 DEF OneVersion, Readable

(* After a step of a process that goes on.                                 *)
LEMMA SerialMoves ==
  ASSUME Inv, NEW p \in Running, NEW left, NEW holds, Moves(p, left, holds),
         NEW N, N = [ cmd |-> procs[p].cmd, steps |-> left, holds |-> holds,
                      auth |-> procs[p].auth, beside |-> procs[p].beside ],
         NEW state, NEW audit, Leaves(state, audit), OneByOne, now' = now,
         NEW versions, OneVersion(versions),
         ~AtReset(procs[p]),
         Readable(state) => state = files.state \/ state.policy_version \in versions \/ AtReset(N),
         Orderly(audit, versions, now),
         procs[p].cmd = "launch" \/ audit = files.audit,
         Keeps(N, versions, audit, now)
  PROVE  OneVersion(versions)'
<1>1. /\ Running' = Running
      /\ procs'[p] = N
      /\ \A q \in Running \ {p} : procs'[q] = procs[q]
  BY MovesKeeps DEF Inv
<1>2. files'.state = state /\ files'.audit = audit
  BY DEF Leaves
<1>3. \A q \in Running' : Keeps(procs'[q], versions, audit, now)
  <2> TAKE q \in Running'
  <2>1. CASE q = p
    BY <1>1, <2>1
  <2>2. CASE q # p
    <3>1. procs'[q] = procs[q] /\ q \in Running /\ Keeps(procs[q], versions, files.audit, now)
      BY <1>1, <2>2 DEF OneVersion
    <3>2. CASE audit = files.audit
      BY <3>1, <3>2
    <3>3. CASE procs[p].cmd = "launch"
      <4>1. procs[q].cmd # "launch"
        BY <2>2, <3>1, <3>3 DEF Inv, Apart
      <4> QED  BY <3>1, <4>1, Zenon DEF Keeps
    <3> QED  BY <3>2, <3>3
  <2> QED  BY <2>1, <2>2
<1>4. Readable(state) => \/ state.policy_version \in versions
                         \/ \E q \in Running' : AtReset(procs'[q])
  <2>1. AtReset(N) => \E q \in Running' : AtReset(procs'[q])
    BY <1>1
  <2>2. (\E q \in Running : AtReset(procs[q])) => \E q \in Running' : AtReset(procs'[q])
    BY <1>1
  <2> QED  BY <2>1, <2>2 DEF OneVersion
<1> QED  BY <1>2, <1>3, <1>4, OneVersionNext

-----------------------------------------------------------------------------
(***************************************************************************)
(* Every step keeps the order                                              *)
(***************************************************************************)

(* The policies that the trail tells of stay.                              *)
LEMMA SerialStays ==
  ASSUME order' = order, NEW versions \in Choices, OneVersion(versions)'
  PROVE  Serial'
<1>1. Choices' = Choices
  BY DEF Choices, Versions, FreshStates
<1> QED  BY <1>1 DEF Serial

(* What launch appends fits what is there.                                 *)
LEMMA AuditsSerial ==
  ASSUME SerialInv, NEW p \in Running, Audits(p), now' = now
  PROVE  Serial'
<1> SUFFICES ASSUME OneByOne' PROVE Serial'
  BY DEF Serial
<1>1. PICK P : P = procs[p]
  OBVIOUS
<1>2. PICK left : left = IF P.steps = ToAudit THEN ToSave ELSE ToReport
  OBVIOUS
<1>3. PICK audit : audit = files.audit \o P.holds.audit
  OBVIOUS
<1>4. PICK N : N = [cmd |-> P.cmd, steps |-> left, holds |-> P.holds, auth |-> P.auth,
                    beside |-> P.beside]
  OBVIOUS
<1>5. /\ P.cmd = "launch" /\ P.steps \in {ToAudit, ToDeny}
      /\ Moves(p, left, P.holds) /\ Leaves(files.state, audit)
      /\ OneByOne /\ order' = order
  BY <1>1, <1>2, <1>3, Zenon DEF Audits, OneByOne
<1>6. PICK versions \in Choices : OneVersion(versions)
  BY <1>5 DEF SerialInv, Serial
<1>7. Keeps(P, versions, files.audit, now)
  BY <1>1, <1>6 DEF OneVersion
<1>8. Orderly(audit, versions, now)
  BY <1>3, <1>5, <1>7 DEF Keeps
<1>9. N.cmd = P.cmd /\ N.steps = left /\ N.holds = P.holds
  BY <1>4
<1>10. left \notin {ToAudit, ToDeny, ToFill} /\ (left = ToSave => P.steps = ToAudit)
  BY <1>2, PlacesDiffer
<1>11. Keeps(N, versions, audit, now)
  <2>1. N.steps \in {ToAudit, ToSave, ToFill} => N.holds.state.policy_version \in versions
    BY <1>5, <1>7, <1>9, <1>10 DEF Keeps
  <2> QED  BY <1>5, <1>9, <1>10, <2>1 DEF Keeps
<1>12. ~AtReset(procs[p])
  BY <1>1, <1>5 DEF AtReset
<1>13. OneVersion(versions)'
  BY <1>1, <1>4, <1>5, <1>6, <1>8, <1>11, <1>12, SerialMoves DEF SerialInv
<1> QED  BY <1>5, <1>6, <1>13, SerialStays

LEMMA OpensSerial ==
  ASSUME SerialInv, NEW p \in Running, Opens(p), now' = now
  PROVE  Serial'
<1> SUFFICES ASSUME OneByOne' PROVE Serial'
  BY DEF Serial
<1>1. PICK P : P = procs[p]
  OBVIOUS
<1>2. PICK N : N = [cmd |-> P.cmd, steps |-> ToFill, holds |-> P.holds, auth |-> P.auth,
                    beside |-> P.beside]
  OBVIOUS
<1>3. /\ P.cmd = "launch" /\ P.steps = ToSave
      /\ Moves(p, ToFill, P.holds) /\ Leaves(Torn, files.audit)
      /\ OneByOne /\ order' = order
  BY <1>1, Zenon DEF Opens, OneByOne
<1>4. PICK versions \in Choices : OneVersion(versions)
  BY <1>3 DEF SerialInv, Serial
<1>5. Keeps(P, versions, files.audit, now) /\ Orderly(files.audit, versions, now)
  BY <1>1, <1>4 DEF OneVersion
<1>6. N.cmd = P.cmd /\ N.steps = ToFill /\ N.holds = P.holds
  BY <1>2
<1>7. Keeps(N, versions, files.audit, now)
  BY <1>3, <1>5, <1>6, PlacesDiffer DEF Keeps
<1>8. ~AtReset(procs[p]) /\ ~Readable(Torn)
  BY <1>1, <1>3 DEF AtReset, Readable
<1>9. OneVersion(versions)'
  BY <1>1, <1>2, <1>3, <1>4, <1>5, <1>7, <1>8, SerialMoves DEF SerialInv
<1> QED  BY <1>3, <1>4, <1>9, SerialStays

LEMMA SavesSerial ==
  ASSUME SerialInv, NEW p \in Running, Saves(p), now' = now
  PROVE  Serial'
<1> SUFFICES ASSUME OneByOne' PROVE Serial'
  BY DEF Serial
<1>1. PICK P : P = procs[p]
  OBVIOUS
<1>2. PICK N : N = [cmd |-> P.cmd, steps |-> ToReport, holds |-> P.holds, auth |-> P.auth,
                    beside |-> P.beside]
  OBVIOUS
<1>3. /\ P.cmd = "launch" /\ P.steps = ToFill
      /\ Moves(p, ToReport, P.holds) /\ Leaves(P.holds.state, files.audit)
      /\ OneByOne /\ order' = order
  BY <1>1, Zenon DEF Saves, OneByOne
<1>4. PICK versions \in Choices : OneVersion(versions)
  BY <1>3 DEF SerialInv, Serial
<1>5. Keeps(P, versions, files.audit, now) /\ Orderly(files.audit, versions, now)
  BY <1>1, <1>4 DEF OneVersion
<1>6. N.cmd = P.cmd /\ N.steps = ToReport /\ N.holds = P.holds
  BY <1>2
<1>7. Keeps(N, versions, files.audit, now)
  BY <1>3, <1>6, PlacesDiffer DEF Keeps
<1>8. ~AtReset(procs[p]) /\ P.holds.state.policy_version \in versions
  BY <1>1, <1>3, <1>5 DEF AtReset, Keeps
<1>9. OneVersion(versions)'
  BY <1>1, <1>2, <1>3, <1>4, <1>5, <1>7, <1>8, SerialMoves DEF SerialInv
<1> QED  BY <1>3, <1>4, <1>9, SerialStays

(* An init that is at work has nobody write beside it.                     *)
LEMMA OpensAccountSerial ==
  ASSUME SerialInv, NEW p \in Running, OpensAccount(p) \/ FillsAccount(p), now' = now
  PROVE  Serial'
<1> SUFFICES ASSUME OneByOne' PROVE Serial'
  BY DEF Serial
<1>1. PICK P : P = procs[p]
  OBVIOUS
<1>2. /\ P.cmd = "init" /\ P.steps \in {ToInit, ToBegin} /\ OneByOne /\ order' = order
      /\ \E left, state :
           /\ Moves(p, left, P.holds) /\ Leaves(state, files.audit)
           /\ Readable(state) => left = ToReset
  BY <1>1 DEF OpensAccount, FillsAccount, Readable, OneByOne
<1>3. PICK left, state : /\ Moves(p, left, P.holds) /\ Leaves(state, files.audit)
                         /\ Readable(state) => left = ToReset
  BY <1>2
<1>4. PICK N : N = [cmd |-> P.cmd, steps |-> left, holds |-> P.holds, auth |-> P.auth,
                    beside |-> P.beside]
  OBVIOUS
<1>5. PICK versions \in Choices : OneVersion(versions)
  BY <1>2 DEF SerialInv, Serial
<1>6. Orderly(files.audit, versions, now)
  BY <1>5 DEF OneVersion
<1>7. N.cmd = "init" /\ N.steps = left
  BY <1>2, <1>4
<1>8. Keeps(N, versions, files.audit, now)
  BY <1>7 DEF Keeps
<1>9. ~AtReset(procs[p]) /\ (Readable(state) => AtReset(N))
  BY <1>1, <1>2, <1>3, <1>7, PlacesDiffer DEF AtReset
<1>10. OneVersion(versions)'
  BY <1>1, <1>3, <1>4, <1>5, <1>6, <1>2, <1>8, <1>9, SerialMoves DEF SerialInv
<1> QED  BY <1>2, <1>5, <1>10, SerialStays

LEMMA ReadsTrailSerial ==
  ASSUME SerialInv, NEW p \in Running, ReadsTrail(p), now' = now
  PROVE  Serial'
<1> SUFFICES ASSUME OneByOne' PROVE Serial'
  BY DEF Serial
<1>1. PICK P : P = procs[p]
  OBVIOUS
<1>2. PICK holds : holds = BothRead(p)
  OBVIOUS
<1>3. PICK N : N = [cmd |-> P.cmd, steps |-> ToWrite("envelope"), holds |-> holds,
                    auth |-> P.auth, beside |-> P.beside]
  OBVIOUS
<1>4. /\ P.cmd = "make-envelope" /\ P.steps = ToRead
      /\ Moves(p, ToWrite("envelope"), holds) /\ Leaves(files.state, files.audit)
      /\ OneByOne /\ order' = order
  BY <1>1, <1>2, Zenon DEF ReadsTrail, OneByOne
<1>5. IsOther(P)
  BY <1>1, <1>4 DEF SerialInv, Inv, Shape, IsProcess, IsLaunch, IsInit
<1>6. PICK versions \in Choices : OneVersion(versions)
  BY <1>4 DEF SerialInv, Serial
<1>7. /\ Keeps(P, versions, files.audit, now) /\ Orderly(files.audit, versions, now)
      /\ Readable(files.state) => files.state.policy_version \in versions
                                    \/ \E q \in Running : AtReset(procs[q])
  BY <1>1, <1>6 DEF OneVersion
<1>8. N.cmd = P.cmd /\ N.steps = ToWrite("envelope") /\ N.holds = holds /\ N.beside = P.beside
  BY <1>3
<1>9. holds.audit = files.audit /\ holds.state = P.holds.state
  <2>1. "state" \in DOMAIN P.holds
    BY <1>4, <1>5 DEF IsOther
  <2> QED  BY <1>1, <1>2, <2>1 DEF BothRead
<1>10. Keeps(N, versions, files.audit, now)
  <2>1. "init" \notin N.beside => P.holds.state.policy_version \in versions
    BY <1>4, <1>7, <1>8 DEF Keeps
  <2>2. IsTrail(files.audit)
    BY DEF SerialInv, Inv, Shape
  <2> QED  BY <1>4, <1>7, <1>8, <1>9, <2>1, <2>2 DEF Keeps
<1>11. ~AtReset(procs[p])
  BY <1>1, <1>4 DEF AtReset
<1>12. OneVersion(versions)'
  BY <1>1, <1>3, <1>4, <1>6, <1>7, <1>10, <1>11, SerialMoves DEF SerialInv
<1> QED  BY <1>4, <1>6, <1>12, SerialStays

LEMMA ProceedsSerial ==
  ASSUME SerialInv, NEW p \in Running, Proceeds(p), now' = now
  PROVE  Serial'
<1> SUFFICES ASSUME OneByOne' PROVE Serial'
  BY DEF Serial
<1>1. PICK P : P = procs[p]
  OBVIOUS
<1>2. /\ P.cmd \notin {"launch", "init"}
      /\ Leaves(files.state, files.audit)
      /\ OneByOne /\ order' = order
  BY <1>1 DEF Proceeds, OneByOne
<1>3. PICK left : /\ left = ToReport \/ \E file \in Files : left = ToFinish(file)
                  /\ Moves(p, left, P.holds)
  BY <1>1, Zenon DEF Proceeds
<1>4. PICK N : N = [cmd |-> P.cmd, steps |-> left, holds |-> P.holds,
                    auth |-> P.auth, beside |-> P.beside]
  OBVIOUS
<1>5. PICK versions \in Choices : OneVersion(versions)
  BY <1>2 DEF SerialInv, Serial
<1>6. Orderly(files.audit, versions, now)
  BY <1>5 DEF OneVersion
<1>7. N.cmd = P.cmd /\ N.steps = left
  BY <1>4
<1>8. N.steps \notin {ToRead, ToWrite("envelope")}
  <2>1. ToReport \notin {ToRead, ToWrite("envelope")}
    BY PlacesDiffer
  <2>2. \A file : ToFinish(file) \notin {ToRead, ToWrite("envelope")}
    BY PlacesDiffer
  <2> QED  BY <1>3, <1>7, <2>1, <2>2
<1>9. Keeps(N, versions, files.audit, now)
  BY <1>2, <1>7, <1>8 DEF Keeps
<1>10. ~AtReset(procs[p])
  BY <1>1, <1>2 DEF AtReset
<1>11. OneVersion(versions)'
  BY <1>1, <1>2, <1>3, <1>4, <1>5, <1>6, <1>9, <1>10, SerialMoves DEF SerialInv
<1> QED  BY <1>2, <1>5, <1>11, SerialStays

(* An init that is about to empty the trail finds the state it wrote.      *)
LEMMA ResetFinds ==
  ASSUME SerialInv, NEW p \in Running, AtReset(procs[p]),
         OneByOne \/ NoWriterBeside(procs[p])
  PROVE  files.state.policy_version \in Versions
<1>1. PICK P : P = procs[p]
  OBVIOUS
<1>2. P.cmd = "init" /\ P.steps = ToReset
  BY <1>1 DEF AtReset
<1>3. NoWriterBeside(P)
  BY <1>1, <1>2 DEF SerialInv, Inv, Apart, OneByOne
<1>4. IsInit(P)
  BY <1>1, <1>2 DEF SerialInv, Inv, Shape, IsProcess, IsLaunch, IsOther
<1>5. files.state = P.holds.state /\ P.holds.state \in FreshStates
  BY <1>1, <1>2, <1>3, <1>4 DEF SerialInv, Inv, Books, Begins, IsInit
<1> QED  BY <1>5 DEF Versions

(* Whoever is gone leaves the files as they are,                           *)
LEMMA EndsSerial ==
  ASSUME SerialInv, NEW p \in Running, Says(p) \/ Quits(p), now' = now
  PROVE  Serial'
<1> SUFFICES ASSUME OneByOne' PROVE Serial'
  BY DEF Serial
<1>1. /\ Ends(p) /\ Leaves(files.state, files.audit) /\ OneByOne /\ order' = order
      /\ AtReset(procs[p]) => order = "cut"
  BY PlacesDiffer DEF Says, Quits, AtReset, OneByOne
<1>2. /\ Running' = Running \ {p}
      /\ \A q \in Running' : procs'[q] = procs[q]
  BY <1>1, EndsKeeps DEF SerialInv, Inv
<1>3. files'.state = files.state /\ files'.audit = files.audit
  BY <1>1 DEF Leaves
<1>4. PICK versions \in Choices : OneVersion(versions)
  BY <1>1 DEF SerialInv, Serial
<1>5. AtReset(procs[p]) => files.state.policy_version \in versions
  <2> SUFFICES ASSUME AtReset(procs[p])
               PROVE  files.state.policy_version \in versions
    OBVIOUS
  <2>1. versions = Versions
    BY <1>1, <1>4 DEF Choices
  <2> QED  BY <1>1, <2>1, ResetFinds
<1>6. OneVersion(versions)'
  <2>1. Orderly(files'.audit, versions, now')
    BY <1>3, <1>4 DEF OneVersion
  <2>2. ASSUME NEW q \in Running' PROVE Keeps(procs'[q], versions, files'.audit, now')
    BY <1>2, <1>3, <1>4 DEF OneVersion
  <2>3. Readable(files'.state) => \/ files'.state.policy_version \in versions
                                  \/ \E q \in Running' : AtReset(procs'[q])
    BY <1>2, <1>3, <1>4, <1>5 DEF OneVersion
  <2> QED  BY <2>1, <2>2, <2>3, OneVersionNext
<1> QED  BY <1>1, <1>4, <1>6, SerialStays

(* and an init that is cut short a state of a policy of its own.           *)
LEMMA BreaksSerial ==
  ASSUME SerialInv, NEW p \in Running, Breaks(p), now' = now
  PROVE  Serial'
<1>1. /\ Ends(p) /\ Leaves(files.state, files.audit) /\ order = "serial" /\ order' = "cut"
      /\ AtReset(procs[p])
  BY DEF Breaks, AtReset
<1>2. /\ Running' = Running \ {p}
      /\ \A q \in Running' : procs'[q] = procs[q]
  BY <1>1, EndsKeeps DEF SerialInv, Inv
<1>3. files'.state = files.state /\ files'.audit = files.audit
  BY <1>1 DEF Leaves
<1>4. PICK versions \in Choices : OneVersion(versions)
  BY <1>1 DEF SerialInv, Serial, OneByOne
<1>5. versions \subseteq Versions
  BY <1>1, <1>4 DEF Choices
<1>6. \A events : Orderly(events, versions, now) => Orderly(events, Versions, now)
  BY <1>5, OrderlyWider
<1>7. OneVersion(Versions)'
  <2>1. Orderly(files'.audit, Versions, now')
    BY <1>3, <1>4, <1>6 DEF OneVersion
  <2>2. ASSUME NEW q \in Running' PROVE Keeps(procs'[q], Versions, files'.audit, now')
    <3>1. Keeps(procs[q], versions, files.audit, now)
      BY <1>2, <1>4 DEF OneVersion
    <3>2. Keeps(procs[q], Versions, files.audit, now)
      BY <1>5, <1>6, <3>1 DEF Keeps
    <3> QED  BY <1>2, <1>3, <3>2
  <2>3. files'.state.policy_version \in Versions
    BY <1>1, <1>3, ResetFinds DEF OneByOne
  <2> QED  BY <2>1, <2>2, <2>3, OneVersionNext
<1>8. Versions' = Versions /\ Choices' = {Versions}
  BY <1>1 DEF Choices, Versions, FreshStates
<1> QED  BY <1>7, <1>8 DEF Serial

(* An init that nothing disturbed starts the order of its own policy.       *)
LEMMA ResetsTrailSerial ==
  ASSUME SerialInv, NEW p \in Running, ResetsTrail(p), now' = now
  PROVE  Serial'
<1> SUFFICES ASSUME OneByOne' PROVE Serial'
  BY DEF Serial
<1>1. PICK P : P = procs[p]
  OBVIOUS
<1>2. PICK N : N = [cmd |-> P.cmd, steps |-> ToReport, holds |-> P.holds, auth |-> P.auth,
                    beside |-> P.beside]
  OBVIOUS
<1>3. /\ P.cmd = "init" /\ P.steps = ToReset
      /\ Moves(p, ToReport, P.holds) /\ Leaves(files.state, << >>)
      /\ order' = IF NoWriterBeside(P) THEN "serial" ELSE order
  BY <1>1, Zenon DEF ResetsTrail
<1>4. NoWriterBeside(P) /\ order' = "serial"
  BY <1>1, <1>3 DEF SerialInv, Inv, Apart, OneByOne
<1>5. PICK version \in Versions : files.state.policy_version = version
  BY <1>1, <1>3, <1>4, ResetFinds DEF AtReset
<1>6. PICK versions : versions = {version}
  OBVIOUS
<1>7. /\ Running' = Running
      /\ procs'[p] = N
      /\ \A q \in Running \ {p} : procs'[q] = procs[q]
  BY <1>1, <1>2, <1>3, MovesKeeps DEF SerialInv, Inv
<1>8. \A q \in Running \ {p} : procs[q].cmd # "launch" /\ "init" \in procs[q].beside
  <2> TAKE q \in Running \ {p}
  <2>1. procs[q].cmd \in P.beside /\ P.cmd \in procs[q].beside
    BY <1>1 DEF SerialInv, Inv, Apart
  <2> QED  BY <1>3, <1>4, <2>1 DEF NoWriterBeside, Writes
<1>9. files'.state = files.state /\ files'.audit = << >>
  BY <1>3 DEF Leaves
<1>10. OneVersion(versions)'
  <2>1. Orderly(files'.audit, versions, now')
    BY <1>9 DEF Orderly
  <2>2. N.cmd = "init"
    BY <1>2, <1>3
  <2>3. \A q \in Running' : Keeps(procs'[q], versions, files'.audit, now')
    BY <1>7, <1>8, <2>2 DEF Keeps
  <2> QED  BY <1>5, <1>6, <1>9, <2>1, <2>3, OneVersionNext
<1>11. versions \in Choices'
  <2>1. Versions' = Versions
    BY DEF Versions, FreshStates
  <2> QED  BY <1>4, <1>5, <1>6, <2>1 DEF Choices
<1> QED  BY <1>10, <1>11 DEF Serial

(* A command that starts, and what is to be shown of it.                   *)
LEMMA StartSerial ==
  ASSUME SerialInv, NEW p \in Invocations, procs[p] = Idle, OneByOne',
         NEW cmd, cmd # "none",
         NEW steps, NEW holds, NEW auth, Start(p, cmd, steps, holds, auth),
         NEW N, N = [ cmd |-> cmd, steps |-> steps, holds |-> holds, auth |-> auth,
                      beside |-> {procs[r].cmd : r \in Running} ],
         \A versions \in Choices :
           OneByOne /\ OneVersion(versions) => Keeps(N, versions, files.audit, now)
  PROVE  Serial'
<1>1. /\ Running' = Running \cup {p}
      /\ procs'[p] = N
      /\ \A q \in Running :
              procs'[q] = [ cmd |-> procs[q].cmd, steps |-> procs[q].steps,
                            holds |-> procs[q].holds, auth |-> procs[q].auth,
                            beside |-> procs[q].beside \cup {cmd} ]
      /\ order' = OrderWith(cmd)
      /\ UNCHANGED <<files, printed>>
  <2>1. Shape
    BY DEF SerialInv, Inv
  <2> QED  BY <2>1, StartDoes
<1>2. \A q \in Running : /\ procs'[q].cmd = procs[q].cmd
                         /\ procs'[q].steps = procs[q].steps
                         /\ procs'[q].holds = procs[q].holds
                         /\ procs'[q].beside = procs[q].beside \cup {cmd}
  <2> TAKE q \in Running
  <2>1. PICK old, new, more : /\ old = procs[q] /\ new = procs'[q]
                              /\ more = procs[q].beside \cup {cmd}
    OBVIOUS
  <2>2. new = [ cmd |-> old.cmd, steps |-> old.steps, holds |-> old.holds, auth |-> old.auth,
                beside |-> more ]
    BY <1>1, <2>1, Zenon
  <2> QED  BY <2>1, <2>2
<1>3. OneByOne /\ order' = order
  BY <1>1 DEF OrderWith, OneByOne
<1>4. PICK versions \in Choices : OneVersion(versions)
  BY <1>3 DEF SerialInv, Serial
<1>5. now' = now
  BY DEF Start
<1>6. \A q \in Running' : Keeps(procs'[q], versions, files'.audit, now')
  <2> TAKE q \in Running'
  <2>1. CASE q = p
    <3>1. Keeps(N, versions, files.audit, now)
      BY <1>3, <1>4
    <3> QED  BY <1>1, <1>5, <2>1, <3>1
  <2>2. CASE q \in Running
    <3>1. Keeps(procs[q], versions, files.audit, now)
      BY <1>4, <2>2 DEF OneVersion
    <3>2. PICK P : P = procs[q]
      OBVIOUS
    <3>3. PICK M : M = procs'[q]
      OBVIOUS
    <3>4. /\ M.cmd = P.cmd /\ M.steps = P.steps /\ M.holds = P.holds
          /\ "init" \notin M.beside => "init" \notin P.beside
      BY <1>2, <2>2, <3>2, <3>3
    <3>5. Keeps(M, versions, files.audit, now)
      BY <3>1, <3>2, <3>4, Zenon DEF Keeps
    <3> QED  BY <1>1, <1>5, <3>3, <3>5
  <2> QED  BY <1>1, <2>1, <2>2
<1>7. Orderly(files'.audit, versions, now')
  BY <1>1, <1>4, <1>5 DEF OneVersion
<1>8. Readable(files'.state) => \/ files'.state.policy_version \in versions
                                \/ \E q \in Running' : AtReset(procs'[q])
  BY <1>1, <1>2, <1>4 DEF OneVersion, AtReset
<1>9. OneVersion(versions)'
  BY <1>6, <1>7, <1>8, OneVersionNext
<1> QED  BY <1>3, <1>4, <1>9, SerialStays

(* What neither decides nor gathers.                                       *)
LEMMA StartOtherSerial ==
  ASSUME SerialInv, NEW p \in Invocations, procs[p] = Idle, OneByOne',
         NEW cmd, cmd \notin {"none", "launch", "make-envelope"},
         NEW steps, NEW holds, NEW auth, Start(p, cmd, steps, holds, auth)
  PROVE  Serial'
<1>1. PICK N : N = [ cmd |-> cmd, steps |-> steps, holds |-> holds, auth |-> auth,
                     beside |-> {procs[r].cmd : r \in Running} ]
  OBVIOUS
<1>2. N.cmd = cmd
  BY <1>1
<1>3. \A versions : Keeps(N, versions, files.audit, now)
  BY <1>2 DEF Keeps
<1> QED  BY <1>1, <1>3, StartSerial

(* make-envelope, beside no init, reads a state of these policies.         *)
LEMMA MakeEnvelopeSerial ==
  ASSUME SerialInv, NEW p \in Invocations, procs[p] = Idle, OneByOne',
         NEW parsed, MakeEnvelope(p, parsed)
  PROVE  Serial'
<1>1. EnvelopeReads[1] = "state" /\ EnvelopeReads[2] = "audit"
  BY DEF EnvelopeReads
<1>2. PICK holds : holds = [f \in {"state"} |-> files[f]]
  OBVIOUS
<1>3. /\ Readable(files.state)
      /\ Start(p, "make-envelope", Do("read", "audit") \o WriteFile("envelope") \o Report,
               holds, Undefined)
  BY <1>1, <1>2 DEF MakeEnvelope
<1>4. Start(p, "make-envelope", ToRead, holds, Undefined)
  BY <1>3, StepsToDo
<1>5. holds.state = files.state
  BY <1>2
<1>6. PICK others : others = {procs[r].cmd : r \in Running}
  OBVIOUS
<1>7. PICK N : N = [ cmd |-> "make-envelope", steps |-> ToRead, holds |-> holds,
                     auth |-> Undefined, beside |-> others ]
  OBVIOUS
<1>8. /\ N.cmd = "make-envelope" /\ N.steps = ToRead /\ N.holds = holds /\ N.beside = others
  BY <1>7
<1>9. ASSUME NEW versions \in Choices, OneVersion(versions)
      PROVE  Keeps(N, versions, files.audit, now)
  <2>1. "init" \notin others => files.state.policy_version \in versions
    BY <1>3, <1>6, <1>9 DEF OneVersion, AtReset
  <2>2. ToRead # ToWrite("envelope")
    BY PlacesDiffer
  <2> QED  BY <1>5, <1>8, <2>1, <2>2 DEF Keeps
<1> QED  BY <1>4, <1>6, <1>7, <1>9, StartSerial

(* launch decides on the state that is there, at the time that it is.      *)
LEMMA LaunchSerial ==
  ASSUME SerialInv, NEW p \in Invocations, procs[p] = Idle, OneByOne',
         NEW parsed, Launch(p, parsed)
  PROVE  Serial'
<1>1. PICK dryRun : dryRun = (Line!Arg(parsed, 2) = "dry-run")
  OBVIOUS
<1>2. PICK i : i = IntentOf(parsed, IF dryRun THEN 3 ELSE 2)
  OBVIOUS
<1>3. PICK out : out = Decide(i, files.state)
  OBVIOUS
<1>4. PICK holds : holds = [audit |-> Events(i, files.state.policy_version, out.events),
                            state |-> out.next]
  OBVIOUS
<1>5. PICK auth : auth = IF out.decision = "ALLOW" THEN AuthKey(i.nonce, i.timestamp) ELSE Undefined
  OBVIOUS
<1>6. PICK steps : steps = LaunchSteps(out.decision, dryRun)
  OBVIOUS
<1>7. /\ i # Undefined
      /\ Readable(files.state)
      /\ Start(p, IF dryRun THEN "dry-run" ELSE "launch", steps, holds, auth)
  BY <1>1, <1>2, <1>3, <1>4, <1>5, <1>6, Zenon DEF Launch
<1>8. CASE dryRun
  <2>1. Start(p, "dry-run", steps, holds, auth)
    BY <1>7, <1>8
  <2> QED  BY <2>1, StartOtherSerial
<1>9. CASE ~dryRun
  <2>1. Start(p, "launch", steps, holds, auth)
    BY <1>7, <1>9
  <2>2. i.nonce # "" /\ i.timestamp = now
    <3>1. PICK word, offset : /\ word = Line!Arg(parsed, offset)
                              /\ offset = IF dryRun THEN 3 ELSE 2
      OBVIOUS
    <3>2. /\ i = [ type |-> "EXECUTE", agent_id |-> parsed.flags["--agent"],
                   nonce |-> parsed.flags["--nonce"], timestamp |-> now,
                   request |-> RequestOf[word], authorization_id |-> Undefined ]
          /\ \A flag \in {"--agent", "--nonce"} : Line!Given(parsed, flag)
      BY <1>2, <1>7, <3>1, Zenon DEF IntentOf
    <3>3. parsed.flags["--nonce"] # ""
      BY <3>2 DEF Line!Given
    <3> QED  BY <3>2, <3>3
  <2>3. order' = OrderWith("launch")
    BY <2>1 DEF Start
  <2>4. \A q \in Running : ~AtReset(procs[q])
    BY <2>3 DEF OrderWith, Writes, AtReset, OneByOne
  <2>5. PICK N : N = [ cmd |-> "launch", steps |-> steps, holds |-> holds, auth |-> auth,
                       beside |-> {procs[r].cmd : r \in Running} ]
    OBVIOUS
  <2>6. N.cmd = "launch" /\ N.holds = holds
    BY <2>5
  <2>7. ASSUME NEW versions \in Choices, OneVersion(versions)
        PROVE  Keeps(N, versions, files.audit, now)
    <3>1. files.state.policy_version \in versions /\ Orderly(files.audit, versions, now)
      BY <1>7, <2>4, <2>7 DEF OneVersion
    <3>2. out.next.policy_version = files.state.policy_version /\ out.events \in Outcomes
      BY <1>3, DecisionKeepsVersion
    <3>3. PICK audit : audit = Events(i, files.state.policy_version, out.events)
      OBVIOUS
    <3>4. holds.state.policy_version \in versions /\ holds.audit = audit
      BY <1>4, <3>1, <3>2, <3>3
    <3>5. Orderly(files.audit \o audit, versions, now)
      <4>1. IsTrail(files.audit) /\ now \in Nat
        BY DEF SerialInv, Inv, Shape
      <4> QED  BY <2>2, <3>1, <3>2, <3>3, <4>1, OrderlyMore
    <3> QED  BY <2>6, <3>4, <3>5 DEF Keeps
  <2> QED  BY <2>1, <2>5, <2>7, StartSerial
<1> QED  BY <1>8, <1>9

LEMMA RunSerial ==
  ASSUME SerialInv, NEW p \in Invocations, Run(p)
  PROVE  Serial'
<1> SUFFICES ASSUME OneByOne' PROVE Serial'
  BY DEF Serial
<1>1. procs[p] = Idle
  BY DEF Run
<1>2. PICK parsed :
        \/ Launch(p, parsed) \/ AuthCreate(p, parsed)
        \/ InitCommand(p, parsed) \/ ExamplesInit(p, parsed)
        \/ Build(p, parsed) \/ MakeEnvelope(p, parsed)
  BY Zenon DEF Run
<1>3. ASSUME AuthCreate(p, parsed) \/ InitCommand(p, parsed) \/ ExamplesInit(p, parsed)
               \/ Build(p, parsed)
      PROVE  Serial'
  <2>1. CASE AuthCreate(p, parsed)
    <3>1. PICK steps, holds, auth : Start(p, "auth create", steps, holds, auth)
      BY <2>1, Zenon DEF AuthCreate
    <3> QED  BY <1>1, <3>1, StartOtherSerial
  <2>2. CASE InitCommand(p, parsed) \/ ExamplesInit(p, parsed)
    <3>1. PICK steps, holds, auth : Start(p, "init", steps, holds, auth)
      BY <2>2, Zenon DEF InitCommand, ExamplesInit
    <3> QED  BY <1>1, <3>1, StartOtherSerial
  <2>3. CASE Build(p, parsed)
    <3>1. PICK steps, holds, auth : Start(p, "build", steps, holds, auth)
      BY <2>3, Zenon DEF Build
    <3> QED  BY <1>1, <3>1, StartOtherSerial
  <2> QED  BY <1>3, <2>1, <2>2, <2>3
<1> QED  BY <1>1, <1>2, <1>3, LaunchSerial, MakeEnvelopeSerial

LEMMA StepSerial ==
  ASSUME SerialInv, NEW p \in Running, Step(p) \/ Kill(p)
  PROVE  Serial'
<1>1. Shape
  BY DEF SerialInv, Inv
<1>2. \/ Audits(p) \/ Opens(p) \/ Saves(p) \/ Says(p) \/ OpensAccount(p) \/ FillsAccount(p)
      \/ ResetsTrail(p) \/ ReadsTrail(p) \/ Proceeds(p) \/ Quits(p) \/ Breaks(p)
  BY <1>1, ReadDoes, TruncateDoes, FillDoes, AppendDoes, ExitDoes, KillDoes DEF Step
<1>3. now' = now
  BY DEF Step, Read, Truncate, Fill, AppendAuditEvents, Exit, Kill
<1> QED  BY <1>2, <1>3, AuditsSerial, OpensSerial, SavesSerial, OpensAccountSerial,
            ResetsTrailSerial, ReadsTrailSerial, ProceedsSerial, EndsSerial, BreaksSerial

(* Nothing moves but the clock.                                            *)
LEMMA ClockSerial ==
  ASSUME SerialInv, UNCHANGED <<files, procs, printed, order>>, now' \in Nat, now <= now'
  PROVE  Serial'
<1> SUFFICES ASSUME OneByOne' PROVE Serial'
  BY DEF Serial
<1>1. PICK versions \in Choices : OneVersion(versions)
  BY DEF SerialInv, Serial, OneByOne
<1>2. \A events : Orderly(events, versions, now) => Orderly(events, versions, now')
  BY OrderlyLater DEF SerialInv
<1>3. Running' = Running
  BY DEF Running
<1>4. \A q \in Running' : Keeps(procs'[q], versions, files'.audit, now')
  <2> TAKE q \in Running'
  <2>1. Keeps(procs[q], versions, files.audit, now)
    BY <1>1, <1>3 DEF OneVersion
  <2>2. Keeps(procs[q], versions, files.audit, now')
    BY <1>2, <2>1, Zenon DEF Keeps
  <2> QED  BY <2>2
<1>5. Orderly(files'.audit, versions, now')
  BY <1>1, <1>2 DEF OneVersion
<1>6. Readable(files'.state) => \/ files'.state.policy_version \in versions
                                \/ \E q \in Running' : AtReset(procs'[q])
  BY <1>1, <1>3 DEF OneVersion
<1>7. OneVersion(versions)'
  BY <1>4, <1>5, <1>6, OneVersionNext
<1> QED  BY <1>7, SerialStays

-----------------------------------------------------------------------------
(***************************************************************************)
(* The theorem                                                             *)
(***************************************************************************)

LEMMA InitSerial == Init => SerialInv
<1> SUFFICES ASSUME Init PROVE SerialInv
  OBVIOUS
<1>1. Running = {}
  BY DEF Init, Running
<1>2. ~Readable(files.state) /\ files.audit = << >> /\ now = 1
  BY DEF Init, Readable
<1>3. \A versions : OneVersion(versions)
  BY <1>1, <1>2 DEF OneVersion, Orderly
<1>4. {SampleState.policy_version} \in Choices
  BY DEF Versions, FreshStates, Choices, Init
<1> QED  BY <1>2, <1>3, <1>4, InitInv DEF SerialInv, Serial

LEMMA NextSerial == NewAccounts /\ SerialInv /\ [Next]_vars => SerialInv'
<1> SUFFICES ASSUME NewAccounts, SerialInv, [Next]_vars PROVE SerialInv'
  OBVIOUS
<1>1. Inv'
  BY NextInv DEF SerialInv
<1>2. now \in Nat
  BY DEF SerialInv
<1>3. CASE UNCHANGED vars
  BY <1>1, <1>2, <1>3, ClockSerial DEF vars, SerialInv
<1>4. CASE Tick
  BY <1>1, <1>2, <1>4, ClockSerial DEF Tick, SerialInv
<1>5. ASSUME NEW p \in Invocations, Run(p) \/ Step(p) \/ Kill(p)
      PROVE  SerialInv'
  <2>1. Step(p) \/ Kill(p) => p \in Running
    BY DEF Step, Read, Truncate, Fill, AppendAuditEvents, Exit, Kill, Doing, Running
  <2>2. Serial'
    BY <1>5, <2>1, RunSerial, StepSerial
  <2>3. now' = now
    <3>1. Run(p) => now' = now
      BY DEF Run, Launch, AuthCreate, InitCommand, ExamplesInit, Build, MakeEnvelope, Start
    <3>2. Step(p) \/ Kill(p) => now' = now
      BY DEF Step, Read, Truncate, Fill, AppendAuditEvents, Exit, Kill
    <3> QED  BY <1>5, <3>1, <3>2
  <2> QED  BY <1>1, <1>2, <2>2, <2>3 DEF SerialInv
<1> QED  BY <1>3, <1>4, <1>5 DEF Next

(* The trail of launches that come one after the other is in the order of  *)
(* the clock and misses an anchor, whoever is killed and wherever, however *)
(* far the clock goes, so that verify-audit exits with 3 (main.ts:997-1004)*)
(* unless it mixes two policies, and exits with 1; and it mixes them only  *)
(* after an init was killed between its two writes (main.ts:890).          *)
THEOREM SerialTrailVerifiesAlways ==
  NewAccounts => (Spec => []SerialTrailVerifies)
<1> SUFFICES ASSUME NewAccounts
             PROVE  Spec => []SerialTrailVerifies
  OBVIOUS
<1>1. SerialInv /\ [Next]_vars => SerialInv'
  BY NextSerial
<1>2. SerialInv => SerialTrailVerifies
  <2> SUFFICES ASSUME SerialInv, OneByOne
               PROVE  LET verdict == Line!VerifyAudit(files.audit)
                          mixed   == "MIXED_POLICY_ID" \in verdict.violations
                      IN  /\ verdict.violations \ {"MIXED_POLICY_ID"} = {"NO_STATE_ANCHOR"}
                          /\ mixed => order = "cut"
                          /\ Line!VerificationExitCode(verdict) = IF mixed THEN 1 ELSE 3
    BY Zenon DEF SerialTrailVerifies
  <2>1. PICK versions \in Choices : OneVersion(versions)
    BY DEF SerialInv, Serial
  <2>2. Orderly(files.audit, versions, now)
    BY <2>1 DEF OneVersion
  <2>3. CASE order = "cut"
    <3>1. PICK verdict, mixed :
            /\ verdict = Line!VerifyAudit(files.audit)
            /\ mixed = (Line!Cardinality(Line!PolicyIdsOf(files.audit, Line!Checked(files.audit))) > 1)
      OBVIOUS
    <3>2. /\ verdict.violations = {"NO_STATE_ANCHOR"} \cup (IF mixed THEN {"MIXED_POLICY_ID"} ELSE {})
          /\ Line!VerificationExitCode(verdict) = IF mixed THEN 1 ELSE 3
      BY <2>2, <3>1, OrderlyVerifies, Zenon
    <3>3. /\ ("MIXED_POLICY_ID" \in verdict.violations) <=> mixed
          /\ verdict.violations \ {"MIXED_POLICY_ID"} = {"NO_STATE_ANCHOR"}
      BY <3>2
    <3>4. Line!VerificationExitCode(verdict)
            = IF "MIXED_POLICY_ID" \in verdict.violations THEN 1 ELSE 3
      BY <3>2, <3>3
    <3> QED  BY <2>3, <3>1, <3>3, <3>4
  <2>4. CASE order # "cut"
    <3>1. PICK version : versions = {version}
      BY <2>1, <2>4 DEF Choices
    <3>2. PICK verdict : verdict = Line!VerifyAudit(files.audit)
      OBVIOUS
    <3>3. verdict.violations = {"NO_STATE_ANCHOR"} /\ Line!VerificationExitCode(verdict) = 3
      BY <2>2, <3>1, <3>2, OneVerifies, Zenon
    <3> QED  BY <3>2, <3>3
  <2> QED  BY <2>3, <2>4
<1> QED  BY <1>1, <1>2, InitSerial, PTL DEF Spec

-----------------------------------------------------------------------------
(***************************************************************************)
(* What make-envelope puts together                                        *)
(***************************************************************************)

(* What a policyId is.                                                     *)
Named(version) == version \notin {"", Undefined}

LEMMA TrailHasEvent ==
  ASSUME NEW events, IsTrail(events), events # << >>
  PROVE  \E k \in DOMAIN events : TRUE
<1>1. PICK S : events \in Seq(S)
  BY DEF IsTrail
<1>2. PICK n \in Nat : n = Len(events) /\ DOMAIN events = 1 .. n
  BY <1>1, LenProperties
<1>3. n # 0
  BY <1>1, <1>2, EmptySeq
<1> QED  BY <1>2, <1>3

(* Any event of a trail in order names the policy.                         *)
LEMMA OrderlyNames ==
  ASSUME NEW events, \E k \in DOMAIN events : TRUE,
         NEW version, Named(version), NEW t, Orderly(events, {version}, t)
  PROVE  Line!VerifyAudit(events).policyId = version
<1> DEFINE opts == [mode |-> "strict", requireStateAnchors |-> Undefined, expectedPolicyId |-> Undefined]
           ids == Line!PolicyIdsOf(events, Line!Checked(events))
<1>2. Line!Checked(events) = DOMAIN events
  BY DEF Line!Checked, Orderly, Fits
<1>3. \A k \in DOMAIN events : Line!HasPolicyId(events[k]) /\ events[k].policyId = version
  <2> TAKE k \in DOMAIN events
  <2>1. Fits(events[k], {version}, t)
    BY DEF Orderly
  <2>2. "policyId" \in DOMAIN events[k] /\ events[k].policyId = version
    BY <2>1 DEF Fits
  <2>3. version # ""
    BY DEF Named
  <2> QED  BY <2>2, <2>3, Zenon DEF Line!HasPolicyId
<1>4. ids = {version}
  BY <1>2, <1>3 DEF Line!PolicyIdsOf
<1>5. Line!Cardinality(ids) = 1
  BY <1>4, SameCount, FS_Singleton
<1>6. PICK verdict : verdict = Line!VerifyAudit(events)
  OBVIOUS
<1>7. verdict = Line!VerifyAuditEvents(events, opts)
  BY <1>6, Zenon DEF Line!VerifyAudit
<1> HIDE DEF opts
<1>8. verdict.policyId = IF Line!Cardinality(ids) = 1 THEN CHOOSE p \in ids : TRUE ELSE Undefined
  BY <1>7 DEF Line!VerifyAuditEvents
<1>9. (CHOOSE p \in ids : TRUE) = version
  BY <1>4
<1> QED  BY <1>5, <1>6, <1>8, <1>9

(* What is not there is no artifact.                                       *)
Artifacts == \A state, events : Undefined \notin {SnapshotOf(state), EnvelopeOf(state, events)}

LEMMA SnapshotVerifies ==
  ASSUME Artifacts, NEW state, state.policy_version # Undefined
  PROVE  /\ Line!VerifySnapshot(SnapshotOf(state), Undefined).violations = {}
         /\ Line!VerifySnapshot(SnapshotOf(state), Undefined).policyId = state.policy_version
         /\ Line!VerifySnapshotFile(SnapshotOf(state)).status = "ok"
<1>1. PICK snapshot : snapshot = SnapshotOf(state)
  OBVIOUS
<1>2. snapshot # Undefined
  BY <1>1 DEF Artifacts
<1>3. snapshot.formatVersion = 1 /\ snapshot.policyId = state.policy_version
  BY <1>1 DEF SnapshotOf
<1>4. Line!CanonicalCodec(snapshot) = snapshot
  BY <1>2, <1>3 DEF Line!CanonicalCodec
<1>5. Line!SnapshotCodes(snapshot, Undefined) = {}
  BY <1>2, <1>3, <1>4 DEF Line!SnapshotCodes, Line!When
<1>6. PICK verdict : verdict = Line!VerifySnapshot(snapshot, Undefined)
  OBVIOUS
<1>7. verdict.violations = {} /\ verdict.policyId = state.policy_version
  BY <1>2, <1>3, <1>4, <1>5, <1>6 DEF Line!VerifySnapshot
<1>8. Line!VerifySnapshotFile(snapshot).status = "ok"
  BY <1>6, <1>7 DEF Line!VerifySnapshotFile
<1> QED  BY <1>1, <1>6, <1>7, <1>8

LEMMA EnvelopeVerifies ==
  ASSUME Artifacts, NEW state, NEW version, state.policy_version = version,
         Named(version),
         NEW events, \E k \in DOMAIN events : TRUE, NEW t, Orderly(events, {version}, t)
  PROVE  Line!VerifyEnvelopeFile(EnvelopeOf(state, events)).status = "inconclusive"
<1>1. PICK envelope : envelope = EnvelopeOf(state, events)
  OBVIOUS
<1>2. envelope # Undefined
  BY <1>1 DEF Artifacts
<1>3. /\ envelope.snapshot = SnapshotOf(state) /\ envelope.events = events
      /\ envelope.issuer = Undefined /\ envelope.alg = Undefined
      /\ envelope.kid = Undefined /\ envelope.signature = Undefined
  BY <1>1 DEF EnvelopeOf
<1>4. PICK opts : opts = [ mode |-> "strict", expectedPolicyId |-> Undefined,
                           expectedIssuer |-> Undefined, requireSignatureVerification |-> FALSE,
                           trustedKeySets |-> << >>, now |-> 0 ]
  OBVIOUS
<1>5. /\ opts.mode = "strict" /\ opts.expectedPolicyId = Undefined
      /\ opts.expectedIssuer = Undefined /\ opts.requireSignatureVerification = FALSE
  BY <1>4
<1>6. Line!WellFormedEnvelope(envelope)
  <2>1. \A k \in DOMAIN events : Line!WellFormedEvent(events[k])
    BY DEF Orderly, Fits
  <2> QED  BY <1>2, <1>3, <2>1, Zenon DEF Line!WellFormedEnvelope
<1>7. PICK snapshot : snapshot = Line!VerifySnapshot(envelope.snapshot, opts.expectedPolicyId)
  OBVIOUS
<1>8. snapshot.violations = {} /\ snapshot.policyId = version
  <2>1. version # Undefined
    BY DEF Named
  <2>2. snapshot = Line!VerifySnapshot(SnapshotOf(state), Undefined)
    BY <1>3, <1>5, <1>7
  <2> QED  BY <2>1, <2>2, SnapshotVerifies
<1>9. PICK audit : audit = Line!VerifyAuditEvents(envelope.events,
                      [ mode |-> opts.mode, requireStateAnchors |-> Undefined,
                        expectedPolicyId |-> opts.expectedPolicyId ])
  OBVIOUS
<1>10. audit = Line!VerifyAudit(events)
  BY <1>3, <1>5, <1>9, Zenon DEF Line!VerifyAudit
<1>11. audit.violations = {"NO_STATE_ANCHOR"} /\ audit.policyId = version
  BY <1>10, OneVerifies, OrderlyNames
<1>12. Line!PolicyCodes(snapshot.policyId, audit.policyId) = {}
  BY <1>8, <1>11 DEF Line!PolicyCodes, Line!When, Named
<1>13. Line!EnvelopeSignatureCodes(envelope, opts) = {}
  <2>1. /\ Line!When("ENVELOPE_SIGNATURE_INVALID", opts.expectedIssuer \notin {Undefined, envelope.issuer}) = {}
        /\ Line!When("ENVELOPE_SIGNATURE_MISSING",
                     opts.requireSignatureVerification /\ envelope.signature = Undefined) = {}
    BY <1>3, <1>5 DEF Line!When
  <2>2. PICK other : other = 
          IF envelope.signature = Undefined THEN {}
          ELSE IF opts.trustedKeySets = << >> THEN {"ENVELOPE_TRUST_MISSING"}
          ELSE Line!SignatureCodes(envelope, "OXDEAI_ENVELOPE_V1", Line!EnvelopeSigningPayload(envelope),
                 opts.trustedKeySets, opts.now, [ unknown  |-> "ENVELOPE_KID_UNKNOWN",
                                                  inactive |-> "ENVELOPE_KEY_INACTIVE",
                                                  invalid  |-> "ENVELOPE_SIGNATURE_INVALID" ])
    OBVIOUS
  <2>3. other = {}
    BY <1>3, <2>2
  <2>4. Line!EnvelopeSignatureCodes(envelope, opts) = UNION {
          Line!When("ENVELOPE_SIGNATURE_INVALID", opts.expectedIssuer \notin {Undefined, envelope.issuer}),
          Line!When("ENVELOPE_SIGNATURE_MISSING",
                     opts.requireSignatureVerification /\ envelope.signature = Undefined),
          other }
    BY <2>2, Zenon DEF Line!EnvelopeSignatureCodes
  <2>5. Line!EnvelopeSignatureCodes(envelope, opts) = UNION {{}, {}, {}}
    BY <2>1, <2>3, <2>4, Zenon
  <2> QED  BY <2>5
<1>14. PICK codes : codes = UNION { Line!EnvelopeSignatureCodes(envelope, opts),
                       snapshot.violations, audit.violations,
                       Line!PolicyCodes(snapshot.policyId, audit.policyId) }
  OBVIOUS
<1>15. codes = {"NO_STATE_ANCHOR"}
  BY <1>8, <1>11, <1>12, <1>13, <1>14
<1>16. Line!VerifyEnvelope(envelope, opts) = [status |-> Line!AuditStatus(codes), violations |-> codes]
  BY <1>6, <1>7, <1>9, <1>14, Zenon DEF Line!VerifyEnvelope
<1>17. Line!VerifyEnvelope(envelope, opts).status = "inconclusive"
  <2>1. Line!AuditStatus({"NO_STATE_ANCHOR"}) = "inconclusive"
    BY DEF Line!AuditStatus
  <2> QED  BY <1>15, <1>16, <2>1
<1>18. Line!VerifyEnvelopeFile(envelope) = Line!VerifyEnvelope(envelope, opts)
  BY <1>4, Zenon DEF Line!VerifyEnvelopeFile
<1> QED  BY <1>1, <1>17, <1>18

LEMMA ThreeStatuses ==
  \A a, b, c : {<<a, b, c>>[k].status : k \in DOMAIN <<a, b, c>>} = {a.status, b.status, c.status}
<1> TAKE a, b, c
<1>1. PICK results : results = <<a, b, c>>
  OBVIOUS
<1>2. DOMAIN results = {1, 2, 3} /\ results[1] = a /\ results[2] = b /\ results[3] = c
  BY <1>1
<1>3. {results[k].status : k \in {1, 2, 3}} = {a.status, b.status, c.status}
  BY <1>2
<1> QED  BY <1>1, <1>2, <1>3

LEMMA AllVerify ==
  ASSUME Artifacts, NEW state, NEW version, state.policy_version = version,
         Named(version),
         NEW events, \E k \in DOMAIN events : TRUE, NEW t, Orderly(events, {version}, t),
         NEW audit, Orderly(audit, {version}, t)
  PROVE  Line!VerifyAll(SnapshotOf(state), audit, EnvelopeOf(state, events)) = 3
<1>1. PICK a : a = Line!VerifySnapshotFile(SnapshotOf(state))
  OBVIOUS
<1>2. PICK b : b = Line!VerifyAudit(audit)
  OBVIOUS
<1>3. PICK c : c = Line!VerifyEnvelopeFile(EnvelopeOf(state, events))
  OBVIOUS
<1>4. a.status = "ok" /\ b.status = "inconclusive" /\ c.status = "inconclusive"
  BY <1>1, <1>2, <1>3, SnapshotVerifies, OneVerifies, EnvelopeVerifies DEF Named
<1>5. Line!VerifyAll(SnapshotOf(state), audit, EnvelopeOf(state, events))
        = Line!AggregateVerificationExit(<<a, b, c>>)
  BY <1>1, <1>2, <1>3, Zenon DEF Line!VerifyAll
<1>6. {<<a, b, c>>[k].status : k \in DOMAIN <<a, b, c>>} = {"ok", "inconclusive"}
  <2>1. {a.status, b.status, c.status} = {"ok", "inconclusive"}
    BY <1>4
  <2> QED  BY <2>1, ThreeStatuses, Zenon
<1> QED  BY <1>5, <1>6 DEF Line!AggregateVerificationExit

(* However launches write beside it, what make-envelope puts together is a *)
(* state and a trail that tells of all it charges, as it reads the state   *)
(* first; and after launches that come one after the other nothing that    *)
(* verify all looks at is invalid (main.ts:737, 930).                      *)
THEOREM EnvelopeIsAuditedAlways ==
  NewAccounts /\ NamedPolicies /\ Artifacts => (Spec => []EnvelopeIsAudited)
<1> SUFFICES ASSUME NewAccounts, NamedPolicies, Artifacts
             PROVE  Spec => []EnvelopeIsAudited
  OBVIOUS
<1>1. SerialInv /\ [Next]_vars => SerialInv'
  BY NextSerial
<1>2. SerialInv => EnvelopeIsAudited
  <2> SUFFICES ASSUME SerialInv, NEW p \in Running, EnvelopeAtHand(p), order # "disturbed",
                      "init" \notin procs[p].beside
               PROVE  LET holds == procs[p].holds
                      IN  /\ Charged(holds.state) \subseteq Audited(holds.audit)
                          /\ order = "serial" /\ holds.audit # << >> =>
                               Line!VerifyAll(SnapshotOf(holds.state), files.audit,
                                              EnvelopeOf(holds.state, holds.audit)) = 3
    BY Zenon DEF EnvelopeIsAudited
  <2>1. PICK P : P = procs[p]
    OBVIOUS
  <2>2. P.cmd = "make-envelope" /\ P.steps[1].do = "truncate"
    BY <2>1 DEF EnvelopeAtHand
  <2>3. P.steps = ToWrite("envelope")
    <3>1. P.steps \in {ToRead, ToWrite("envelope"), ToFinish("envelope"), ToReport}
      BY <2>1, <2>2 DEF SerialInv, Inv, Shape, IsProcess, IsLaunch, IsInit, IsOther
    <3>2. /\ Reads("audit").do = "read" /\ Fills("envelope").do = "fill" /\ Reports.do = "report"
      BY DEF Reads, Fills, Reports
    <3> QED  BY <2>2, <3>1, <3>2, StepsTail
  <2>4. Charged(P.holds.state) \subseteq Audited(P.holds.audit)
    BY <2>1, <2>2, <2>3 DEF SerialInv, Inv, Books, Gathers
  <2>5. ASSUME order = "serial", P.holds.audit # << >>
        PROVE  Line!VerifyAll(SnapshotOf(P.holds.state), files.audit,
                              EnvelopeOf(P.holds.state, P.holds.audit)) = 3
    <3>1. PICK version \in Versions : OneVersion({version})
      BY <2>5 DEF SerialInv, Serial, OneByOne, Choices
    <3>2. Named(version)
      BY DEF Versions, NamedPolicies, Named
    <3>3. Orderly(files.audit, {version}, now) /\ Keeps(P, {version}, files.audit, now)
      BY <2>1, <3>1 DEF OneVersion
    <3>4. /\ P.holds.state.policy_version = version
          /\ IsTrail(P.holds.audit) /\ Orderly(P.holds.audit, {version}, now)
      BY <2>1, <2>2, <2>3, <3>3 DEF Keeps
    <3>5. \E k \in DOMAIN P.holds.audit : TRUE
      BY <2>5, <3>4, TrailHasEvent
    <3> QED  BY <3>2, <3>3, <3>4, <3>5, AllVerify
  <2> QED  BY <2>1, <2>4, <2>5
<1> QED  BY <1>1, <1>2, InitSerial, PTL DEF Spec
==================================================================================
