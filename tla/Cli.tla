----------------------------------- MODULE Cli -----------------------------------
(***************************************************************************)
(* Invocations of the command line tool (packages/cli/src/main.ts and      *)
(* store.ts) that share one state file and one audit trail: each is a      *)
(* process that reads files, decides, and then writes in several steps,    *)
(* while others run, and any may be killed between two of its steps.       *)
(*                                                                         *)
(* writeFile empties a file before it fills it.  appendFile is one write.  *)
(* Two that fill one file at once may leave a mixture of the two, which is *)
(* left out: a file holds what the last one filled it with.                *)
(* Commands that change no file (state, audit, inspect, the verification   *)
(* commands of CommandLine.tla) are no actions.  All invocations have the  *)
(* same OXDEAI_AUTH_TTL_SECONDS, so a policyId is a policy version.        *)
(***************************************************************************)
EXTENDS PolicyModules

CONSTANTS
  Torn,           (* the content of a file that is cut off: it parses as nothing *)
  Invocations,    (* processes                                             *)
  CommandLines,   (* the argument lists they are started with              *)
  RequestOf,      (* the payload that a positional argument of launch says *)
  PolicyFiles,    (* the states that init may be given; Torn: one it refuses *)
  SampleState,    (* what examples init writes                             *)
  MaxNow, MaxRuns (* bounds: the clock, the commands started               *)

Engine(version) == INSTANCE PolicyPipeline WITH PolicyVersion <- version, CanSign <- TRUE
Line == INSTANCE CommandLine WITH Absent <- Undefined

VARIABLES
  files,    (* state, audit, snapshot, envelope, authorization             *)
  procs,    (* what every process is about to do                           *)
  printed,  (* the authorizations launch reported since the last init      *)
  order,    (* how the writers went: serial, cut, shared, disturbed        *)
  now,      (* seconds                                                     *)
  runs

vars == <<files, procs, printed, order, now, runs>>

-----------------------------------------------------------------------------

Idle == [cmd |-> "none", steps |-> << >>, holds |-> << >>, auth |-> Undefined, beside |-> {}]

Running == {p \in Invocations : procs[p] # Idle}

Readable(content) == content \notin {Undefined, Torn}

(* What an authorization is known by, in the state, an event or a printout.*)
AuthKey(nonce, timestamp) == [nonce |-> nonce, timestamp |-> timestamp]

AuditEvent(type, i, version) ==
  LET fields == {"type", "timestamp", "policyId"} \cup Line!OwnFields[type]
  IN  [f \in fields |-> CASE f = "type"      -> type
                          [] f = "timestamp" -> i.timestamp
                          [] f = "policyId"  -> version
                          [] f = "agent_id"  -> i.agent_id
                          [] OTHER           -> i.nonce]

Events(i, version, types) == [k \in DOMAIN types |-> AuditEvent(types[k], i, version)]

SnapshotOf(state) ==
  [ formatVersion |-> 1, engineVersion |-> "1.0.0", policyId |-> state.policy_version,
    modules |-> state ]

EnvelopeOf(state, events) ==
  [ snapshot |-> SnapshotOf(state), events |-> events,
    issuer |-> Undefined, alg |-> Undefined, kid |-> Undefined, signature |-> Undefined ]

-----------------------------------------------------------------------------
(***************************************************************************)
(* The commands: what is read and decided at once, and the steps left      *)
(***************************************************************************)

WriteFile(file) == <<[do |-> "truncate", file |-> file], [do |-> "fill", file |-> file]>>
Do(step, file) == <<[do |-> step, file |-> file]>>
Report == Do("report", "none")

(* Mutant: the state is saved before the decision is on the trail.         *)
LaunchStepsSavedFirst(decision, dryRun) ==
  IF dryRun THEN Report
  ELSE IF decision = "ALLOW" THEN WriteFile("state") \o Do("append", "audit") \o Report
  ELSE Do("append", "audit") \o Report

LaunchSteps(decision, dryRun) ==
  IF dryRun THEN Report
  ELSE IF decision = "ALLOW" THEN Do("append", "audit") \o WriteFile("state") \o Report
  ELSE Do("append", "audit") \o Report

(* Mutant: the old trail is kept.                                          *)
InitStepsKeepAudit == WriteFile("state") \o Report

InitSteps == WriteFile("state") \o Do("truncate", "audit") \o Report

(* Mutant: make-envelope reads the trail before the state.                 *)
EnvelopeReadsTrailFirst == <<"audit", "state">>

EnvelopeReads == <<"state", "audit">>

Writes(cmd) == cmd \in {"launch", "init"}

(* The launches came one after the other; or they did but for an init that *)
(* was cut short and left a new state beside the old trail.                *)
OneByOne == order \in {"serial", "cut"}

(* Whether a command spoils what two processes write: a launch beside a    *)
(* launch loses an update, an init beside either pairs a state with the    *)
(* trail of another.                                                       *)
OrderWith(cmd) ==
  LET others == {procs[q].cmd : q \in Running}
  IN  IF Writes(cmd) /\ (("init" \in others) \/ (cmd = "init" /\ "launch" \in others))
      THEN "disturbed"
      ELSE IF cmd = "launch" /\ "launch" \in others /\ OneByOne THEN "shared"
      ELSE order

Start(p, cmd, steps, holds, auth) ==
  /\ procs' = [q \in Invocations |->
       IF q = p THEN [ cmd |-> cmd, steps |-> steps, holds |-> holds, auth |-> auth,
                       beside |-> {procs[r].cmd : r \in Running} ]
       ELSE IF q \in Running THEN [procs[q] EXCEPT !.beside = @ \cup {cmd}]
       ELSE Idle]
  /\ order' = OrderWith(cmd)
  /\ runs' = runs + 1
  /\ UNCHANGED <<files, printed, now>>

(* The intent that launch, launch dry-run and auth create make of their    *)
(* arguments; none if one is missing or says nothing.                      *)
IntentOf(parsed, offset) ==
  LET word == Line!Arg(parsed, offset)
  IN  IF /\ word \in DOMAIN RequestOf
         /\ \A flag \in {"--agent", "--nonce"} : Line!Given(parsed, flag)
      THEN [ type |-> "EXECUTE", agent_id |-> parsed.flags["--agent"],
             nonce |-> parsed.flags["--nonce"], timestamp |-> now,
             request |-> RequestOf[word], authorization_id |-> Undefined ]
      ELSE Undefined

Decide(i, state) == Engine(state.policy_version)!Evaluation(i, state, "fail-fast")

Launch(p, parsed) ==
  LET dryRun == Line!Arg(parsed, 2) = "dry-run"
      i      == IntentOf(parsed, IF dryRun THEN 3 ELSE 2)
      state  == files.state
      out    == Decide(i, state)
  IN  /\ Line!Command(parsed) = "launch"
      /\ i # Undefined
      /\ Readable(state)
      /\ Start(p, IF dryRun THEN "dry-run" ELSE "launch", LaunchSteps(out.decision, dryRun),
               [audit |-> Events(i, state.policy_version, out.events), state |-> out.next],
               IF out.decision = "ALLOW" THEN AuthKey(i.nonce, i.timestamp) ELSE Undefined)

(* The decision is made and the authorization written: neither the state   *)
(* nor the trail learns of it.                                             *)
AuthCreate(p, parsed) ==
  LET i == IntentOf(parsed, 3)
  IN  /\ Line!Command(parsed) = "auth" /\ Line!Arg(parsed, 2) = "create"
      /\ i # Undefined
      /\ Line!Given(parsed, "--out")
      /\ Readable(files.state)
      /\ Decide(i, files.state).decision = "ALLOW"
      /\ LET auth == AuthKey(i.nonce, i.timestamp)
         IN  Start(p, "auth create", WriteFile("authorization") \o Report,
                   [authorization |-> auth], auth)

(* init refuses a file that does not parse, or on whose state the probe    *)
(* intent is denied with STATE_INVALID, before it writes anything.         *)
InitCommand(p, parsed) ==
  /\ Line!Command(parsed) = "init"
  /\ Line!Given(parsed, "--file")
  /\ \E state \in PolicyFiles \ {Torn} :
       Start(p, "init", InitSteps, [state |-> state], Undefined)

ExamplesInit(p, parsed) ==
  /\ Line!Command(parsed) = "examples" /\ Line!Arg(parsed, 2) = "init"
  /\ Start(p, "init", InitSteps, [state |-> SampleState], Undefined)

(* build writes the snapshot where --out says.                             *)
Build(p, parsed) ==
  /\ Line!Command(parsed) = "build"
  /\ Line!Arg(parsed, 2) \in {Undefined, "snapshot", "snap"}
  /\ Readable(files.state)
  /\ Start(p, "build", (IF Line!Given(parsed, "--out") THEN WriteFile("snapshot") ELSE << >>) \o Report,
           [snapshot |-> SnapshotOf(files.state)], Undefined)

MakeEnvelope(p, parsed) ==
  LET reads == EnvelopeReads
  IN  /\ Line!Command(parsed) = "make-envelope"
      /\ Line!Given(parsed, "--out")
      /\ Readable(files[reads[1]])
      /\ Start(p, "make-envelope",
               Do("read", reads[2]) \o WriteFile("envelope") \o Report,
               [f \in {reads[1]} |-> files[f]], Undefined)

Run(p) ==
  /\ procs[p] = Idle /\ runs < MaxRuns
  /\ \E argv \in CommandLines :
       LET parsed == Line!ParseFlags(argv)
       IN  \/ Launch(p, parsed)
           \/ AuthCreate(p, parsed)
           \/ InitCommand(p, parsed)
           \/ ExamplesInit(p, parsed)
           \/ Build(p, parsed)
           \/ MakeEnvelope(p, parsed)

-----------------------------------------------------------------------------
(***************************************************************************)
(* The steps                                                               *)
(***************************************************************************)

Doing(p, step) == procs[p] # Idle /\ procs[p].steps[1].do = step

File(p) == procs[p].steps[1].file

Advance(p, holds) ==
  procs' = [procs EXCEPT ![p].steps = Tail(@), ![p].holds = holds]

(* A file that does not parse ends the command.                            *)
Read(p) ==
  /\ Doing(p, "read")
  /\ IF Readable(files[File(p)])
     THEN LET holds == procs[p].holds
          IN  Advance(p, [f \in DOMAIN holds \cup {File(p)} |->
                            IF f = File(p) THEN files[f] ELSE holds[f]])
     ELSE procs' = [procs EXCEPT ![p] = Idle]
  /\ UNCHANGED <<files, printed, order, now, runs>>

(* Emptying the trail is all of resetAuditFile; with a new state begins a  *)
(* new account, and an init that nothing disturbed starts it clean.        *)
Truncate(p) ==
  /\ Doing(p, "truncate")
  /\ files' = [files EXCEPT ![File(p)] = IF File(p) = "audit" THEN << >> ELSE Torn]
  /\ printed' = IF procs[p].cmd = "init" THEN {} ELSE printed
  /\ order' = IF File(p) = "audit" /\ ~\E cmd \in procs[p].beside : Writes(cmd)
              THEN "serial" ELSE order
  /\ Advance(p, procs[p].holds)
  /\ UNCHANGED <<now, runs>>

Fill(p) ==
  /\ Doing(p, "fill")
  /\ LET holds == procs[p].holds
     IN  /\ files' = [files EXCEPT ![File(p)] =
                        IF File(p) = "envelope" THEN EnvelopeOf(holds.state, holds.audit)
                        ELSE holds[File(p)]]
         /\ Advance(p, holds)
  /\ UNCHANGED <<printed, order, now, runs>>

AppendAuditEvents(p) ==
  /\ Doing(p, "append")
  /\ files' = [files EXCEPT !.audit = @ \o procs[p].holds.audit]
  /\ Advance(p, procs[p].holds)
  /\ UNCHANGED <<printed, order, now, runs>>

(* The last step: the outcome is printed, and the process exits.           *)
Exit(p) ==
  /\ Doing(p, "report")
  /\ printed' = IF procs[p].cmd = "launch" /\ procs[p].auth # Undefined
                THEN printed \cup {procs[p].auth} ELSE printed
  /\ procs' = [procs EXCEPT ![p] = Idle]
  /\ UNCHANGED <<files, order, now, runs>>

(* The process is killed.  An init that was about to empty the trail       *)
(* leaves a new state beside the old one.                                  *)
Kill(p) ==
  /\ procs[p] # Idle
  /\ procs' = [procs EXCEPT ![p] = Idle]
  /\ order' = IF order = "serial" /\ Doing(p, "truncate") /\ File(p) = "audit"
              THEN "cut" ELSE order
  /\ UNCHANGED <<files, printed, now, runs>>

Tick ==
  /\ now < MaxNow
  /\ now' = now + 1
  /\ UNCHANGED <<files, procs, printed, order, runs>>

Init ==
  /\ files = [ state |-> Undefined, audit |-> << >>, snapshot |-> Undefined,
               envelope |-> Undefined, authorization |-> Undefined ]
  /\ procs = [p \in Invocations |-> Idle]
  /\ printed = {}
  /\ order = "serial"
  /\ now = 1
  /\ runs = 0

Step(p) == Read(p) \/ Truncate(p) \/ Fill(p) \/ AppendAuditEvents(p) \/ Exit(p)

Next == Tick \/ \E p \in Invocations : Run(p) \/ Step(p) \/ Kill(p)

Spec == Init /\ [][Next]_vars

-----------------------------------------------------------------------------
(***************************************************************************)
(* Properties                                                              *)
(***************************************************************************)

Audited(events) ==
  {AuthKey(events[k].authorization_id, events[k].timestamp) :
     k \in {j \in DOMAIN events : events[j].type = "AUTH_EMITTED"}}

Charged(state) ==
  {AuthKey(auth.nonce, auth.timestamp) : auth \in UNION {state.active_auths[a] : a \in Agents}}

(* What the theorems about the trail are under: a state has an account for *)
(* every agent, and that which an init starts from charges nothing, so that*)
(* an empty trail goes with it.  init itself does not ask for that.        *)
Accounts(state) == state.active_auths = [a \in Agents |-> state.active_auths[a]]

FreshStates == (PolicyFiles \ {Torn}) \cup {SampleState}

NewAccounts == \A state \in FreshStates : Accounts(state) /\ Charged(state) = {}

(* A policyId is a digest: there is one, and it is not empty.              *)
NamedPolicies == \A state \in FreshStates : state.policy_version \notin {"", Undefined}

(* main.ts:997-1004: an authorization that launch reports is charged to    *)
(* the state file, and what the state file charges is on the trail, though *)
(* launches are killed between their writes.  Launches side by side may    *)
(* lose one another's state, never the audit of what they report.          *)
PrintedIsChargedIsAudited ==
  order # "disturbed" =>
    /\ printed \subseteq Audited(files.audit)
    /\ Readable(files.state) =>
         /\ OneByOne => printed \subseteq Charged(files.state)
         /\ Charged(files.state) \subseteq Audited(files.audit)

(* The trail that launches leave one after the other, whatever commands    *)
(* are killed, is never malformed nor out of the order of the clock, and   *)
(* misses an anchor, so that verify-audit exits with 3.  It is invalid in  *)
(* one case: it tells of two policies after an init was killed between its *)
(* two writes (main.ts:890), until the next init.                          *)
SerialTrailVerifies ==
  OneByOne =>
    LET verdict == Line!VerifyAudit(files.audit)
        mixed   == "MIXED_POLICY_ID" \in verdict.violations
    IN  /\ verdict.violations \ {"MIXED_POLICY_ID"} = {"NO_STATE_ANCHOR"}
        /\ mixed => order = "cut"
        /\ Line!VerificationExitCode(verdict) = IF mixed THEN 1 ELSE 3

EnvelopeAtHand(p) ==
  procs[p].cmd = "make-envelope" /\ procs[p].steps[1].do = "truncate"

(* What the snapshot of an envelope charges is among its events, a launch  *)
(* being half done as the two files are read; and nothing that verify all  *)
(* looks at is invalid if the launches come one after the other and there  *)
(* is any event.                                                           *)
EnvelopeIsAudited ==
  \A p \in Running :
    EnvelopeAtHand(p) /\ order # "disturbed" /\ "init" \notin procs[p].beside =>
      LET holds == procs[p].holds
      IN  /\ Charged(holds.state) \subseteq Audited(holds.audit)
          /\ order = "serial" /\ holds.audit # << >> =>
               Line!VerifyAll(SnapshotOf(holds.state), files.audit,
                              EnvelopeOf(holds.state, holds.audit)) = 3
=============================================================================
