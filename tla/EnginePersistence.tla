--------------------------- MODULE EnginePersistence ---------------------------
(***************************************************************************)
(* One PolicyEngine with an audit sink, a state store and autoPersist:     *)
(* evaluate (packages/core/src/policy/PolicyEngine.ts) emits the events of *)
(* a decision and commits the state it leaves, synchronously; two chains   *)
(* of promises write them, independently of each other, until the process  *)
(* crashes.  PolicyEngine.tla says what is decided; here a decision is its *)
(* kind, and the state the number of the step that changed it.             *)
(***************************************************************************)
EXTENDS AuditDelivery, StateCommits

CONSTANTS
  Hosts,           (* the hosts: adapters, the decisions and timestamps of *)
                   (* their intents, calls of flushAudit, crashes (bound)  *)
  MaxEvaluations   (* bound: evaluations of one process                    *)

ASSUME PersistenceAssumption ==
  /\ \A h \in Hosts :
       /\ h.sink \in Sinks
       /\ h.hasStore \in BOOLEAN
       /\ h.kinds \subseteq {"INVALID", "ERROR", "OVER_LIMIT", "DENY", "ALLOW"}
       /\ h.instants \subseteq Nat
       /\ h.flushes \subseteq Flushes
       /\ h.maxCrashes \in Nat
  /\ MaxEvaluations \in Nat

VARIABLES
  host,         (* the host of this behaviour                              *)
  version,      (* the State object of the caller: the step that made it   *)
  evaluations,  (* evaluations of this process                             *)
  crashes,      (* how often the process crashed                           *)
  promised      (* history: the newest state that flushState vouched for   *)

vars == <<deliveryVars, commitVars, host, version, evaluations, crashes, promised>>

-----------------------------------------------------------------------------
(* What the caller's state becomes: a denial may leave merged deltas.      *)
Versions(kind) ==
  CASE kind = "ALLOW"   -> {version + 1}
    [] kind = "INVALID" -> {version}
    [] OTHER            -> {version, version + 1}

Evaluates(kind) ==
  /\ evaluations < MaxEvaluations
  /\ evaluations' = evaluations + 1
  /\ \E t \in host.instants : Emit(WithCheckpoint(kind, t))
  /\ version' \in Versions(kind)
  /\ UNCHANGED <<host, crashes, promised>>

Evaluate(kind) ==
  /\ hasStore => kind # "OVER_LIMIT"
  /\ Evaluates(kind)
  /\ Commit(version')

(* A state that is over its limits, or no state at all, is denied, and     *)
(* then exportState throws out of evaluate: nothing is committed.  What is *)
(* invalid, and what ends in an error, may have a state of either kind.    *)
EvaluateThrows(kind) ==
  /\ hasStore
  /\ kind \in {"INVALID", "ERROR", "OVER_LIMIT"}
  /\ Evaluates(kind)
  /\ UNCHANGED commitVars

(* The chains go; the files stay.  The host builds a new engine, with a    *)
(* new log, over the state that the store returns.                         *)
Crash ==
  /\ crashes < host.maxCrashes
  /\ crashes' = crashes + 1
  /\ evaluations' = 0
  /\ version' = IF stored = NoFile THEN 0 ELSE stored
  /\ log' = [chain |-> << >>, head |-> Genesis]
  /\ emitted' = << >>
  /\ sunk' = 0
  /\ lines' = << >>
  /\ sinkError' = FALSE
  /\ flush' = [f \in Flushes |-> Idle]
  /\ reported' = {}
  /\ commits' = << >>
  /\ saved' = 0
  /\ temporary' = NoFile
  /\ stateError' = FALSE
  /\ stateFlush' = [f \in StateFlushes |-> [stage |-> "idle", upto |-> 0]]
  /\ excused' = 0
  /\ UNCHANGED <<sink, hasStore, stored, host, promised>>

(* History: what flushState vouches for when it resolves, unless a failure *)
(* that concerns it has been thrown to another caller.                     *)
RecordPromise ==
  promised' =
    LET vouched == {stateFlush[f].upto : f \in
                      {g \in StateFlushes : /\ stateFlush[g].stage = "chain"
                                            /\ stateFlush'[g].stage = "resolved"}}
    IN  IF \E n \in vouched : n > excused /\ (promised = NoFile \/ commits[n] > promised)
        THEN commits[CHOOSE n \in vouched : TRUE]
        ELSE promised

Init ==
  /\ DeliveryInit
  /\ CommitsInit
  /\ host \in Hosts
  /\ sink = host.sink
  /\ hasStore = host.hasStore
  /\ version = 0
  /\ evaluations = 0
  /\ crashes = 0
  /\ promised = NoFile

Next ==
  \/ \E kind \in host.kinds : Evaluate(kind) \/ EvaluateThrows(kind)
  \/ /\ DeliveryStep
     /\ \A f \in Flushes \ host.flushes : flush'[f] = Idle
     /\ UNCHANGED <<commitVars, host, version, evaluations, crashes, promised>>
  \/ CommitsStep /\ RecordPromise /\ UNCHANGED <<deliveryVars, host, version, evaluations, crashes>>
  \/ Crash

Spec == Init /\ [][Next]_vars

FairSpec == Spec /\ DeliveryFairness /\ CommitsFairness
-----------------------------------------------------------------------------
(***************************************************************************)
(* Properties                                                              *)
(***************************************************************************)

(* The sink receives the events in the order they were emitted, whichever  *)
(* appends fail, and the audit file has no gap: it is a beginning of the   *)
(* log (emitAudit's chain, FileAuditSink.queue).                           *)
SinkKeepsOrder ==
  /\ \A j, k \in DOMAIN lines : j < k => lines[j] < lines[k]
  /\ sink \in {"file", "memory"} => \A k \in DOMAIN lines : lines[k] = k

Drained == Len(emitted) - Len(log.chain)

(* The head commits to every event since the engine was made, also those   *)
(* that drain has handed out; verify, which starts from GENESIS, holds as  *)
(* long as none was (HashChainedLog).                                      *)
HeadCommitsToHistory ==
  /\ log.head = HeadFrom(Genesis, emitted)
  /\ Snapshot(log) = SubSeq(emitted, Drained + 1, Len(emitted))
  /\ VerifyLog(log) <=> Drained = 0

(* When flushAudit resolves, every event emitted before the call is in the *)
(* sink, or its loss was thrown to another call of flushAudit; of the file *)
(* sink nothing is ever lost behind a flush that resolves (flushAudit,     *)
(* FileAuditSink.flush).                                                   *)
FlushIsHonest ==
  \A f \in Flushes : flush[f].stage = "resolved" =>
    \A k \in 1 .. flush[f].upto :
      \/ \E j \in DOMAIN lines : lines[j] = k
      \/ sink # "file" /\ k \in reported

(* What flushState vouched for survives a crash: the state that a restart  *)
(* finds is that one or a later one (flushState, FileStateStore.set).      *)
PromisedStateIsStored ==
  promised # NoFile => stored # NoFile /\ stored >= promised

(* The state file goes from one committed state to a later one, crashes    *)
(* included, and never holds part of one (stateStoreChain,                 *)
(* FileStateStore.set).                                                    *)
StoredNeverGoesBack ==
  [][ stored # NoFile => stored' # NoFile /\ stored' >= stored ]_vars

StrictOptions == [mode |-> "strict", requireStateAnchors |-> Absent, expectedPolicyId |-> PolicyId]

(* An event is older than another that was emitted before it.              *)
WentBack(events) ==
  \E j, k \in DOMAIN events : j < k /\ events[k].timestamp < events[j].timestamp

(* The two verifiers say the same of these events, though their heads      *)
(* differ: they fail only if a timestamp went back, and are left open only *)
(* if there is no checkpoint.                                              *)
AgreeOn(events) ==
  LET audit  == VerifyAuditEvents(events, StrictOptions)
      replay == VerifyReplayEvents(events, [policyId |-> PolicyId, mode |-> "strict"])
  IN  /\ audit.status = "invalid" <=> WentBack(events)
      /\ audit.status = "inconclusive" <=>
           ~WentBack(events) /\ \A k \in DOMAIN events : ~IsCheckpoint(events[k])
      /\ replay.status = (IF audit.status = "invalid" THEN "violation" ELSE audit.status)
      /\ replay.policyId = audit.policyId
      /\ InvariantViolations(events, PolicyId) = audit.violations \ {"NO_STATE_ANCHOR"}

(* What an engine has emitted, or the rest that a drain has left, fails    *)
(* verification only if the caller's timestamps went back, and is left     *)
(* open only if no checkpoint is among it; the two verifiers agree, though *)
(* their heads do not (verifyAuditEvents, verifyReplayEvents,              *)
(* maybeEmitCheckpoint).                                                   *)
VerifiersAgree == AgreeOn(emitted) /\ AgreeOn(Snapshot(log))

(* The sink catches up with the engine again and again, whatever failed    *)
(* before, when the engine pauses long enough, which the bound on the      *)
(* evaluations makes it do (auditSinkChain's catch).                       *)
SinkCatchesUp == sink # "none" ~> sunk = Len(emitted)

(* Every flush settles, unless the process crashes; the appends and sets   *)
(* that fail do not leave anyone waiting (flushAudit, flushState).         *)
EveryFlushSettles ==
  /\ \A f \in Flushes : flush[f].stage = "chain" ~> flush[f].stage \in Settled \cup {"idle"}
  /\ \A f \in StateFlushes :
       stateFlush[f].stage = "chain" ~> stateFlush[f].stage \in Settled \cup {"idle"}
=============================================================================
