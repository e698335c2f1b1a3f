----------------------------- MODULE AuditDelivery -----------------------------
(***************************************************************************)
(* How the audit events of one engine reach its sink: emitAudit,           *)
(* maybeEmitCheckpoint and flushAudit (packages/core/src/policy/           *)
(* PolicyEngine.ts) over the FileAuditSink or InMemoryAuditSink of         *)
(* packages/core/src/adapters, or a sink of the host.                      *)
(*                                                                         *)
(* The engine is synchronous; it queues one append per event on a promise  *)
(* chain.  The chain settles its appends one by one, in order, while the   *)
(* engine goes on, and goes on itself after an append that rejects.        *)
(***************************************************************************)
EXTENDS AuditVerification

CONSTANTS
  Flushes,          (* calls of flushAudit                                 *)
  MaxFaults,        (* bound: appends that reject of themselves            *)
  CheckpointEvery,  (* checkpoint_every_n_events; 0: the option is not set *)
  PolicyId          (* computePolicyId of this engine                      *)

ASSUME DeliveryAssumption ==
  /\ MaxFaults \in Nat
  /\ CheckpointEvery \in Nat
  /\ PolicyId # "" /\ PolicyId # Absent

VARIABLES
  sink,       (* the kind of opts.auditSink, or "none"                     *)
  log,        (* engine.audit                                              *)
  emitted,    (* every event of this engine: what the chain was given      *)
  sunk,       (* how many appends of auditSinkChain have settled           *)
  lines,      (* what the sink holds of this engine: positions in emitted  *)
  sinkError,  (* auditSinkError is not null                                *)
  flush,      (* where each call of flushAudit is                          *)
  reported    (* history: the failed appends that a flush has rejected for *)

deliveryVars == <<sink, log, emitted, sunk, lines, sinkError, flush, reported>>

-----------------------------------------------------------------------------
(***************************************************************************)
(* Emission                                                                *)
(***************************************************************************)

(* What a decision emits.  A denial before the first module emits nothing, *)
(* an error before the DECISION none; OVER_LIMIT is a module's denial of a *)
(* state that is over its limits, which has no hash.                       *)
DecisionEvents(kind, timestamp) ==
  LET received    == [ type |-> "INTENT_RECEIVED", intent_hash |-> "i", agent_id |-> "a",
                       timestamp |-> timestamp, policyId |-> PolicyId ]
      Decision(d) == [ type |-> "DECISION", intent_hash |-> "i", decision |-> d,
                       timestamp |-> timestamp, policyId |-> PolicyId ]
      auth        == [ type |-> "AUTH_EMITTED", intent_hash |-> "i", authorization_id |-> "z",
                       timestamp |-> timestamp, policyId |-> PolicyId ]
  IN  CASE kind = "INVALID" -> << >>
        [] kind = "ERROR"   -> <<received>>
        [] kind = "ALLOW"   -> <<received, Decision("ALLOW"), auth>>
        [] OTHER            -> <<received, Decision("DENY")>>

(* maybeEmitCheckpoint: auditEventCount is the number of events emitted.   *)
(* Where a checkpoint is due of a state that has no hash, computeStateHash *)
(* throws, and the catch of evaluatePure ends the decision without one.    *)
WithCheckpoint(kind, timestamp) ==
  LET events == DecisionEvents(kind, timestamp)
      due    == /\ kind \in {"DENY", "ALLOW"}
                /\ CheckpointEvery # 0
                /\ (Len(emitted) + Len(events)) % CheckpointEvery = 0
      checkpoint == [ type |-> "STATE_CHECKPOINT", stateHash |-> "h",
                      timestamp |-> timestamp, policyId |-> PolicyId ]
  IN  IF due THEN Append(events, checkpoint) ELSE events

(* emitAudit, of all the events of one call of evaluate.                   *)
Emit(events) ==
  /\ log' = AppendAll(log, events)
  /\ emitted' = emitted \o events
  /\ UNCHANGED <<sink, sunk, lines, sinkError, flush, reported>>

(* The host empties the log.                                               *)
DrainLog ==
  /\ log.chain # << >>
  /\ log' = Drain(log)
  /\ UNCHANGED <<sink, emitted, sunk, lines, sinkError, flush, reported>>

-----------------------------------------------------------------------------
(***************************************************************************)
(* The chain                                                               *)
(***************************************************************************)

Failed == {k \in 1 .. sunk : \A j \in DOMAIN lines : lines[j] # k}

(* FileAuditSink.queue is a chain of its own that nothing catches: after   *)
(* one append has rejected all of them do.                                 *)
Poisoned == sink = "file" /\ Failed # {}

(* Mutant: the queue of the file sink recovers, as the chain does.         *)
AppendLandsAnyway ==
  /\ sunk < Len(emitted)
  /\ sunk' = sunk + 1
  /\ lines' = Append(lines, sunk + 1)
  /\ UNCHANGED <<sink, log, emitted, sinkError, flush, reported>>

(* The next append of the chain settles.                                   *)
AppendLands ==
  /\ sunk < Len(emitted)
  /\ sink # "none"
  /\ ~Poisoned
  /\ sunk' = sunk + 1
  /\ lines' = Append(lines, sunk + 1)
  /\ UNCHANGED <<sink, log, emitted, sinkError, flush, reported>>

(* Mutant: the chain runs no append behind one that rejected.              *)
AppendFailsOnce ==
  /\ sunk < Len(emitted)
  /\ sink \in {"file", "host"}
  /\ ~sinkError
  /\ Poisoned \/ Cardinality(Failed) < MaxFaults
  /\ sunk' = sunk + 1
  /\ sinkError' = TRUE
  /\ UNCHANGED <<sink, log, emitted, lines, flush, reported>>

(* The catch of the chain keeps the first error.                           *)
AppendFails ==
  /\ sunk < Len(emitted)
  /\ sink \in {"file", "host"}
  /\ Poisoned \/ Cardinality(Failed) < MaxFaults
  /\ sunk' = sunk + 1
  /\ sinkError' = TRUE
  /\ UNCHANGED <<sink, log, emitted, lines, flush, reported>>

-----------------------------------------------------------------------------
(***************************************************************************)
(* flushAudit                                                              *)
(***************************************************************************)

Sinks == {"none", "file", "memory", "host"}

Idle == [stage |-> "idle", upto |-> 0]
Settled == {"resolved", "rejected"}

FlushCalled(f) ==
  /\ sink # "none"
  /\ flush[f].stage = "idle"
  /\ flush' = [flush EXCEPT ![f] = [stage |-> "chain", upto |-> Len(emitted)]]
  /\ UNCHANGED <<sink, log, emitted, sunk, lines, sinkError, reported>>

(* The end of flushAudit: throw the error that the chain kept, once.       *)
FlushEnds(f) ==
  /\ flush' = [flush EXCEPT ![f].stage = IF sinkError THEN "rejected" ELSE "resolved"]
  /\ sinkError' = FALSE
  /\ reported' = IF sinkError THEN reported \cup Failed ELSE reported
  /\ UNCHANGED <<sink, log, emitted, sunk, lines>>

(* Mutant: the chain is awaited, the queue of the file is not.             *)
ChainAwaitedAnySink(f) ==
  /\ flush[f].stage = "chain"
  /\ flush[f].upto <= sunk
  /\ FlushEnds(f)

(* Mutant: the flush waits until the sink has everything.                  *)
ChainAwaitedWritten(f) ==
  /\ flush[f].stage = "chain"
  /\ flush[f].upto <= Len(lines)
  /\ FlushEnds(f)

(* The chain has settled what was queued when flushAudit was called.  The  *)
(* file sink has a flush, which waits for what its queue holds by then:    *)
(* the next append may have been handed to it or not.  Other sinks have    *)
(* none.                                                                   *)
ChainAwaited(f) ==
  /\ flush[f].stage = "chain"
  /\ flush[f].upto <= sunk
  /\ IF sink = "file"
     THEN /\ \E n \in {sunk, sunk + 1} \cap 0 .. Len(emitted) :
               flush' = [flush EXCEPT ![f] = [stage |-> "queue", upto |-> n]]
          /\ UNCHANGED <<sink, log, emitted, sunk, lines, sinkError, reported>>
     ELSE FlushEnds(f)

(* FileAuditSink.flush settles: with the rejection of the queue, which     *)
(* leaves auditSinkError as it is, or else flushAudit ends.                *)
QueueAwaited(f) ==
  /\ flush[f].stage = "queue"
  /\ flush[f].upto <= sunk
  /\ IF \E k \in Failed : k <= flush[f].upto
     THEN /\ flush' = [flush EXCEPT ![f].stage = "rejected"]
          /\ reported' = reported \cup Failed
          /\ UNCHANGED <<sink, log, emitted, sunk, lines, sinkError>>
     ELSE FlushEnds(f)

DeliveryInit ==
  /\ sink \in Sinks
  /\ log = [chain |-> << >>, head |-> Genesis]
  /\ emitted = << >>
  /\ sunk = 0
  /\ lines = << >>
  /\ sinkError = FALSE
  /\ flush = [f \in Flushes |-> Idle]
  /\ reported = {}

DeliveryStep ==
  \/ DrainLog
  \/ AppendLands
  \/ AppendFails
  \/ \E f \in Flushes : FlushCalled(f) \/ ChainAwaited(f) \/ QueueAwaited(f)

(* Every append settles, one way or the other, and every promise that has  *)
(* settled runs what waits for it.                                         *)
DeliveryFairness ==
  /\ WF_deliveryVars(AppendLands \/ AppendFails)
  /\ \A f \in Flushes : WF_deliveryVars(ChainAwaited(f) \/ QueueAwaited(f))
=============================================================================
