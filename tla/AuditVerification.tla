--------------------------- MODULE AuditVerification ---------------------------
(***************************************************************************)
(* The hash-chained audit log (packages/core/src/audit/HashChainedLog.ts)  *)
(* and the two verifiers of a sequence of events: verifyAuditEvents        *)
(* (verification/verifyAuditEvents.ts) and verifyReplayEvents              *)
(* (replay/verify.ts), which ReplayEngine.verify and ReplayEngine.replay   *)
(* call.                                                                   *)
(*                                                                         *)
(* SHA-256 is taken to be injective, so the hash of an event behind a head *)
(* is the head with the event behind it: a head is everything it hashes.   *)
(***************************************************************************)
EXTENDS Integers, Sequences, FiniteSets

CONSTANT Absent  (* undefined: an option that is not given, a policyId that is not known *)

-----------------------------------------------------------------------------
(***************************************************************************)
(* Events: records, of which any field may be missing from what a verifier *)
(* is handed.                                                              *)
(***************************************************************************)

(* What the schema asks of each type, besides type, timestamp, policyId.   *)
OwnFields ==
  [ INTENT_RECEIVED    |-> {"intent_hash", "agent_id"},
    DECISION           |-> {"intent_hash", "decision"},
    AUTH_EMITTED       |-> {"intent_hash", "authorization_id"},
    EXECUTION_ATTESTED |-> {"intent_hash", "execution_ref"},
    STATE_CHECKPOINT   |-> {"stateHash"} ]

Required(event) == OwnFields[event.type] \ {"agent_id", "decision", "execution_ref"}

(* validateAuditEventJson finds nothing: the fields of the type are there  *)
(* and no other, hashes and ids are not empty, the timestamp is a natural. *)
WellFormedEvent(event) ==
  /\ "type" \in DOMAIN event
  /\ event.type \in DOMAIN OwnFields
  /\ "timestamp" \in DOMAIN event
  /\ event.timestamp \in Nat
  /\ OwnFields[event.type] \subseteq DOMAIN event
  /\ DOMAIN event \subseteq {"type", "timestamp", "policyId"} \cup OwnFields[event.type]
  /\ \A f \in Required(event) : event[f] # ""

HasPolicyId(event) == "policyId" \in DOMAIN event /\ event.policyId # ""

PolicyIdsOf(events, places) ==
  {events[k].policyId : k \in {j \in places : HasPolicyId(events[j])}}

IsCheckpoint(event) == event.type = "STATE_CHECKPOINT"

(* 64 hexadecimal digits.                                                  *)
IsStateHash(hash) == hash \notin {"", "not-hex"}

(* One of the events at these places is older than the one before it.      *)
GoesBack(events, places) ==
  \E j, k \in places :
    /\ j < k
    /\ \A i \in places : i <= j \/ k <= i
    /\ events[k].timestamp < events[j].timestamp

-----------------------------------------------------------------------------
(***************************************************************************)
(* HashChainedLog                                                          *)
(***************************************************************************)

Genesis == <<"GENESIS">>

HeadFrom(start, events) == start \o events

(* append, of the events one after the other.                              *)
AppendAll(log, events) ==
  LET HeadAt(k) == HeadFrom(log.head, SubSeq(events, 1, k))
  IN  [ chain |-> log.chain \o [k \in DOMAIN events |->
                    [event |-> events[k], prev_hash |-> HeadAt(k - 1), hash |-> HeadAt(k)]],
        head  |-> HeadAt(Len(events)) ]

Snapshot(log) == [k \in DOMAIN log.chain |-> log.chain[k].event]

(* Mutant: the head goes back to GENESIS with the chain.                   *)
DrainAndReset(log) == [chain |-> << >>, head |-> Genesis]

(* drain empties the chain and leaves the head.                            *)
Drain(log) == [log EXCEPT !.chain = << >>]

(* verify: every link from GENESIS to the head.                            *)
VerifyLog(log) ==
  LET Prev(k) == IF k = 1 THEN Genesis ELSE log.chain[k - 1].hash
  IN  /\ \A k \in DOMAIN log.chain :
           /\ log.chain[k].prev_hash = Prev(k)
           /\ log.chain[k].hash = HeadFrom(log.chain[k].prev_hash, <<log.chain[k].event>>)
      /\ log.head = Prev(Len(log.chain) + 1)

-----------------------------------------------------------------------------
(***************************************************************************)
(* The verifiers                                                           *)
(***************************************************************************)

(* verifyAuditEvents skips a malformed event: its timestamp and its hash   *)
(* count for nothing.                                                      *)
Checked(events) == {k \in DOMAIN events : WellFormedEvent(events[k])}

CheckedHead(events) == HeadFrom(<< >>, SelectSeq(events, WellFormedEvent))

(* opts: mode, requireStateAnchors, expectedPolicyId.                      *)
AuditCodes(events, opts) ==
  LET checked == Checked(events)
      anchors == IF opts.requireStateAnchors = Absent
                 THEN opts.mode = "strict" ELSE opts.requireStateAnchors
      expected == opts.expectedPolicyId
      In(code, condition) == IF condition THEN {code} ELSE {}
  IN  UNION {
        In("MALFORMED_EVENT", checked # DOMAIN events),
        In("NON_MONOTONIC_TIMESTAMP", GoesBack(events, checked)),
        In("POLICY_ID_MISSING",
           expected # Absent /\ \E k \in checked : ~HasPolicyId(events[k])),
        In("POLICY_ID_MISMATCH",
           expected # Absent /\ \E p \in PolicyIdsOf(events, checked) : p # expected),
        In("MIXED_POLICY_ID", Cardinality(PolicyIdsOf(events, checked)) > 1),
        In("NO_STATE_ANCHOR", anchors /\ ~\E k \in checked : IsCheckpoint(events[k])) }

(* Mutant: a missing anchor counts as invalid.                             *)
AuditStatusAnchored(codes) == IF codes = {} THEN "ok" ELSE "invalid"

(* A missing anchor alone leaves the verdict open.                         *)
AuditStatus(codes) ==
  IF codes \ {"NO_STATE_ANCHOR"} # {} THEN "invalid"
  ELSE IF codes # {} THEN "inconclusive"
  ELSE "ok"

VerifyAuditEvents(events, opts) ==
  LET codes == AuditCodes(events, opts)
      ids   == PolicyIdsOf(events, Checked(events))
  IN  [ status        |-> AuditStatus(codes),
        violations    |-> codes,
        policyId      |-> IF Cardinality(ids) = 1 THEN CHOOSE p \in ids : TRUE ELSE Absent,
        auditHeadHash |-> CheckedHead(events) ]

(* verifyReplayEvents looks at every event as it is and knows no schema    *)
(* but the form of a checkpoint's hash.                                    *)
VerifyReplayEvents(events, opts) ==
  LET named == {k \in DOMAIN events : "policyId" \in DOMAIN events[k]}
      observed == IF named = {} THEN Absent
                  ELSE events[CHOOSE k \in named : \A j \in named : k <= j].policyId
      In(code, condition) == IF condition THEN {code} ELSE {}
      codes == UNION {
        In("NON_MONOTONIC_TIMESTAMP", GoesBack(events, DOMAIN events)),
        In("INVALID_STATE_HASH",
           \E k \in DOMAIN events : IsCheckpoint(events[k]) /\ ~IsStateHash(events[k].stateHash)),
        In("MIXED_POLICY_ID", \E k \in named : events[k].policyId # observed),
        In("POLICY_ID_MISMATCH",
           opts.policyId \notin {Absent, ""} /\ observed \notin {Absent, ""}
             /\ opts.policyId # observed) }
      unanchored == opts.mode = "strict" /\ ~\E k \in DOMAIN events : IsCheckpoint(events[k])
  IN  [ status        |-> IF codes # {} THEN "violation"
                          ELSE IF unanchored THEN "inconclusive" ELSE "ok",
        violations    |-> IF codes = {} /\ unanchored THEN {"NO_STATE_ANCHOR"} ELSE codes,
        policyId      |-> observed,
        auditHeadHash |-> HeadFrom(Genesis, events) ]

(* ReplayEngine.replay.                                                    *)
InvariantViolations(events, policyId) ==
  VerifyReplayEvents(events, [policyId |-> policyId, mode |-> "best-effort"]).violations
=============================================================================
