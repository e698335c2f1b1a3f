------------------------------ MODULE Conformance ------------------------------
(***************************************************************************)
(* The conformance validator (packages/conformance/src/validate.ts), which *)
(* runs frozen vectors (vectors/*.json, made by scripts/extract-vectors.ts *)
(* and by hand) against an implementation of the protocol.                 *)
(*                                                                         *)
(* An implementation is given by what it omits: codes that it never        *)
(* reports, fields that it leaves out of a hash.  The core omits nothing.  *)
(* A vector is an input with the verdict, or the hash, that is frozen.     *)
(***************************************************************************)
EXTENDS Verifiers

-----------------------------------------------------------------------------
(***************************************************************************)
(* Hashes: of intents, of authorizations the engine makes of them, of      *)
(* snapshots, and of a chain of events                                     *)
(***************************************************************************)

IntentBindingFields ==
  { "intent_id", "agent_id", "action_type", "depth", "amount", "asset", "target", "timestamp",
    "metadata_hash", "nonce", "type", "authorization_id", "tool", "tool_call" }

MakeIntent(nonce, timestamp) ==
  [ intent_id |-> <<"intent", nonce>>, agent_id |-> "agent-1", action_type |-> "PAYMENT",
    amount |-> 1, target |-> "merchant-1", timestamp |-> timestamp, metadata_hash |-> "zeros",
    nonce |-> nonce, signature |-> "placeholder", depth |-> 0, tool |-> "openai.responses",
    tool_call |-> TRUE, type |-> "EXECUTE" ]

WithTrace(intent) ==
  [f \in DOMAIN intent \cup {"trace_id"} |-> IF f = "trace_id" THEN "ignored" ELSE intent[f]]

IntentHash(intent, omits) == Restricted(intent, IntentBindingFields \ omits)

IntentHashVectors ==
  LET intent == MakeIntent(42, 1730)
      frozen == Restricted(intent, DOMAIN intent \ {"signature"})
  IN  { [intent |-> i, hash |-> frozen] : i \in {intent, WithTrace(intent)} }

ValidateIntentHashVectors(omits) ==
  \A v \in IntentHashVectors : IntentHash(v.intent, omits) = v.hash

(* What the engine authorizes, with the legacy payload and its signature.  *)
EvaluateAuthorization(intent, omits) ==
  LET auth == [ intent_hash |-> IntentHash(intent, omits), state_hash |-> "state",
                policy_id |-> "policy", expires_at |-> intent.timestamp + 60 ]
  IN  [auth |-> auth, engine_signature |-> Sign("test-secret", "", Restricted(auth, DOMAIN auth \ omits))]

AuthorizationVectors ==
  { [ intent |-> intent, authorization |-> EvaluateAuthorization(intent, {}) ]
    : intent \in {MakeIntent(100, 1730), MakeIntent(101, 0)} }

ValidateAuthorizationVectors(omits) ==
  \A v \in AuthorizationVectors : EvaluateAuthorization(v.intent, omits) = v.authorization

Snapshot1(limit) ==
  [ formatVersion |-> 1, engineVersion |-> "1.0.0", policyId |-> "policy",
    modules |-> [budget |-> limit, killSwitch |-> FALSE] ]

(* Two states, and the first one's snapshot decoded and encoded again.     *)
SnapshotVectors ==
  { [snapshot |-> s, hash |-> Restricted(s, {"engineVersion", "policyId", "modules"})]
    : s \in {Snapshot1(5), Snapshot1(999), CanonicalCodec(Snapshot1(5))} }

ValidateSnapshotVectors(omits) ==
  \A v \in SnapshotVectors :
    LET out == VerifySnapshot(v.snapshot, "policy")
    IN  out.violations \ omits = {} /\ out.stateHash = v.hash

(* The chain is computed by the validator: of the implementation it takes  *)
(* the canonical form of an event, and the log's own genesis is not asked. *)
ChainEvents(type) ==
  << [type |-> type, timestamp |-> 1, intent_hash |-> "intent"],
     [type |-> "DECISION", timestamp |-> 1, intent_hash |-> "intent"],
     [type |-> "AUTH_EMITTED", timestamp |-> 1, intent_hash |-> "intent"] >>

ChainOf(events, omits) ==
  HeadFrom(<<"OxDeAI::GENESIS::v1">>,
           [k \in DOMAIN events |-> Restricted(events[k], DOMAIN events[k] \ omits)])

ValidateAuditChainVectors(omits) ==
  LET original == ChainEvents("INTENT_RECEIVED")
      mutated  == ChainEvents("TAMPERED")
  IN  /\ \A k \in 1 .. 3 : ChainOf(SubSeq(original, 1, k), omits) = ChainOf(SubSeq(original, 1, k), {})
      /\ ChainOf(SubSeq(mutated, 1, 1), omits) # ChainOf(SubSeq(original, 1, 1), {})

-----------------------------------------------------------------------------
(***************************************************************************)
(* Authorizations                                                          *)
(***************************************************************************)

TestKeySet ==
  [ issuer |-> "oxdeai.policy-engine",
    keys |-> << [ kid |-> "2026-01", alg |-> "Ed25519", public_key |-> Pem("test_key"),
                  status |-> Absent, not_before |-> Absent, not_after |-> Absent ] >> ]

TestAuthorization ==
  [ auth_id |-> "auth", issuer |-> "oxdeai.policy-engine", audience |-> "merchant-gateway",
    intent_hash |-> "intent", state_hash |-> "state", policy_id |-> "policy",
    decision |-> "ALLOW", issued_at |-> 100, expiry |-> 160, alg |-> "HMAC-SHA256",
    kid |-> "legacy", signature |-> Absent, nonce |-> Absent, capability |-> Absent ]

At(now) ==
  [ now |-> now, expectedIssuer |-> Absent, expectedAudience |-> Absent,
    expectedPolicyId |-> Absent, consumedAuthIds |-> {}, trustedKeySets |-> << >>,
    legacyHmacSecret |-> Absent, requireSignatureVerification |-> FALSE ]

(* The validator gives each a placeholder for a signature that nothing     *)
(* checks: neither a secret nor a key set is trusted here.                 *)
AuthorizationVerificationVectors ==
  LET auth == [TestAuthorization EXCEPT !.signature = "legacy-placeholder"]
      expecting == [At(120) EXCEPT !.expectedIssuer = "oxdeai.policy-engine",
                      !.expectedAudience = "merchant-gateway", !.expectedPolicyId = "policy"]
      Vector(a, o, codes) == [auth |-> a, opts |-> o, codes |-> codes]
  IN  { Vector(auth, expecting, {}),
        Vector([auth EXCEPT !.expiry = 120], At(120), {"AUTH_EXPIRED"}),
        Vector([auth EXCEPT !.intent_hash = Absent, !.issued_at = Absent], At(110),
               {"AUTH_MISSING_FIELD"}),
        Vector([auth EXCEPT !.decision = "DENY"], At(110), {"AUTH_DECISION_INVALID"}),
        Vector(auth, [At(110) EXCEPT !.consumedAuthIds = {"auth"}], {"AUTH_REPLAY"}),
        Vector(auth, [At(110) EXCEPT !.expectedAudience = "vault-service"],
               {"AUTH_AUDIENCE_MISMATCH"}),
        Vector(auth, [At(110) EXCEPT !.expectedIssuer = "other-issuer"], {"AUTH_ISSUER_MISMATCH"}),
        Vector(auth, [At(110) EXCEPT !.expectedPolicyId = "other"], {"AUTH_POLICY_ID_MISMATCH"}) }

ValidateAuthorizationVerificationVectors(omits) ==
  \A v \in AuthorizationVerificationVectors :
    VerifyAuthorization(v.auth, v.opts) \ omits = v.codes

SignedAuthorizationBase ==
  SignAuthorization([TestAuthorization EXCEPT !.kid = "2026-01"], "test_key")

AuthorizationSignatureVectors ==
  LET auth == SignedAuthorizationBase
      opts == [At(110) EXCEPT !.expectedIssuer = "oxdeai.policy-engine",
                 !.expectedAudience = "merchant-gateway", !.expectedPolicyId = "policy",
                 !.trustedKeySets = <<TestKeySet>>, !.requireSignatureVerification = TRUE]
      Vector(a, o, codes) == [auth |-> a, opts |-> o, codes |-> codes]
      Damaged(a) == [a EXCEPT !.signature.key = "damaged"]
  IN  { Vector(auth, opts, {}),
        Vector(Damaged(auth), opts, {"AUTH_SIGNATURE_INVALID"}),
        Vector([auth EXCEPT !.kid = "unknown-kid"], opts, {"AUTH_KID_UNKNOWN"}),
        Vector([auth EXCEPT !.issuer = "other-issuer"], opts,
               {"AUTH_ISSUER_MISMATCH", "AUTH_KID_UNKNOWN"}),
        Vector(SignAuthorization([auth EXCEPT !.audience = "other-audience"], "test_key"), opts,
               {"AUTH_AUDIENCE_MISMATCH"}),
        Vector([auth EXCEPT !.state_hash = "tampered"], opts, {"AUTH_SIGNATURE_INVALID"}),
        Vector(SignAuthorization([auth EXCEPT !.issued_at = 100, !.expiry = 110], "test_key"),
               [opts EXCEPT !.now = 120], {"AUTH_EXPIRED"}),
        Vector(auth, [opts EXCEPT !.consumedAuthIds = {"auth"}], {"AUTH_REPLAY"}),
        Vector([auth EXCEPT !.alg = "Unknown"], opts, {"AUTH_ALG_UNSUPPORTED"}) }

(* Mutant: the suite is not run.                                           *)
ValidateNoSignatureVectors(omits) == TRUE

ValidateAuthorizationSignatureVectors(omits) ==
  \A v \in AuthorizationSignatureVectors :
    VerifyAuthorization(v.auth, v.opts) \ omits = v.codes

-----------------------------------------------------------------------------
(***************************************************************************)
(* Audit events and envelopes                                              *)
(***************************************************************************)

Received(policyId, timestamp) ==
  [ type |-> "INTENT_RECEIVED", intent_hash |-> "intent", agent_id |-> "agent-1",
    timestamp |-> timestamp, policyId |-> policyId ]

Decided(policyId, timestamp) ==
  [ type |-> "DECISION", intent_hash |-> "intent", decision |-> "ALLOW",
    timestamp |-> timestamp, policyId |-> policyId ]

Checkpoint(stateHash, timestamp) ==
  [type |-> "STATE_CHECKPOINT", stateHash |-> stateHash, timestamp |-> timestamp, policyId |-> "a"]

BuildAuditVerificationCases ==
  LET Opts(mode, expected) ==
        [mode |-> mode, requireStateAnchors |-> Absent, expectedPolicyId |-> expected]
      Vector(events, opts, codes) == [events |-> events, opts |-> opts, codes |-> codes]
  IN  { Vector(<<Received("b", 100)>>, Opts("best-effort", "a"), {"POLICY_ID_MISMATCH"}),
        Vector(<<Received("a", 200), Decided("a", 100)>>, Opts("best-effort", Absent),
               {"NON_MONOTONIC_TIMESTAMP"}),
        Vector(<<Received("a", 100), Decided("b", 100)>>, Opts("best-effort", Absent),
               {"MIXED_POLICY_ID"}),
        Vector(<<Received("a", 100), Decided("a", 100)>>, Opts("strict", Absent),
               {"NO_STATE_ANCHOR"}),
        Vector(<<Received("c", 300), Decided("b", 100)>>, Opts("strict", "a"),
               { "MIXED_POLICY_ID", "NON_MONOTONIC_TIMESTAMP", "NO_STATE_ANCHOR",
                 "POLICY_ID_MISMATCH" }) }

ValidateAuditVerificationVectors(omits) ==
  \A v \in BuildAuditVerificationCases :
    VerifyAuditEvents(v.events, v.opts).violations \ omits = v.codes

TestEnvelope(events) ==
  [ formatVersion |-> 1, snapshot |-> [Snapshot1(5) EXCEPT !.policyId = "a"], events |-> events,
    issuer |-> Absent, alg |-> Absent, kid |-> Absent, signature |-> Absent ]

EnvelopeOpts(mode) ==
  [ mode |-> mode, expectedPolicyId |-> "a", expectedIssuer |-> Absent,
    trustedKeySets |-> << >>, requireSignatureVerification |-> FALSE, now |-> 100 ]

BuildEnvelopeCases ==
  LET events == <<Received("a", 100), Decided("a", 100)>>
      anchored == Append(events, Checkpoint("hash", 100))
      Vector(envelope, mode, status, codes) ==
        [envelope |-> envelope, mode |-> mode, status |-> status, codes |-> codes]
  IN  { Vector(TestEnvelope(anchored), "strict", "ok", {}),
        Vector(TestEnvelope(events), "best-effort", "ok", {}),
        Vector(TestEnvelope(<<Received("c", 100), Decided("c", 100)>>), "best-effort",
               "invalid", {"POLICY_ID_MISMATCH"}),
        Vector(Absent, "best-effort", "invalid", {"ENVELOPE_MALFORMED"}),
        Vector(TestEnvelope(events), "strict", "inconclusive", {"NO_STATE_ANCHOR"}) }

ValidateEnvelopeVectors(omits) ==
  \A v \in BuildEnvelopeCases :
    LET codes == VerifyEnvelope(v.envelope, EnvelopeOpts(v.mode)).violations \ omits
    IN  codes = v.codes /\ AuditStatus(codes) = v.status

EnvelopeSignatureVectors ==
  LET signed == SignEnvelope(TestEnvelope(<<Received("a", 100), Checkpoint("hash", 101)>>),
                             "oxdeai.policy-engine", "2026-01", "test_key")
      Vector(envelope, codes) == [envelope |-> envelope, codes |-> codes]
  IN  { Vector(signed, {}),
        Vector([signed EXCEPT !.events = Append(@, Decided("a", 102))],
               {"ENVELOPE_SIGNATURE_INVALID"}),
        Vector([signed EXCEPT !.alg = "Unknown"], {"ENVELOPE_MALFORMED"}),
        Vector([signed EXCEPT !.kid = "missing-kid"], {"ENVELOPE_KID_UNKNOWN"}),
        Vector([signed EXCEPT !.signature.key = "damaged"], {"ENVELOPE_SIGNATURE_INVALID"}) }

ValidateEnvelopeSignatureVectors(omits) ==
  LET opts == [EnvelopeOpts("strict") EXCEPT !.expectedIssuer = "oxdeai.policy-engine",
                 !.trustedKeySets = <<TestKeySet>>, !.requireSignatureVerification = TRUE]
  IN  \A v \in EnvelopeSignatureVectors :
        VerifyEnvelope(v.envelope, opts).violations \ omits = v.codes

-----------------------------------------------------------------------------

(* main: one failure fails the implementation.                             *)
Conforms(omits) ==
  /\ ValidateIntentHashVectors(omits)
  /\ ValidateAuthorizationVectors(omits)
  /\ ValidateAuthorizationVerificationVectors(omits)
  /\ ValidateAuthorizationSignatureVectors(omits)
  /\ ValidateSnapshotVectors(omits)
  /\ ValidateAuditChainVectors(omits)
  /\ ValidateAuditVerificationVectors(omits)
  /\ ValidateEnvelopeVectors(omits)
  /\ ValidateEnvelopeSignatureVectors(omits)

AuthorizationCodes ==
  { "AUTH_DECISION_INVALID", "AUTH_MISSING_FIELD", "AUTH_EXPIRED", "AUTH_ISSUER_MISMATCH",
    "AUTH_AUDIENCE_MISMATCH", "AUTH_POLICY_ID_MISMATCH", "AUTH_REPLAY", "AUTH_TRUST_MISSING",
    "AUTH_KID_UNKNOWN", "AUTH_KEY_INACTIVE", "AUTH_SIGNATURE_INVALID", "AUTH_ALG_UNSUPPORTED" }

(* Everything a vector could be about.                                     *)
Omissible ==
  IntentBindingFields \cup AuthorizationCodes \cup
  { "ENVELOPE_MALFORMED", "ENVELOPE_SIGNATURE_MISSING", "ENVELOPE_TRUST_MISSING",
    "ENVELOPE_KID_UNKNOWN", "ENVELOPE_KEY_INACTIVE", "ENVELOPE_SIGNATURE_INVALID",
    "SNAPSHOT_CORRUPT", "POLICY_ID_MISSING", "POLICY_ID_MISMATCH", "MALFORMED_EVENT",
    "NON_MONOTONIC_TIMESTAMP", "MIXED_POLICY_ID", "NO_STATE_ANCHOR" }

(* The implementations that pass: the core, and those that omit one thing  *)
(* which no vector is about.                                               *)
Conforming == {omits \in {{}} \cup {{o} : o \in Omissible} : Conforms(omits)}
=============================================================================
