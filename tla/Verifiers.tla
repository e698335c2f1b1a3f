------------------------------- MODULE Verifiers -------------------------------
(***************************************************************************)
(* The signed artifacts of packages/core/src/verification and what decides *)
(* whether they hold: key sets (types/keyset.ts, crypto/signatures.ts),    *)
(* authorizations (verifyAuthorization.ts; PolicyEngine.ts, which has a    *)
(* verifier of its own; the Rust verifier under examples), snapshots       *)
(* (CanonicalCodec.ts, verifySnapshot.ts) and envelopes (envelope.ts,      *)
(* verifyEnvelope.ts).                                                     *)
(*                                                                         *)
(* A signature is the key, the domain and the payload it was made of.  An  *)
(* artifact has all of its fields; one that is missing, or an empty text,  *)
(* is Absent.  A verdict is the set of the codes of its violations.        *)
(***************************************************************************)
EXTENDS AuditVerification

When(code, condition) == IF condition THEN {code} ELSE {}

-----------------------------------------------------------------------------
(***************************************************************************)
(* Keys and signatures                                                     *)
(***************************************************************************)

Sign(key, domain, payload) == [key |-> key, domain |-> domain, payload |-> payload]

Verify(domain, payload, signature, key) == signature = Sign(key, domain, payload)

(* The text of a public key: "PEM", which normalizePem also takes in       *)
(* base64, or "raw" for the base64 of the key's 32 bytes.                  *)
KeyFormats == {"PEM", "raw"}
KeyText(key, format) == [key |-> key, format |-> format]
Pem(key) == KeyText(key, "PEM")

(* verifyEd25519: a text that is no PEM throws, which counts as invalid.   *)
VerifyEd25519(domain, payload, signature, public_key) ==
  public_key.format = "PEM" /\ Verify(domain, payload, signature, public_key.key)

(* findKeyInKeySets: of the first key set of the issuer, and of no other   *)
(* one, the first key that fits; Absent if there is none.                  *)
FindKey(keysets, issuer, kid) ==
  LET first(P(_), list) ==
        IF \E k \in DOMAIN list : P(list[k])
        THEN list[CHOOSE k \in DOMAIN list :
                    P(list[k]) /\ \A j \in 1 .. k - 1 : ~P(list[j])]
        ELSE Absent
      keyset == first(LAMBDA ks : ks.issuer = issuer, keysets)
  IN  IF keyset = Absent THEN Absent
      ELSE first(LAMBDA key : key.kid = kid /\ key.alg = "Ed25519", keyset.keys)

(* Mutant: the last instant of a key is not one of its own.                *)
KeyIsActiveBefore(key, now) ==
  /\ key.status # "revoked"
  /\ key.not_before # Absent => now >= key.not_before
  /\ key.not_after # Absent => now < key.not_after

(* keyIsActiveAt: a retired key still verifies.                            *)
KeyIsActiveAt(key, now) ==
  /\ key.status # "revoked"
  /\ key.not_before # Absent => now >= key.not_before
  /\ key.not_after # Absent => now <= key.not_after

(* Mutant: a key that is not found is not missed.                          *)
SignatureCodesOpen(artifact, domain, payload, keysets, now, codes) ==
  LET key == FindKey(keysets, artifact.issuer, artifact.kid)
  IN  IF key = Absent THEN {}
      ELSE IF ~KeyIsActiveAt(key, now) THEN {codes.inactive}
      ELSE When(codes.invalid,
                ~VerifyEd25519(domain, payload, artifact.signature, key.public_key))

(* What one signature violates, with the codes of the artifact's kind.     *)
SignatureCodes(artifact, domain, payload, keysets, now, codes) ==
  LET key == FindKey(keysets, artifact.issuer, artifact.kid)
  IN  IF key = Absent THEN {codes.unknown}
      ELSE IF ~KeyIsActiveAt(key, now) THEN {codes.inactive}
      ELSE When(codes.invalid,
                ~VerifyEd25519(domain, payload, artifact.signature, key.public_key))

-----------------------------------------------------------------------------
(***************************************************************************)
(* Authorizations                                                          *)
(***************************************************************************)

TextFields ==
  { "intent_hash", "state_hash", "policy_id", "issuer", "audience", "auth_id",
    "alg", "kid", "signature" }

SignedFields ==
  { "auth_id", "issuer", "audience", "intent_hash", "state_hash", "policy_id",
    "decision", "issued_at", "expiry", "alg", "kid", "nonce", "capability" }

(* Some fields of a record: those of them that are not undefined.          *)
Restricted(record, fields) ==
  [f \in {g \in DOMAIN record \cap fields : record[g] # Absent} |-> record[f]]

(* Mutant: the audience is not signed.                                     *)
SigningPayloadAnyone(auth) == [f \in SignedFields \ {"audience"} |-> auth[f]]

(* authorizationSigningPayload.  Canonical JSON writes null for a field    *)
(* that is undefined, so that one that is missing is signed as missing.    *)
SigningPayload(auth) == [f \in SignedFields |-> auth[f]]

(* signAuthorizationEd25519.                                               *)
SignAuthorization(auth, key) ==
  LET unsigned == [auth EXCEPT !.alg = "Ed25519"]
  IN  [unsigned EXCEPT !.signature = Sign(key, "OXDEAI_AUTH_V1", SigningPayload(unsigned))]

(* The legacy fields that the engine signs with its own secret.            *)
LegacyPayload(auth) ==
  [f \in {"intent_hash", "policy_version", "state_snapshot_hash", "decision", "expires_at"} |-> auth[f]]

AuthorizationSignatureCodes(auth, opts) ==
  LET hasMaterial == Absent \notin {auth.alg, auth.kid, auth.signature}
      payload == SigningPayload(auth)
      Untrusted == When("AUTH_TRUST_MISSING", opts.requireSignatureVerification)
  IN  IF ~hasMaterial THEN {}
      ELSE CASE auth.alg = "Ed25519" ->
                  IF opts.trustedKeySets = << >> THEN Untrusted
                  ELSE SignatureCodes(auth, "OXDEAI_AUTH_V1", payload, opts.trustedKeySets,
                         opts.now, [ unknown  |-> "AUTH_KID_UNKNOWN",
                                     inactive |-> "AUTH_KEY_INACTIVE",
                                     invalid  |-> "AUTH_SIGNATURE_INVALID" ])
             [] auth.alg = "HMAC-SHA256" ->
                  IF opts.legacyHmacSecret = Absent THEN Untrusted
                  ELSE When("AUTH_SIGNATURE_INVALID",
                            ~Verify("OXDEAI_AUTH_V1", payload, auth.signature,
                                    opts.legacyHmacSecret))
             [] OTHER -> {"AUTH_ALG_UNSUPPORTED"}

Expired(auth, now) == auth.expiry # Absent /\ now >= auth.expiry

Consumed(auth, opts) == auth.auth_id # Absent /\ auth.auth_id \in opts.consumedAuthIds

VerifyAuthorization(auth, opts) ==
  UNION {
    When("AUTH_DECISION_INVALID", auth.decision # "ALLOW"),
    When("AUTH_MISSING_FIELD",
         \E f \in TextFields \cup {"issued_at", "expiry"} : auth[f] = Absent),
    When("AUTH_EXPIRED", Expired(auth, opts.now)),
    When("AUTH_ISSUER_MISMATCH", opts.expectedIssuer \notin {Absent, auth.issuer}),
    When("AUTH_AUDIENCE_MISMATCH", opts.expectedAudience \notin {Absent, auth.audience}),
    When("AUTH_POLICY_ID_MISMATCH", opts.expectedPolicyId \notin {Absent, auth.policy_id}),
    When("AUTH_REPLAY", Consumed(auth, opts)),
    AuthorizationSignatureCodes(auth, opts) }

(* PolicyEngine.verifyAuthorization: the first reason, or "valid".         *)
EngineVerifyAuthorization(auth, intent_hash, policy_version, secret, now) ==
  IF auth.intent_hash # intent_hash                 THEN "AUTH_INTENT_MISMATCH"
  ELSE IF now > auth.expiry                         THEN "AUTH_EXPIRED"
  ELSE IF auth.decision # "ALLOW"                   THEN "AUTH_SIGNATURE_INVALID"
  ELSE IF auth.policy_version # policy_version      THEN "POLICY_VERSION_MISMATCH"
  ELSE IF ~Verify("", LegacyPayload(auth), auth.engine_signature, secret)
                                                    THEN "AUTH_SIGNATURE_INVALID"
  ELSE "valid"

(* Mutant: the Rust verifier takes an authorization at its expiry.         *)
RustExpiredLate(auth, now) == auth.expiry < now

RustExpired(auth, now) == auth.expiry <= now

(* The Rust verifier: only the fields it knows are in what it takes to be  *)
(* signed; one key set, whose keys must be raw; no activity of keys, no    *)
(* replay, no expected policy.  The first code, or "ok".                   *)
RustFields == SignedFields \ {"nonce", "capability"}

RustVerifyAuthorization(auth, keyset, audience, now) ==
  LET key == FindKey(<<keyset>>, auth.issuer, auth.kid)
  IN  IF Absent \in {auth.decision, auth.issued_at, auth.expiry} THEN "AUTH_MALFORMED"
      ELSE IF \E f \in TextFields : auth[f] = Absent THEN "AUTH_MISSING_FIELD"
      ELSE IF auth.decision # "ALLOW"                THEN "AUTH_DECISION_INVALID"
      ELSE IF RustExpired(auth, now)                 THEN "AUTH_EXPIRED"
      ELSE IF auth.audience # audience               THEN "AUTH_AUDIENCE_MISMATCH"
      ELSE IF auth.issuer # keyset.issuer            THEN "AUTH_ISSUER_MISMATCH"
      ELSE IF auth.alg # "Ed25519"                   THEN "AUTH_ALG_UNSUPPORTED"
      ELSE IF key = Absent                           THEN "AUTH_KID_UNKNOWN"
      ELSE IF key.public_key.format # "raw"          THEN "AUTH_KEY_MALFORMED"
      ELSE IF ~Verify("OXDEAI_AUTH_V1", [f \in RustFields |-> auth[f]], auth.signature,
                      key.public_key.key)            THEN "AUTH_SIGNATURE_INVALID"
      ELSE "ok"

-----------------------------------------------------------------------------
(***************************************************************************)
(* Snapshots: formatVersion, engineVersion, policyId and the modules'      *)
(* payloads; their hash is everything it hashes.                           *)
(***************************************************************************)

StateHashOf(snapshot) == Restricted(snapshot, {"engineVersion", "policyId", "modules"})

(* encodeCanonicalState and decodeCanonicalState, of what has the shape of *)
(* a snapshot: anything else, and another format, is thrown out (Absent).  *)
CanonicalCodec(snapshot) ==
  IF snapshot # Absent /\ snapshot.formatVersion = 1 THEN snapshot ELSE Absent

SnapshotCodes(snapshot, expectedPolicyId) ==
  IF CanonicalCodec(snapshot) = Absent \/ snapshot.policyId = Absent THEN {"SNAPSHOT_CORRUPT"}
  ELSE When("POLICY_ID_MISMATCH", expectedPolicyId \notin {Absent, snapshot.policyId})

(* verifySnapshot looks at no module: a payload that is missing, or that   *)
(* no codec accepts, verifies.                                             *)
VerifySnapshot(snapshot, expectedPolicyId) ==
  LET codes == SnapshotCodes(snapshot, expectedPolicyId)
  IN  [ violations |-> codes,
        policyId   |-> IF CanonicalCodec(snapshot) = Absent THEN Absent ELSE snapshot.policyId,
        stateHash  |-> IF codes = {} THEN StateHashOf(snapshot) ELSE Absent ]

-----------------------------------------------------------------------------
(***************************************************************************)
(* Envelopes: a snapshot, the audit events up to it, and a signature that  *)
(* may be missing.                                                         *)
(***************************************************************************)

EnvelopeSigningPayload(envelope) ==
  Restricted(envelope, {"snapshot", "events", "issuer", "alg", "kid"})

(* signEnvelopeEd25519.                                                    *)
SignEnvelope(envelope, issuer, kid, key) ==
  LET unsigned == [envelope EXCEPT !.issuer = issuer, !.alg = "Ed25519", !.kid = kid]
  IN  [unsigned EXCEPT !.signature =
         Sign(key, "OXDEAI_ENVELOPE_V1", EnvelopeSigningPayload(unsigned))]

(* validateVerificationEnvelopeWireJson finds nothing.                     *)
WellFormedEnvelope(envelope) ==
  /\ envelope # Absent
  /\ \A k \in DOMAIN envelope.events : WellFormedEvent(envelope.events[k])
  /\ envelope.alg \in {Absent, "Ed25519"}
  /\ envelope.signature # Absent => Absent \notin {envelope.issuer, envelope.alg, envelope.kid}

EnvelopeSignatureCodes(envelope, opts) ==
  UNION {
    When("ENVELOPE_SIGNATURE_INVALID", opts.expectedIssuer \notin {Absent, envelope.issuer}),
    When("ENVELOPE_SIGNATURE_MISSING",
         opts.requireSignatureVerification /\ envelope.signature = Absent),
    IF envelope.signature = Absent THEN {}
    ELSE IF opts.trustedKeySets = << >> THEN {"ENVELOPE_TRUST_MISSING"}
    ELSE SignatureCodes(envelope, "OXDEAI_ENVELOPE_V1", EnvelopeSigningPayload(envelope),
           opts.trustedKeySets, opts.now, [ unknown  |-> "ENVELOPE_KID_UNKNOWN",
                                            inactive |-> "ENVELOPE_KEY_INACTIVE",
                                            invalid  |-> "ENVELOPE_SIGNATURE_INVALID" ]) }

PolicyCodes(snapshotPolicyId, auditPolicyId) ==
  IF Absent \in {snapshotPolicyId, auditPolicyId} THEN {"POLICY_ID_MISSING"}
  ELSE When("POLICY_ID_MISMATCH", snapshotPolicyId # auditPolicyId)

(* verifyEnvelope.  The stateHash of a checkpoint among the events is not  *)
(* compared with the snapshot's.                                           *)
VerifyEnvelope(envelope, opts) ==
  IF ~WellFormedEnvelope(envelope)
  THEN [status |-> "invalid", violations |-> {"ENVELOPE_MALFORMED"}]
  ELSE LET snapshot == VerifySnapshot(envelope.snapshot, opts.expectedPolicyId)
           audit == VerifyAuditEvents(envelope.events,
                      [ mode |-> opts.mode, requireStateAnchors |-> Absent,
                        expectedPolicyId |-> opts.expectedPolicyId ])
           codes == UNION { EnvelopeSignatureCodes(envelope, opts), snapshot.violations,
                            audit.violations, PolicyCodes(snapshot.policyId, audit.policyId) }
       IN  [status |-> AuditStatus(codes), violations |-> codes]
=============================================================================
