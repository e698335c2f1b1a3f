----------------------------- MODULE RelyingParty -----------------------------
(***************************************************************************)
(* Authorizations on their way from an engine to the relying parties that  *)
(* act on them, with the signing key rotated and revoked meanwhile.        *)
(*                                                                         *)
(* The engine issues (PolicyEngine.ts) and the verifiers of Verifiers.tla  *)
(* decide.  The relying party is the host that SPEC.md:441-454 describes   *)
(* and docs/pep-production-guide.md: it verifies, executes and records the *)
(* auth_id in one step, against a key set it caches.  An authorization may *)
(* be lost, or arrive late, at another party, again, or damaged.           *)
(***************************************************************************)
EXTENDS Conformance

CONSTANTS
  Parties,     (* audiences, each a host that verifies and executes          *)
  Intents,     (* what may be authorized, by its hash                        *)
  Ttl,         (* authorization_ttl_seconds                                  *)
  Overlap,     (* seconds for which a retired key still verifies             *)
  MaxTime,     (* bounds: the clock                                          *)
  MaxIssued    (* and the authorizations issued                              *)

ASSUME LifetimeAssumption == Ttl \in Nat \ {0} /\ Overlap \in Nat

(* What a field may hold, and what is found in a list, is never undefined. *)
Texts == { "engine", "engine_secret", "state", "policy", "v1", "ALLOW", "nonce", "PROVISION",
           "Ed25519", "HMAC-SHA256", "OXDEAI_AUTH_V1", "active", "retired", "revoked" }
Values == Texts \cup Nat \cup Intents \cup Parties
AuthIds == Intents \X Parties \X Nat \X Nat
Keys == {"key"} \X Nat
Signatures == [ key : Texts \cup Keys, domain : Texts,
                payload : [SignedFields -> Values \cup AuthIds \cup {Absent}] ]
KeyTexts == [key : Keys, format : KeyFormats]
KeyEntries == [ kid : Nat, alg : Texts, public_key : KeyTexts, status : Texts,
                not_before : Nat \cup {Absent}, not_after : Nat \cup {Absent} ]
KeySets == [issuer : Texts, keys : Seq(KeyEntries)]

ASSUME AbsentAssumption ==
  Absent \notin Values \cup AuthIds \cup Signatures \cup KeyEntries \cup KeySets

VARIABLES
  verifiers,  (* the implementations that passed the conformance vectors    *)
  now,        (* the clock, of which every participant reads the same value *)
  published,  (* the issuer's KeySet                                        *)
  caches,     (* the KeySet each party last fetched                         *)
  issued,     (* the authorizations the engine returned                     *)
  executed    (* party, authorization and time of every execution, in order *)

vars == <<verifiers, now, published, caches, issued, executed>>

-----------------------------------------------------------------------------
(***************************************************************************)
(* The engine and its keys                                                 *)
(***************************************************************************)

Issuer == "engine"
Secret == "engine_secret"

Key(kid) == [ kid |-> kid, alg |-> "Ed25519", public_key |-> Pem(<<"key", kid>>),
              status |-> "active", not_before |-> Absent, not_after |-> Absent ]

KeySet(keys) == [issuer |-> Issuer, keys |-> keys]

(* Newly issued artifacts reference the last key.                          *)
SigningKey == published.keys[Len(published.keys)]

(* What the engine returns for an intent it allows: signed with its key or *)
(* with its secret, and the legacy fields with the secret again.           *)
Authorization(intent_hash, audience, alg) ==
  LET kid  == IF alg = "Ed25519" THEN SigningKey.kid ELSE 0
      core == [ auth_id |-> <<intent_hash, audience, kid, now>>,
                issuer |-> Issuer, audience |-> audience, intent_hash |-> intent_hash,
                state_hash |-> "state", policy_id |-> "policy", decision |-> "ALLOW",
                issued_at |-> now, expiry |-> now + Ttl, alg |-> alg, kid |-> kid,
                nonce |-> "nonce", capability |-> "PROVISION",
                policy_version |-> "v1", state_snapshot_hash |-> "state",
                expires_at |-> now + Ttl, engine_signature |-> Absent, signature |-> Absent ]
      key  == IF alg = "Ed25519" THEN SigningKey.public_key.key ELSE Secret
  IN  [core EXCEPT
        !.engine_signature = Sign(Secret, "", LegacyPayload(core)),
        !.signature = Sign(key, "OXDEAI_AUTH_V1", SigningPayload(core))]

(* Another issuer's, by signAuthorizationEd25519, without optional fields. *)
BareAuthorization(intent_hash, audience) ==
  LET auth == Authorization(intent_hash, audience, "Ed25519")
  IN  SignAuthorization(
        [auth EXCEPT !.nonce = Absent, !.capability = Absent, !.engine_signature = Absent],
        SigningKey.public_key.key)

Issue ==
  /\ Cardinality(issued) < MaxIssued
  /\ SigningKey.status = "active"
  /\ \E intent_hash \in Intents, audience \in Parties :
       \E auth \in { Authorization(intent_hash, audience, "Ed25519"),
                     Authorization(intent_hash, audience, "HMAC-SHA256"),
                     BareAuthorization(intent_hash, audience) } :
         /\ \A other \in issued : other.auth_id # auth.auth_id
         /\ issued' = issued \cup {auth}
  /\ UNCHANGED <<verifiers, now, published, caches, executed>>

(* SPEC.md:544-562: a new key signs, the old one is kept to verify with,   *)
(* unless it is revoked.                                                   *)
Rotate ==
  /\ Len(published.keys) = 1
  /\ published' =
       KeySet(<< [SigningKey EXCEPT !.status = IF @ = "revoked" THEN @ ELSE "retired",
                                    !.not_after = now + Overlap],
                 [Key(2) EXCEPT !.not_before = now] >>)
  /\ UNCHANGED <<verifiers, now, caches, issued, executed>>

Revoke ==
  \E k \in DOMAIN published.keys :
    /\ published.keys[k].status # "revoked"
    /\ published' = [published EXCEPT !.keys[k].status = "revoked"]
    /\ UNCHANGED <<verifiers, now, caches, issued, executed>>

-----------------------------------------------------------------------------
(***************************************************************************)
(* The wire and the relying parties                                        *)
(***************************************************************************)

(* What may be handed to a party, any number of times and after any delay: *)
(* what was issued, and what is left of it with one field changed or lost. *)
Arriving ==
  issued \cup UNION { { [auth EXCEPT !.audience = party], [auth EXCEPT !.signature = Absent],
                        [auth EXCEPT !.expiry = @ + 1], [auth EXCEPT !.decision = "DENY"] }
                      : auth \in issued, party \in Parties }

Refresh ==
  \E party \in Parties :
    /\ caches' = [caches EXCEPT ![party] = published]
    /\ UNCHANGED <<verifiers, now, published, issued, executed>>

Options(party, keyset) ==
  [ now |-> now, expectedIssuer |-> Issuer, expectedAudience |-> party,
    expectedPolicyId |-> "policy", trustedKeySets |-> <<keyset>>, legacyHmacSecret |-> Secret,
    requireSignatureVerification |-> TRUE,
    consumedAuthIds |-> {executed[k].auth.auth_id :
                          k \in {j \in DOMAIN executed : executed[j].party = party}} ]

Codes(party, keyset, auth) == VerifyAuthorization(auth, Options(party, keyset))

(* To an implementation without the check every key is active, as it is to *)
(* the Rust verifier.                                                      *)
KeysSeen(keyset, omits) ==
  IF "AUTH_KEY_INACTIVE" \in omits
  THEN [keyset EXCEPT !.keys = [k \in DOMAIN @ |-> Key(@[k].kid)]]
  ELSE keyset

(* The same keys, written in another format.                               *)
InFormat(keyset, format) ==
  LET keys == keyset.keys
  IN  [keyset EXCEPT !.keys = [k \in DOMAIN keys |->
         [keys[k] EXCEPT !.public_key = KeyText(keys[k].public_key.key, format)]]]

(* A party runs the core's verifier or any other that conforms.            *)
Execute ==
  \E party \in Parties, auth \in Arriving, omits \in verifiers \cap SUBSET AuthorizationCodes :
    /\ Codes(party, KeysSeen(caches[party], omits), auth) \subseteq omits
    /\ executed' = Append(executed, [party |-> party, auth |-> auth, at |-> now])
    /\ UNCHANGED <<verifiers, now, published, caches, issued>>

Tick ==
  /\ now < MaxTime
  /\ now' = now + 1
  /\ UNCHANGED <<verifiers, published, caches, issued, executed>>

Init ==
  /\ verifiers = Conforming
  /\ now = 1
  /\ published = KeySet(<<Key(1)>>)
  /\ caches = [party \in Parties |-> published]
  /\ issued = {}
  /\ executed = << >>

Next == Issue \/ Rotate \/ Revoke \/ Refresh \/ Execute \/ Tick

Spec == Init /\ [][Next]_vars

-----------------------------------------------------------------------------
(***************************************************************************)
(* Properties                                                              *)
(***************************************************************************)

(* Whatever arrives, in whatever order and however often: what is executed *)
(* is what the engine issued, unchanged, by the party it was issued to,    *)
(* before it expires, and once - even by a verifier that only passes the   *)
(* conformance vectors.                                                    *)
ExecutedAsIssued ==
  \A k \in DOMAIN executed :
    /\ executed[k].auth \in issued
    /\ executed[k].party = executed[k].auth.audience
    /\ executed[k].at < executed[k].auth.expiry
    /\ \A j \in 1 .. k - 1 : executed[j].auth.auth_id # executed[k].auth.auth_id

(* SPEC.md:546, rotation does not invalidate what is still valid: with an  *)
(* overlap that reaches the last second of an authorization, the published *)
(* keys verify every one that was issued until it expires, is executed, or *)
(* its key is revoked.                                                     *)
RotationKeepsValid ==
  Overlap >= Ttl - 1 =>
    \A auth \in issued :
      LET key == FindKey(<<published>>, Issuer, auth.kid)
      IN  \/ auth.expiry <= now
          \/ auth.alg = "Ed25519" /\ key.status = "revoked"
          \/ Codes(auth.audience, published, auth) \in {{}, {"AUTH_REPLAY"}}

(* A party with an old key set takes nothing that the published set would  *)
(* not verify, revocation and the end of a retired key apart.              *)
StaleCacheFailsClosed ==
  \A party \in Parties, auth \in Arriving :
    Codes(party, caches[party], auth) = {} =>
      Codes(party, published, auth) \subseteq {"AUTH_KEY_INACTIVE"}

(* The three verifiers of an authorization agree, but for what each leaves *)
(* out and how it wants its keys.  The engine's takes one second more.  No *)
(* key set serves the core and the Rust verifier both: Rust finds the keys *)
(* malformed with which the core accepts, and the core refuses every       *)
(* Ed25519 signature with the keys that Rust can read.  Given those, the   *)
(* Rust one looks at no key's status, no policy and no replay, and as it   *)
(* does not know that a nonce or a capability is signed, as null when      *)
(* there is none, it ends at the signature of whatever the core accepts.   *)
AuthorizationVerifiersAgree ==
  \A party \in Parties, auth \in Arriving :
    LET codes == Codes(party, published, auth)
        Rust(format) == RustVerifyAuthorization(auth, InFormat(published, format), party, now)
        engine == EngineVerifyAuthorization(auth, auth.intent_hash, "v1", Secret, now)
        unchecked == {"AUTH_SIGNATURE_INVALID", "AUTH_KEY_INACTIVE", "AUTH_REPLAY"}
    IN  /\ "ok" \notin {Rust("PEM"), Rust("raw")}
        /\ Rust("raw") = "AUTH_SIGNATURE_INVALID" => codes \subseteq unchecked
        /\ Rust("PEM") = "AUTH_KEY_MALFORMED" <=> Rust("raw") = "AUTH_SIGNATURE_INVALID"
        /\ auth.alg = "Ed25519" =>
             /\ codes = {} => Rust("raw") = "AUTH_SIGNATURE_INVALID"
             /\ Codes(party, InFormat(published, "raw"), auth) # {}
        /\ auth \in issued /\ auth.engine_signature # Absent =>
             (engine = "valid" <=> ("AUTH_EXPIRED" \notin codes \/ auth.expiry = now))

(* The models reproduce every frozen verdict; and of the checks on an      *)
(* authorization the vectors let an implementation drop two: the activity  *)
(* of keys (docs/NON_FORGEABLE_VERIFICATION.md, section 10, asks for them) *)
(* and missing trust.  Every field of an EXECUTE intent is bound by one.   *)
VectorsCover ==
  /\ {} \in verifiers
  /\ UNION verifiers =
       { "asset", "authorization_id", "AUTH_KEY_INACTIVE", "AUTH_TRUST_MISSING",
         "ENVELOPE_KEY_INACTIVE", "ENVELOPE_TRUST_MISSING", "ENVELOPE_SIGNATURE_MISSING",
         "SNAPSHOT_CORRUPT", "POLICY_ID_MISSING", "MALFORMED_EVENT" }
=============================================================================
