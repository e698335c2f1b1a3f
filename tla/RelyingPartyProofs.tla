--------------------------- MODULE RelyingPartyProofs ---------------------------
(***************************************************************************)
(* RelyingParty, proved.  Signatures are records, so that one fits the     *)
(* payload it was made of and no other: that what is accepted was issued   *)
(* needs nothing of the keys.  What an implementation that passes the      *)
(* vectors may leave out is read off them: it cannot lack a code that some *)
(* frozen verdict has.  The keys matter for the other properties, which    *)
(* follow from when each key took over from the last.                      *)
(***************************************************************************)
EXTENDS RelyingParty, SequenceTheorems, TLAPS

(* A key set of one key, or of two: the place of a key is its kid.         *)
IsKeySetOf(ks, format) ==
  /\ ks \in KeySets
  /\ ks.issuer = Issuer
  /\ Len(ks.keys) \in {1, 2}
  /\ \A k \in DOMAIN ks.keys :
       /\ ks.keys[k].kid = k
       /\ ks.keys[k].alg = "Ed25519"
       /\ ks.keys[k].public_key = KeyText(<<"key", k>>, format)

IsKeySet(ks) == IsKeySetOf(ks, "PEM")

(* findKeyInKeySets in such a key set.                                     *)
LEMMA KeyFoundOf ==
  ASSUME NEW ks, NEW format, IsKeySetOf(ks, format), NEW kid
  PROVE  /\ kid \in DOMAIN ks.keys =>
              /\ FindKey(<<ks>>, Issuer, kid) = ks.keys[kid]
              /\ ks.keys[kid] \in KeyEntries
              /\ ks.keys[kid] # Absent
         /\ kid \notin DOMAIN ks.keys => FindKey(<<ks>>, Issuer, kid) = Absent
<1> DEFINE Fits(list, k) == list[k].kid = kid /\ list[k].alg = "Ed25519"
           First(list) == IF \E k \in DOMAIN list : Fits(list, k)
                          THEN list[CHOOSE k \in DOMAIN list :
                                 Fits(list, k) /\ \A j \in 1 .. k - 1 : ~Fits(list, j)]
                          ELSE Absent
           Issued(list, k) == list[k].issuer = Issuer
           Own(list) == IF \E k \in DOMAIN list : Issued(list, k)
                        THEN list[CHOOSE k \in DOMAIN list :
                               Issued(list, k) /\ \A j \in 1 .. k - 1 : ~Issued(list, j)]
                        ELSE Absent
           Within(keyset) == IF keyset = Absent THEN Absent ELSE First(keyset.keys)
<1>1. FindKey(<<ks>>, Issuer, kid) = Within(Own(<<ks>>))
  BY Zenon DEF FindKey
<1>2. /\ ks \in KeySets /\ ks # Absent /\ ks.issuer = Issuer
      /\ ks.keys \in Seq(KeyEntries)
      /\ \A k \in DOMAIN ks.keys : ks.keys[k].kid = k /\ ks.keys[k].alg = "Ed25519"
  BY AbsentAssumption DEF IsKeySet, IsKeySetOf, KeySets
<1>3. Own(<<ks>>) = ks
  BY <1>2
<1>4. Within(ks) = First(ks.keys)
  BY <1>2
<1>5. ASSUME kid \in DOMAIN ks.keys
      PROVE  First(ks.keys) = ks.keys[kid] /\ ks.keys[kid] \in KeyEntries /\ ks.keys[kid] # Absent
  <2>1. ks.keys[kid] \in KeyEntries /\ ks.keys[kid] # Absent /\ kid \in 1 .. Len(ks.keys)
    BY <1>2, <1>5, AbsentAssumption
  <2>2. /\ Fits(ks.keys, kid)
        /\ \A k \in DOMAIN ks.keys : Fits(ks.keys, k) => k = kid
        /\ \A j \in 1 .. kid - 1 : ~Fits(ks.keys, j)
    BY <1>2, <1>5, <2>1
  <2> QED  BY <1>5, <2>1, <2>2
<1>6. ASSUME kid \notin DOMAIN ks.keys
      PROVE  First(ks.keys) = Absent
  BY <1>2, <1>6
<1> HIDE DEF Within, Own, First
<1> QED  BY <1>1, <1>3, <1>4, <1>5, <1>6

LEMMA KeyFound ==
  ASSUME NEW ks, IsKeySet(ks), NEW kid
  PROVE  /\ kid \in DOMAIN ks.keys =>
              /\ FindKey(<<ks>>, Issuer, kid) = ks.keys[kid]
              /\ ks.keys[kid] \in KeyEntries
              /\ ks.keys[kid] # Absent
         /\ kid \notin DOMAIN ks.keys => FindKey(<<ks>>, Issuer, kid) = Absent
  BY KeyFoundOf, Zenon DEF IsKeySet

-----------------------------------------------------------------------------
(***************************************************************************)
(* Authorizations                                                          *)
(***************************************************************************)

Domain == "OXDEAI_AUTH_V1"

Fields == SignedFields \cup
  {"policy_version", "state_snapshot_hash", "expires_at", "engine_signature", "signature"}

SignerOf(auth) == IF auth.alg = "Ed25519" THEN <<"key", auth.kid>> ELSE Secret

(* What the engine, or another issuer, makes.                              *)
Made(auth) ==
  /\ auth = [f \in Fields |-> auth[f]]
  /\ auth.auth_id \in AuthIds
  /\ auth.issuer = Issuer
  /\ auth.audience \in Parties
  /\ auth.intent_hash \in Intents
  /\ auth.state_hash = "state" /\ auth.policy_id = "policy" /\ auth.decision = "ALLOW"
  /\ auth.issued_at \in Nat /\ auth.expiry = auth.issued_at + Ttl
  /\ \/ auth.alg = "Ed25519" /\ auth.kid \in {1, 2}
     \/ auth.alg = "HMAC-SHA256" /\ auth.kid = 0
  /\ {auth.nonce, auth.capability} \subseteq Texts \cup {Absent}
  /\ auth.policy_version = "v1" /\ auth.expires_at = auth.expiry
  /\ auth.engine_signature \in {Absent, Sign(Secret, "", LegacyPayload(auth))}
  /\ auth.signature = Sign(SignerOf(auth), Domain, SigningPayload(auth))

LEMMA MadeSigned ==
  ASSUME NEW auth, Made(auth)
  PROVE  /\ auth.signature \in Signatures
         /\ \A f \in TextFields \cup {"issued_at", "expiry"} : auth[f] # Absent
<1>1. /\ auth.auth_id \in AuthIds /\ auth.issuer \in Texts /\ auth.audience \in Parties
      /\ auth.intent_hash \in Intents /\ auth.state_hash \in Texts /\ auth.policy_id \in Texts
      /\ auth.decision \in Texts /\ auth.issued_at \in Nat /\ auth.expiry \in Nat
      /\ auth.alg \in Texts /\ auth.kid \in Nat
      /\ auth.nonce \in Texts \cup {Absent} /\ auth.capability \in Texts \cup {Absent}
  <2>1. {"engine", "state", "policy", "ALLOW", "Ed25519", "HMAC-SHA256"} \subseteq Texts
    BY DEF Texts
  <2>2. auth.issued_at \in Nat /\ auth.expiry \in Nat /\ auth.kid \in Nat
    <3>1. auth.issued_at \in Nat /\ auth.expiry = auth.issued_at + Ttl /\ auth.kid \in {0, 1, 2}
      BY Zenon DEF Made
    <3> QED  BY <3>1, LifetimeAssumption
  <2>3. auth.nonce \in Texts \cup {Absent} /\ auth.capability \in Texts \cup {Absent}
    BY DEF Made
  <2> QED  BY <2>1, <2>2, <2>3, Zenon DEF Made, Issuer
<1>2. \A f \in SignedFields : auth[f] \in Values \cup AuthIds \cup {Absent}
  BY <1>1 DEF SignedFields, Values
<1>3. SigningPayload(auth) \in [SignedFields -> Values \cup AuthIds \cup {Absent}]
  BY <1>2 DEF SigningPayload
<1>4. SignerOf(auth) \in Texts \cup Keys /\ Domain \in Texts
  <2>1. "engine_secret" \in Texts /\ "OXDEAI_AUTH_V1" \in Texts
    BY DEF Texts
  <2>2. <<"key", auth.kid>> \in {"key"} \X Nat
    BY <1>1
  <2> QED  BY <2>1, <2>2, Zenon DEF SignerOf, Secret, Keys, Domain
<1>5. auth.signature \in Signatures
  <2> DEFINE signer == SignerOf(auth)
             payload == SigningPayload(auth)
  <2>1. auth.signature = [key |-> signer, domain |-> Domain, payload |-> payload]
    BY Zenon DEF Made, Sign
  <2> HIDE DEF signer, payload
  <2> QED  BY <1>3, <1>4, <2>1 DEF Signatures, signer, payload
<1> QED  BY <1>1, <1>5, AbsentAssumption DEF TextFields, Values

(* A signature of what was made fits no other payload.                     *)
LEMMA SignatureFits ==
  ASSUME NEW made, Made(made), NEW auth, NEW key,
         auth = [f \in Fields |-> auth[f]],
         auth.signature = made.signature,
         \A f \in Fields \ SignedFields : auth[f] = made[f],
         Verify(Domain, SigningPayload(auth), auth.signature, key)
  PROVE  auth = made
<1>1. SigningPayload(auth) = SigningPayload(made)
  <2> DEFINE one == SigningPayload(auth)
             other == SigningPayload(made)
             signer == SignerOf(made)
  <2>1. /\ auth.signature = [key |-> key, domain |-> Domain, payload |-> one]
        /\ auth.signature = [key |-> signer, domain |-> Domain, payload |-> other]
    BY Zenon DEF Verify, Sign, Made
  <2> HIDE DEF one, other, signer
  <2>2. one = other
    BY <2>1
  <2> QED  BY <2>2 DEF one, other
<1>2. \A f \in SignedFields : auth[f] = made[f]
  BY <1>1 DEF SigningPayload
<1>3. \A f \in Fields : auth[f] = made[f]
  BY <1>2
<1> QED  BY <1>3 DEF Made

-----------------------------------------------------------------------------
(***************************************************************************)
(* Verdicts                                                                *)
(***************************************************************************)

(* A code that the verdict lacks is one whose condition does not hold.     *)
LEMMA VerdictSays ==
  ASSUME NEW auth, NEW opts
  PROVE  LET codes == VerifyAuthorization(auth, opts)
         IN  /\ "AUTH_DECISION_INVALID" \notin codes => auth.decision = "ALLOW"
             /\ "AUTH_MISSING_FIELD" \notin codes =>
                  \A f \in TextFields \cup {"issued_at", "expiry"} : auth[f] # Absent
             /\ "AUTH_EXPIRED" \notin codes => ~Expired(auth, opts.now)
             /\ "AUTH_AUDIENCE_MISMATCH" \notin codes =>
                  opts.expectedAudience \in {Absent, auth.audience}
             /\ "AUTH_REPLAY" \notin codes => ~Consumed(auth, opts)
             /\ AuthorizationSignatureCodes(auth, opts) \subseteq codes
<1> DEFINE sig == AuthorizationSignatureCodes(auth, opts)
<1> HIDE DEF sig
<1>1. VerifyAuthorization(auth, opts) = UNION {
    When("AUTH_DECISION_INVALID", auth.decision # "ALLOW"),
    When("AUTH_MISSING_FIELD",
         \E f \in TextFields \cup {"issued_at", "expiry"} : auth[f] = Absent),
    When("AUTH_EXPIRED", Expired(auth, opts.now)),
    When("AUTH_ISSUER_MISMATCH", opts.expectedIssuer \notin {Absent, auth.issuer}),
    When("AUTH_AUDIENCE_MISMATCH", opts.expectedAudience \notin {Absent, auth.audience}),
    When("AUTH_POLICY_ID_MISMATCH", opts.expectedPolicyId \notin {Absent, auth.policy_id}),
    When("AUTH_REPLAY", Consumed(auth, opts)),
    sig }
  BY Zenon DEF VerifyAuthorization, sig
<1>2. sig \subseteq VerifyAuthorization(auth, opts)
  BY <1>1
<1>3. /\ "AUTH_DECISION_INVALID" \notin VerifyAuthorization(auth, opts) => auth.decision = "ALLOW"
      /\ "AUTH_MISSING_FIELD" \notin VerifyAuthorization(auth, opts) =>
           \A f \in TextFields \cup {"issued_at", "expiry"} : auth[f] # Absent
  BY <1>1 DEF When
<1>4. "AUTH_EXPIRED" \notin VerifyAuthorization(auth, opts) => ~Expired(auth, opts.now)
  BY <1>1 DEF When
<1>5. "AUTH_AUDIENCE_MISMATCH" \notin VerifyAuthorization(auth, opts) =>
           opts.expectedAudience \in {Absent, auth.audience}
  BY <1>1 DEF When
<1>6. "AUTH_REPLAY" \notin VerifyAuthorization(auth, opts) => ~Consumed(auth, opts)
  BY <1>1 DEF When
<1> QED  BY <1>2, <1>3, <1>4, <1>5, <1>6 DEF sig

(* Of the checks on an authorization, an implementation that passes the    *)
(* vectors may leave out two.                                              *)
Optional == {"AUTH_KEY_INACTIVE", "AUTH_TRUST_MISSING"}

LEMMA VectorsBind ==
  ASSUME NEW omits \in Conforming, omits \subseteq AuthorizationCodes
  PROVE  omits = {} \/ \E code \in Optional : omits = {code}
<1>1. Conforms(omits) /\ (omits = {} \/ \E o : omits = {o})
  BY Zenon DEF Conforming
<1>2. SUFFICES ASSUME NEW o \in AuthorizationCodes \ Optional, omits = {o}
               PROVE  FALSE
  BY <1>1
<1>3. ASSUME NEW v \in AuthorizationVerificationVectors \cup AuthorizationSignatureVectors
      PROVE  o \notin v.codes
  <2>1. VerifyAuthorization(v.auth, v.opts) \ omits = v.codes
    BY <1>1, <1>3 DEF Conforms, ValidateAuthorizationVerificationVectors,
                      ValidateAuthorizationSignatureVectors
  <2> QED  BY <1>2, <2>1
<1>4. ASSUME NEW code \in AuthorizationCodes \ Optional
      PROVE  \E v \in AuthorizationVerificationVectors \cup AuthorizationSignatureVectors : code \in v.codes
  <2> DEFINE auth == [TestAuthorization EXCEPT !.signature = "legacy-placeholder"]
             signed == SignedAuthorizationBase
             trusting == [At(110) EXCEPT !.expectedIssuer = "oxdeai.policy-engine",
                            !.expectedAudience = "merchant-gateway",
                            !.expectedPolicyId = "policy", !.trustedKeySets = <<TestKeySet>>,
                            !.requireSignatureVerification = TRUE]
             Vector(a, how, c) == [auth |-> a, opts |-> how, codes |-> {c}]
             All == AuthorizationVerificationVectors \cup AuthorizationSignatureVectors
  <2>1. /\ Vector([auth EXCEPT !.expiry = 120], At(120), "AUTH_EXPIRED") \in All
        /\ Vector([auth EXCEPT !.intent_hash = Absent, !.issued_at = Absent], At(110),
                  "AUTH_MISSING_FIELD") \in All
        /\ Vector([auth EXCEPT !.decision = "DENY"], At(110), "AUTH_DECISION_INVALID") \in All
        /\ Vector(auth, [At(110) EXCEPT !.consumedAuthIds = {"auth"}], "AUTH_REPLAY") \in All
    BY Zenon DEF AuthorizationVerificationVectors
  <2>2. /\ Vector(auth, [At(110) EXCEPT !.expectedAudience = "vault-service"],
                  "AUTH_AUDIENCE_MISMATCH") \in All
        /\ Vector(auth, [At(110) EXCEPT !.expectedIssuer = "other-issuer"],
                  "AUTH_ISSUER_MISMATCH") \in All
        /\ Vector(auth, [At(110) EXCEPT !.expectedPolicyId = "other"],
                  "AUTH_POLICY_ID_MISMATCH") \in All
    BY Zenon DEF AuthorizationVerificationVectors
  <2>3. /\ Vector([signed EXCEPT !.kid = "unknown-kid"], trusting, "AUTH_KID_UNKNOWN") \in All
        /\ Vector([signed EXCEPT !.state_hash = "tampered"], trusting,
                  "AUTH_SIGNATURE_INVALID") \in All
        /\ Vector([signed EXCEPT !.alg = "Unknown"], trusting, "AUTH_ALG_UNSUPPORTED") \in All
    BY Zenon DEF AuthorizationSignatureVectors
  <2> DEFINE Covers(c) == \E v \in All : c \in v.codes
  <2>4. \A a, o1, c : Vector(a, o1, c) \in All => Covers(c)
    <3> HIDE DEF All
    <3>1. \A a, o1, c : c \in Vector(a, o1, c).codes
      OBVIOUS
    <3> HIDE DEF Vector
    <3> QED  BY <3>1, Zenon
  <2> HIDE DEF Vector, All, auth, signed, trusting, Covers
  <2>5. /\ Covers("AUTH_EXPIRED") /\ Covers("AUTH_MISSING_FIELD")
        /\ Covers("AUTH_DECISION_INVALID") /\ Covers("AUTH_REPLAY")
    BY <2>1, <2>4, Zenon
  <2>6. /\ Covers("AUTH_AUDIENCE_MISMATCH") /\ Covers("AUTH_ISSUER_MISMATCH")
        /\ Covers("AUTH_POLICY_ID_MISMATCH")
    BY <2>2, <2>4, Zenon
  <2>7. /\ Covers("AUTH_KID_UNKNOWN") /\ Covers("AUTH_SIGNATURE_INVALID")
        /\ Covers("AUTH_ALG_UNSUPPORTED")
    BY <2>3, <2>4, Zenon
  <2>8. Covers(code)
    BY <2>5, <2>6, <2>7 DEF AuthorizationCodes, Optional
  <2> QED  BY <2>8 DEF All, Covers
<1> QED  BY <1>3, <1>4

(* What decides of a signature that is there, by an algorithm that is      *)
(* known, when there is something to verify it with.                       *)
Checkable(auth, opts) ==
  /\ auth.alg \in {"Ed25519", "HMAC-SHA256"}
  /\ Absent \notin {auth.alg, auth.kid, auth.signature}
  /\ opts.trustedKeySets # << >> /\ opts.legacyHmacSecret # Absent

LEMMA SignatureVerdict ==
  ASSUME NEW auth, NEW opts, Checkable(auth, opts)
  PROVE  LET key == FindKey(opts.trustedKeySets, auth.issuer, auth.kid)
             fits(k) == Verify(Domain, SigningPayload(auth), auth.signature, k)
             checks(t) == VerifyEd25519(Domain, SigningPayload(auth), auth.signature, t)
         IN  /\ auth.alg = "Ed25519" =>
                  AuthorizationSignatureCodes(auth, opts) =
                    IF key = Absent THEN {"AUTH_KID_UNKNOWN"}
                    ELSE IF ~KeyIsActiveAt(key, opts.now) THEN {"AUTH_KEY_INACTIVE"}
                    ELSE When("AUTH_SIGNATURE_INVALID", ~checks(key.public_key))
             /\ auth.alg = "HMAC-SHA256" =>
                  AuthorizationSignatureCodes(auth, opts) =
                    When("AUTH_SIGNATURE_INVALID", ~fits(opts.legacyHmacSecret))
<1> DEFINE key == FindKey(opts.trustedKeySets, auth.issuer, auth.kid)
           payload == SigningPayload(auth)
           fits(k) == Verify(Domain, payload, auth.signature, k)
           checks(t) == VerifyEd25519(Domain, payload, auth.signature, t)
           sig == AuthorizationSignatureCodes(auth, opts)
<1> USE DEF Checkable
<1>1. ASSUME auth.alg = "Ed25519"
      PROVE  sig = IF key = Absent THEN {"AUTH_KID_UNKNOWN"}
                   ELSE IF ~KeyIsActiveAt(key, opts.now) THEN {"AUTH_KEY_INACTIVE"}
                   ELSE When("AUTH_SIGNATURE_INVALID", ~checks(key.public_key))
  <2> DEFINE codes == [ unknown |-> "AUTH_KID_UNKNOWN", inactive |-> "AUTH_KEY_INACTIVE",
                        invalid |-> "AUTH_SIGNATURE_INVALID" ]
  <2>1. sig = SignatureCodes(auth, Domain, payload, opts.trustedKeySets, opts.now, codes)
    BY <1>1 DEF AuthorizationSignatureCodes, Domain
  <2>2. codes.unknown = "AUTH_KID_UNKNOWN" /\ codes.inactive = "AUTH_KEY_INACTIVE"
          /\ codes.invalid = "AUTH_SIGNATURE_INVALID"
    OBVIOUS
  <2> HIDE DEF codes, sig, payload
  <2>3. SignatureCodes(auth, Domain, payload, opts.trustedKeySets, opts.now, codes) =
            IF key = Absent THEN {codes.unknown}
            ELSE IF ~KeyIsActiveAt(key, opts.now) THEN {codes.inactive}
            ELSE When(codes.invalid, ~checks(key.public_key))
    BY Zenon DEF SignatureCodes
  <2> QED  BY <2>1, <2>2, <2>3, Zenon
<1>2. ASSUME auth.alg = "HMAC-SHA256"
      PROVE  sig = When("AUTH_SIGNATURE_INVALID", ~fits(opts.legacyHmacSecret))
  <2> HIDE DEF payload
  <2> QED  BY <1>2 DEF AuthorizationSignatureCodes, Domain, payload
<1> HIDE DEF Checkable
<1> QED  BY <1>1, <1>2, Zenon

(* A verdict without the codes of a signature is the verdict on a          *)
(* signature that verifies.                                                *)
LEMMA SignatureChecked ==
  ASSUME NEW auth, NEW opts, NEW omits, Checkable(auth, opts), omits \subseteq Optional,
         "AUTH_KEY_INACTIVE" \in omits =>
           \/ FindKey(opts.trustedKeySets, auth.issuer, auth.kid) = Absent
           \/ KeyIsActiveAt(FindKey(opts.trustedKeySets, auth.issuer, auth.kid), opts.now),
         AuthorizationSignatureCodes(auth, opts) \subseteq omits
  PROVE  \E key : Verify(Domain, SigningPayload(auth), auth.signature, key)
<1> DEFINE key == FindKey(opts.trustedKeySets, auth.issuer, auth.kid)
           fits(k) == Verify(Domain, SigningPayload(auth), auth.signature, k)
           checks(t) == VerifyEd25519(Domain, SigningPayload(auth), auth.signature, t)
           sig == AuthorizationSignatureCodes(auth, opts)
<1>1. /\ auth.alg = "Ed25519" =>
            sig = IF key = Absent THEN {"AUTH_KID_UNKNOWN"}
                  ELSE IF ~KeyIsActiveAt(key, opts.now) THEN {"AUTH_KEY_INACTIVE"}
                  ELSE When("AUTH_SIGNATURE_INVALID", ~checks(key.public_key))
      /\ auth.alg = "HMAC-SHA256" =>
            sig = When("AUTH_SIGNATURE_INVALID", ~fits(opts.legacyHmacSecret))
  BY SignatureVerdict, Zenon
<1>2. auth.alg = "Ed25519" \/ auth.alg = "HMAC-SHA256"
  BY DEF Checkable
<1>3. "AUTH_KEY_INACTIVE" \in omits => key = Absent \/ KeyIsActiveAt(key, opts.now)
  BY Zenon
<1>4. sig \subseteq omits
  OBVIOUS
<1> HIDE DEF key, fits, checks, sig
<1>5. checks(key.public_key) \/ fits(opts.legacyHmacSecret)
  BY <1>1, <1>2, <1>3, <1>4 DEF Optional, When
<1> QED  BY <1>5, Zenon DEF fits, checks, VerifyEd25519

(* What arrives was issued, or it is that but for one field.               *)
Altered(made, auth) ==
  /\ auth = [f \in Fields |-> auth[f]]
  /\ \E changed \in {"audience", "signature", "expiry", "decision"} :
       /\ \A f \in Fields \ {changed} : auth[f] = made[f]
       /\ changed = "signature" => auth.signature = Absent
       /\ changed = "decision" => auth.decision = "DENY"
       /\ changed = "expiry" => auth.expiry = made.expiry + 1
       /\ changed = "audience" => auth.audience \in Parties

LEMMA ArrivesAltered ==
  ASSUME NEW auth \in Arriving, \A made \in issued : Made(made)
  PROVE  \E made \in issued : auth = made \/ Altered(made, auth)
<1>1. CASE auth \in issued
  BY <1>1
<1>2. ASSUME auth \notin issued
      PROVE  \E made \in issued : Altered(made, auth)
  <2>1. PICK made \in issued, party \in Parties :
               \/ auth = [made EXCEPT !.audience = party]
               \/ auth = [made EXCEPT !.signature = Absent]
               \/ auth = [made EXCEPT !.expiry = made.expiry + 1]
               \/ auth = [made EXCEPT !.decision = "DENY"]
    BY <1>2 DEF Arriving
  <2>2. made = [f \in Fields |-> made[f]]
    BY DEF Made
  <2>3. {"audience", "signature", "expiry", "decision"} \subseteq Fields
    BY DEF Fields, SignedFields
  <2>4. Altered(made, auth)
    BY <2>1, <2>2, <2>3 DEF Altered
  <2> QED  BY <2>4
<1> QED  BY <1>1, <1>2

-----------------------------------------------------------------------------
(***************************************************************************)
(* The engine                                                              *)
(***************************************************************************)

Algorithms == {"Ed25519", "HMAC-SHA256"}

LEMMA LastKeySigns ==
  ASSUME IsKeySet(published)
  PROVE  /\ SigningKey \in KeyEntries
         /\ SigningKey.kid = Len(published.keys)
         /\ SigningKey.public_key = Pem(<<"key", SigningKey.kid>>)
         /\ SigningKey.kid \in {1, 2}
<1>1. /\ published.keys \in Seq(KeyEntries) /\ Len(published.keys) \in {1, 2}
      /\ \A k \in DOMAIN published.keys :
           published.keys[k].kid = k /\ published.keys[k].public_key = Pem(<<"key", k>>)
  BY DEF IsKeySet, IsKeySetOf, KeySets, Pem
<1>2. Len(published.keys) \in DOMAIN published.keys
  <2>1. DOMAIN published.keys = 1 .. Len(published.keys)
    BY <1>1, LenProperties
  <2>2. Len(published.keys) \in 1 .. Len(published.keys)
    <3>1. \A n \in {1, 2} : n \in 1 .. n
      OBVIOUS
    <3> QED  BY <1>1, <3>1, Zenon
  <2> QED  BY <2>1, <2>2, Zenon
<1>3. SigningKey = published.keys[Len(published.keys)] /\ Len(published.keys) \in {1, 2}
  BY <1>1 DEF SigningKey
<1>4. SigningKey \in KeyEntries
  BY <1>1, <1>2, <1>3, ElementOfSeq
<1>5. /\ SigningKey.kid = Len(published.keys)
      /\ SigningKey.public_key = Pem(<<"key", Len(published.keys)>>)
  BY <1>1, <1>2, <1>3, Zenon
<1> QED  BY <1>3, <1>4, <1>5

(* The fields that every authorization gets, and those that are signed.    *)
Common(auth, intent_hash, audience, alg) ==
  /\ auth = [f \in Fields |-> auth[f]]
  /\ auth.issuer = Issuer /\ auth.audience = audience /\ auth.intent_hash = intent_hash
  /\ auth.state_hash = "state" /\ auth.policy_id = "policy" /\ auth.decision = "ALLOW"
  /\ auth.issued_at = now /\ auth.expiry = now + Ttl /\ auth.alg = alg
  /\ auth.kid = IF alg = "Ed25519" THEN SigningKey.kid ELSE 0
  /\ auth.auth_id = <<intent_hash, audience, auth.kid, now>>
  /\ auth.policy_version = "v1" /\ auth.expires_at = now + Ttl

LEMMA EngineMakes ==
  ASSUME NEW intent_hash, NEW audience, NEW alg \in Algorithms
  PROVE  LET auth == Authorization(intent_hash, audience, alg)
         IN  /\ Common(auth, intent_hash, audience, alg)
             /\ auth.nonce = "nonce" /\ auth.capability = "PROVISION"
             /\ auth.engine_signature = Sign(Secret, "", LegacyPayload(auth))
             /\ auth.signature = Sign(IF alg = "Ed25519" THEN SigningKey.public_key.key ELSE Secret,
                                      Domain, SigningPayload(auth))
<1> DEFINE kid == IF alg = "Ed25519" THEN SigningKey.kid ELSE 0
           key == IF alg = "Ed25519" THEN SigningKey.public_key.key ELSE Secret
           core == [ auth_id |-> <<intent_hash, audience, kid, now>>,
                issuer |-> Issuer, audience |-> audience, intent_hash |-> intent_hash,
                state_hash |-> "state", policy_id |-> "policy", decision |-> "ALLOW",
                issued_at |-> now, expiry |-> now + Ttl, alg |-> alg, kid |-> kid,
                nonce |-> "nonce", capability |-> "PROVISION",
                policy_version |-> "v1", state_snapshot_hash |-> "state",
                expires_at |-> now + Ttl, engine_signature |-> Absent, signature |-> Absent ]
           legacy == Sign(Secret, "", LegacyPayload(core))
           signed == Sign(key, Domain, SigningPayload(core))
           auth == [core EXCEPT !.engine_signature = legacy, !.signature = signed]
<1>1. Authorization(intent_hash, audience, alg) = auth
  BY Zenon DEF Authorization, Domain
<1>2. core = [f \in Fields |-> core[f]]
  BY DEF Fields, SignedFields
<1> HIDE DEF legacy, signed, kid, key
<1>3. /\ auth = [f \in Fields |-> auth[f]]
      /\ \A f \in Fields \ {"engine_signature", "signature"} : auth[f] = core[f]
      /\ auth.engine_signature = legacy /\ auth.signature = signed
  <2>1. {"engine_signature", "signature"} \subseteq Fields
    BY DEF Fields
  <2> HIDE DEF core
  <2> QED  BY <1>2, <2>1
<1>4. SigningPayload(auth) = SigningPayload(core)
  <2>1. SignedFields \subseteq Fields \ {"engine_signature", "signature"}
    BY DEF Fields, SignedFields
  <2> HIDE DEF core, auth
  <2> QED  BY <1>3, <2>1 DEF SigningPayload
<1>5. LegacyPayload(auth) = LegacyPayload(core)
  <2>1. {"intent_hash", "policy_version", "state_snapshot_hash", "decision", "expires_at"}
          \subseteq Fields \ {"engine_signature", "signature"}
    BY DEF Fields, SignedFields
  <2> HIDE DEF core, auth
  <2> QED  BY <1>3, <2>1 DEF LegacyPayload
<1>6. Common(auth, intent_hash, audience, alg) /\ auth.nonce = "nonce" /\ auth.capability = "PROVISION"
  BY <1>3 DEF Common, kid
<1> HIDE DEF core, auth
<1> QED  BY <1>1, <1>3, <1>4, <1>5, <1>6, Zenon DEF signed, legacy, key

LEMMA AnotherIssuerMakes ==
  ASSUME NEW intent_hash, NEW audience
  PROVE  LET auth == BareAuthorization(intent_hash, audience)
         IN  /\ Common(auth, intent_hash, audience, "Ed25519")
             /\ auth.nonce = Absent /\ auth.capability = Absent
             /\ auth.engine_signature = Absent
             /\ auth.signature = Sign(SigningKey.public_key.key, Domain, SigningPayload(auth))
<1> DEFINE full == Authorization(intent_hash, audience, "Ed25519")
           bare == [full EXCEPT !.nonce = Absent, !.capability = Absent, !.engine_signature = Absent]
           unsigned == [bare EXCEPT !.alg = "Ed25519"]
           signed == Sign(SigningKey.public_key.key, Domain, SigningPayload(unsigned))
           auth == [unsigned EXCEPT !.signature = signed]
<1>1. BareAuthorization(intent_hash, audience) = auth
  BY Zenon DEF BareAuthorization, SignAuthorization, Domain
<1>2. Common(full, intent_hash, audience, "Ed25519")
  <2> HIDE DEF full
  <2> QED  BY EngineMakes, Zenon DEF Algorithms, full
<1>3. {"nonce", "capability", "engine_signature", "alg", "signature"} \subseteq Fields
  BY DEF Fields, SignedFields
<1> HIDE DEF full
<1>4. unsigned = [f \in Fields |-> unsigned[f]]
  BY <1>2, <1>3 DEF Common
<1>5. /\ \A f \in Fields \ {"nonce", "capability", "engine_signature"} : unsigned[f] = full[f]
      /\ unsigned.nonce = Absent /\ unsigned.capability = Absent
      /\ unsigned.engine_signature = Absent
  BY <1>2, <1>3 DEF Common
<1> HIDE DEF unsigned, signed
<1>6. /\ auth = [f \in Fields |-> auth[f]]
      /\ \A f \in Fields \ {"signature"} : auth[f] = unsigned[f]
      /\ auth.signature = signed
  BY <1>3, <1>4
<1> HIDE DEF auth
<1>7. SigningPayload(auth) = SigningPayload(unsigned)
  <2>1. SignedFields \subseteq Fields \ {"signature"}
    BY DEF Fields, SignedFields
  <2> QED  BY <1>6, <2>1 DEF SigningPayload
<1>8. /\ Common(auth, intent_hash, audience, "Ed25519")
      /\ auth.nonce = Absent /\ auth.capability = Absent /\ auth.engine_signature = Absent
  <2>1. {"issuer", "audience", "intent_hash", "state_hash", "policy_id", "decision", "issued_at",
         "expiry", "alg", "kid", "auth_id", "policy_version", "expires_at"}
          \subseteq Fields \ {"nonce", "capability", "engine_signature", "signature"}
    BY DEF Fields, SignedFields
  <2>2. {"nonce", "capability", "engine_signature"} \subseteq Fields \ {"signature"}
    BY DEF Fields, SignedFields
  <2> QED  BY <1>2, <1>5, <1>6, <2>1, <2>2 DEF Common
<1> QED  BY <1>1, <1>6, <1>7, <1>8, Zenon DEF signed

LEMMA IssuedIsMade ==
  ASSUME IsKeySet(published), now \in Nat,
         NEW intent_hash \in Intents, NEW audience \in Parties,
         NEW auth \in { Authorization(intent_hash, audience, "Ed25519"),
                        Authorization(intent_hash, audience, "HMAC-SHA256"),
                        BareAuthorization(intent_hash, audience) }
  PROVE  /\ Made(auth)
         /\ auth.issued_at = now
         /\ auth.alg = "Ed25519" => auth.kid = Len(published.keys)
<1>1. PICK alg \in Algorithms :
        /\ Common(auth, intent_hash, audience, alg)
        /\ {auth.nonce, auth.capability} \subseteq Texts \cup {Absent}
        /\ auth.engine_signature \in {Absent, Sign(Secret, "", LegacyPayload(auth))}
        /\ auth.signature = Sign(IF alg = "Ed25519" THEN SigningKey.public_key.key ELSE Secret,
                                 Domain, SigningPayload(auth))
  <2>1. {"nonce", "PROVISION"} \subseteq Texts
    BY DEF Texts
  <2>2. CASE auth = BareAuthorization(intent_hash, audience)
    <3>1. /\ Common(auth, intent_hash, audience, "Ed25519")
          /\ auth.nonce = Absent /\ auth.capability = Absent /\ auth.engine_signature = Absent
          /\ auth.signature = Sign(SigningKey.public_key.key, Domain, SigningPayload(auth))
      BY <2>2, AnotherIssuerMakes, Zenon
    <3> DEFINE signed(k) == Sign(k, Domain, SigningPayload(auth))
               legacy == Sign(Secret, "", LegacyPayload(auth))
    <3> HIDE DEF signed, legacy
    <3> QED  BY <3>1 DEF Algorithms, signed, legacy
  <2>3. CASE \E alg \in Algorithms : auth = Authorization(intent_hash, audience, alg)
    <3>1. PICK alg \in Algorithms : auth = Authorization(intent_hash, audience, alg)
      BY <2>3
    <3>2. /\ Common(auth, intent_hash, audience, alg)
          /\ auth.nonce = "nonce" /\ auth.capability = "PROVISION"
          /\ auth.engine_signature = Sign(Secret, "", LegacyPayload(auth))
          /\ auth.signature = Sign(IF alg = "Ed25519" THEN SigningKey.public_key.key ELSE Secret,
                                   Domain, SigningPayload(auth))
      BY <3>1, EngineMakes, Zenon
    <3> DEFINE signed(k) == Sign(k, Domain, SigningPayload(auth))
               legacy == Sign(Secret, "", LegacyPayload(auth))
    <3> HIDE DEF signed, legacy
    <3> QED  BY <2>1, <3>2 DEF signed, legacy
  <2> QED  BY <2>2, <2>3 DEF Algorithms
<1>2. /\ SigningKey.kid \in {1, 2} /\ SigningKey.kid = Len(published.keys)
      /\ SigningKey.public_key = Pem(<<"key", SigningKey.kid>>)
  BY LastKeySigns, Zenon
<1>3. /\ auth.kid \in {0, 1, 2}
      /\ auth.alg = alg /\ alg \in Algorithms
      /\ auth.alg = "Ed25519" => auth.kid = SigningKey.kid
      /\ auth.alg = "HMAC-SHA256" => auth.kid = 0
  BY <1>1, <1>2 DEF Common, Algorithms
<1>4. auth.auth_id \in AuthIds
  <2>1. auth.auth_id = <<intent_hash, audience, auth.kid, now>>
    BY <1>1, Zenon DEF Common
  <2>2. auth.kid \in Nat
    BY <1>3
  <2> QED  BY <2>1, <2>2 DEF AuthIds
<1>5. auth.signature = Sign(SignerOf(auth), Domain, SigningPayload(auth))
  <2>1. (IF alg = "Ed25519" THEN SigningKey.public_key.key ELSE Secret) = SignerOf(auth)
    BY <1>2, <1>3 DEF SignerOf, Pem, KeyText
  <2> QED  BY <1>1, <2>1, Zenon
<1>6. auth.issued_at = now /\ auth.expiry = now + Ttl /\ auth.expires_at = auth.expiry
  BY <1>1, Zenon DEF Common
<1>7. \/ auth.alg = "Ed25519" /\ auth.kid \in {1, 2}
      \/ auth.alg = "HMAC-SHA256" /\ auth.kid = 0
  BY <1>2, <1>3 DEF Algorithms
<1>8. Made(auth)
  BY <1>1, <1>4, <1>5, <1>6, <1>7, Zenon DEF Made, Common
<1> QED  BY <1>2, <1>3, <1>6, <1>8

-----------------------------------------------------------------------------
(***************************************************************************)
(* The invariant                                                           *)
(***************************************************************************)

KeysInv ==
  /\ now \in Nat
  /\ verifiers = Conforming
  /\ IsKeySet(published)
  /\ DOMAIN caches = Parties
  /\ \A party \in Parties : IsKeySet(caches[party])

IssuedInv ==
  /\ \A auth \in issued : Made(auth)
  /\ \A auth, other \in issued : auth.auth_id = other.auth_id => auth = other

ExecutedInv ==
  /\ \E Executions : executed \in Seq(Executions)
  /\ \A k \in DOMAIN executed : executed[k].party \in Parties
  /\ ExecutedAsIssued

(* Since when a key set is in use: the second key has taken over from the  *)
(* first one, which ends an overlap later.                                 *)
InUse(keys) ==
  /\ keys[1].not_before = Absent
  /\ Len(keys) = 1 => keys[1].not_after = Absent
  /\ Len(keys) = 2 =>
       /\ keys[2].not_before \in Nat /\ keys[2].not_before <= now
       /\ keys[1].not_after = keys[2].not_before + Overlap
       /\ keys[2].not_after = Absent

TimesInv ==
  /\ InUse(published.keys)
  /\ \A party \in Parties : Len(caches[party].keys) <= Len(published.keys)
  /\ \A auth \in issued :
       /\ auth.issued_at <= now
       /\ auth.alg = "Ed25519" => auth.kid <= Len(published.keys)
       /\ auth.alg = "Ed25519" /\ auth.kid = 1 /\ Len(published.keys) = 2 =>
            auth.issued_at <= published.keys[2].not_before

Inv == KeysInv /\ IssuedInv /\ ExecutedInv /\ TimesInv

(* To a verifier that does not look at it every key is active.             *)
LEMMA EveryKeySeenActive ==
  ASSUME NEW ks, IsKeySet(ks), NEW omits, "AUTH_KEY_INACTIVE" \in omits, NEW t
  PROVE  /\ IsKeySet(KeysSeen(ks, omits))
         /\ \A k \in DOMAIN KeysSeen(ks, omits).keys : KeyIsActiveAt(KeysSeen(ks, omits).keys[k], t)
<1> DEFINE seen == KeysSeen(ks, omits)
           active == [k \in DOMAIN ks.keys |-> Key(ks.keys[k].kid)]
<1>1. /\ ks \in KeySets /\ ks.issuer = Issuer /\ ks.keys \in Seq(KeyEntries)
      /\ Len(ks.keys) \in {1, 2}
      /\ \A k \in DOMAIN ks.keys : ks.keys[k].kid = k
  BY DEF IsKeySet, IsKeySetOf, KeySets
<1>2. seen = [ks EXCEPT !.keys = active]
  BY Zenon DEF KeysSeen
<1>3. DOMAIN ks.keys = 1 .. Len(ks.keys)
  BY <1>1, LenProperties
<1>4. ASSUME NEW k \in DOMAIN ks.keys
      PROVE  /\ active[k] = Key(k) /\ Key(k) \in KeyEntries
             /\ KeyIsActiveAt(active[k], t)
  <2>1. active[k] = Key(k) /\ k \in Nat
    BY <1>1, <1>3
  <2>2. Pem(<<"key", k>>) \in KeyTexts /\ {"Ed25519", "active"} \subseteq Texts
    BY <2>1 DEF KeyTexts, Keys, KeyFormats, Pem, KeyText, Texts
  <2> QED  BY <2>1, <2>2 DEF Key, KeyEntries, KeyIsActiveAt
<1>5. active \in Seq(KeyEntries) /\ Len(active) = Len(ks.keys) /\ DOMAIN active = DOMAIN ks.keys
  <2> DEFINE n == Len(ks.keys)
  <2>1. n \in Nat /\ DOMAIN ks.keys = 1 .. n
    BY <1>1, <1>3
  <2>2. \A k \in 1 .. n : active[k] \in KeyEntries
    BY <1>3, <1>4, Zenon
  <2>3. active = [k \in 1 .. n |-> active[k]]
    BY <2>1
  <2> HIDE DEF active, n
  <2>4. active \in [1 .. n -> KeyEntries]
    BY <2>2, <2>3
  <2> QED  BY <2>1, <2>4 DEF n
<1>6. /\ seen \in KeySets /\ seen.issuer = Issuer /\ seen.keys = active
  <2> HIDE DEF active, seen
  <2> QED  BY <1>1, <1>2, <1>5 DEF KeySets
<1>7. \A k \in DOMAIN active :
         active[k].kid = k /\ active[k].alg = "Ed25519" /\ active[k].public_key = Pem(<<"key", k>>)
  BY <1>4, <1>5 DEF Key
<1> HIDE DEF seen, active
<1>8. IsKeySet(seen)
  BY <1>1, <1>5, <1>6, <1>7 DEF IsKeySet, IsKeySetOf, Pem
<1> QED  BY <1>4, <1>5, <1>6, <1>8 DEF seen

(* What a conforming party accepts.                                        *)
LEMMA AcceptedIsIssued ==
  ASSUME KeysInv, IssuedInv,
         NEW party \in Parties, NEW auth \in Arriving,
         NEW omits \in verifiers \cap SUBSET AuthorizationCodes,
         Codes(party, KeysSeen(caches[party], omits), auth) \subseteq omits
  PROVE  /\ auth \in issued
         /\ party = auth.audience
         /\ now < auth.expiry
         /\ \A k \in DOMAIN executed : executed[k].party = party =>
              executed[k].auth.auth_id # auth.auth_id
<1> DEFINE keyset == KeysSeen(caches[party], omits)
           opts == Options(party, keyset)
<1>1. omits \subseteq Optional /\ omits \subseteq {"AUTH_KEY_INACTIVE"} \cup Optional
  BY VectorsBind DEF KeysInv
<1>2. /\ opts.now = now /\ opts.expectedAudience = party
      /\ opts.trustedKeySets = <<keyset>> /\ opts.legacyHmacSecret = Secret
      /\ opts.consumedAuthIds = {executed[k].auth.auth_id :
                          k \in {j \in DOMAIN executed : executed[j].party = party}}
  <2> HIDE DEF keyset
  <2> QED  BY DEF Options
<1>3. VerifyAuthorization(auth, opts) \subseteq omits
  BY Zenon DEF Codes
<1> HIDE DEF opts, keyset
<1>4. /\ auth.decision = "ALLOW"
      /\ \A f \in TextFields \cup {"issued_at", "expiry"} : auth[f] # Absent
      /\ ~Expired(auth, now)
      /\ party \in {Absent, auth.audience}
      /\ ~Consumed(auth, opts)
      /\ AuthorizationSignatureCodes(auth, opts) \subseteq omits
  <2>1. {"AUTH_DECISION_INVALID", "AUTH_MISSING_FIELD", "AUTH_EXPIRED", "AUTH_AUDIENCE_MISMATCH",
         "AUTH_REPLAY"} \cap VerifyAuthorization(auth, opts) = {}
    BY <1>1, <1>3 DEF Optional
  <2>2. /\ "AUTH_DECISION_INVALID" \notin VerifyAuthorization(auth, opts)
        /\ "AUTH_MISSING_FIELD" \notin VerifyAuthorization(auth, opts)
        /\ "AUTH_EXPIRED" \notin VerifyAuthorization(auth, opts)
        /\ "AUTH_AUDIENCE_MISMATCH" \notin VerifyAuthorization(auth, opts)
        /\ "AUTH_REPLAY" \notin VerifyAuthorization(auth, opts)
    BY <2>1
  <2>3. AuthorizationSignatureCodes(auth, opts) \subseteq VerifyAuthorization(auth, opts)
    BY VerdictSays, Zenon
  <2>4. /\ auth.decision = "ALLOW"
        /\ \A f \in TextFields \cup {"issued_at", "expiry"} : auth[f] # Absent
        /\ ~Expired(auth, opts.now)
        /\ opts.expectedAudience \in {Absent, auth.audience}
        /\ ~Consumed(auth, opts)
    BY <2>2, VerdictSays, Zenon
  <2> QED  BY <1>2, <1>3, <2>3, <2>4
<1>5. PICK made \in issued : Made(made) /\ (auth = made \/ Altered(made, auth))
  BY ArrivesAltered DEF IssuedInv
<1>6. {"signature", "alg", "kid", "auth_id", "expiry"} \subseteq TextFields \cup {"issued_at", "expiry"}
  BY DEF TextFields
<1>7. auth = [f \in Fields |-> auth[f]] /\ auth.signature = made.signature /\ auth.alg \in Algorithms
      /\ auth.issuer = Issuer
  <2>1. {"alg", "issuer", "signature"} \subseteq Fields
    BY DEF Fields, SignedFields
  <2>2. made.issuer = Issuer /\ made = [f \in Fields |-> made[f]]
    BY <1>5, Zenon DEF Made
  <2>3. made.alg \in Algorithms
    <3>1. made.alg = "Ed25519" \/ made.alg = "HMAC-SHA256"
      BY <1>5, Zenon DEF Made
    <3> QED  BY <3>1 DEF Algorithms
  <2> QED  BY <1>4, <1>5, <1>6, <2>1, <2>2, <2>3 DEF Altered
<1>8. \E key : Verify(Domain, SigningPayload(auth), auth.signature, key)
  <2> DEFINE key == FindKey(opts.trustedKeySets, auth.issuer, auth.kid)
  <2>1. ASSUME "AUTH_KEY_INACTIVE" \in omits
        PROVE  key = Absent \/ KeyIsActiveAt(key, opts.now)
    <3>1. IsKeySet(keyset) /\ \A k \in DOMAIN keyset.keys : KeyIsActiveAt(keyset.keys[k], opts.now)
      BY <2>1, EveryKeySeenActive DEF KeysInv, keyset
    <3>2. key = FindKey(<<keyset>>, Issuer, auth.kid)
      BY <1>2, <1>7, Zenon
    <3> QED  BY <3>1, <3>2, KeyFound, Zenon
  <2>2. Secret # Absent /\ <<keyset>> # << >>
    BY AbsentAssumption DEF Values, Texts, Secret
  <2>3. Absent \notin {auth.alg, auth.kid, auth.signature}
    BY <1>4, <1>6
  <2>4. /\ auth.alg \in {"Ed25519", "HMAC-SHA256"}
        /\ opts.trustedKeySets # << >> /\ opts.legacyHmacSecret # Absent
        /\ "AUTH_KEY_INACTIVE" \in omits => key = Absent \/ KeyIsActiveAt(key, opts.now)
    BY <1>2, <1>7, <2>1, <2>2, Zenon DEF Algorithms
  <2>5. Checkable(auth, opts)
    BY <2>3, <2>4 DEF Checkable
  <2> QED  BY <1>1, <1>4, <2>4, <2>5, SignatureChecked, Zenon
<1>9. auth = made
  <2>1. CASE Altered(made, auth)
    <3>1. \A f \in Fields \ SignedFields : auth[f] = made[f]
      <4>1. PICK changed \in {"audience", "signature", "expiry", "decision"} :
              \A f \in Fields \ {changed} : auth[f] = made[f]
        BY <2>1, Zenon DEF Altered
      <4>2. {"audience", "expiry", "decision"} \subseteq SignedFields
        BY DEF SignedFields
      <4> QED  BY <1>7, <4>1, <4>2
    <3> QED  BY <1>5, <1>7, <1>8, <3>1, SignatureFits
  <2> QED  BY <1>5, <2>1
<1>10. auth \in issued /\ auth.audience \in Parties /\ auth.expiry \in Nat
  <2>1. auth.issued_at \in Nat /\ auth.expiry = auth.issued_at + Ttl /\ auth.audience \in Parties
    BY <1>5, <1>9, Zenon DEF Made
  <2> QED  BY <1>5, <1>9, <2>1, LifetimeAssumption
<1>11. party = auth.audience
  BY <1>4, AbsentAssumption DEF Values
<1>12. now < auth.expiry
  BY <1>4, <1>6, <1>10 DEF Expired, KeysInv
<1>13. \A k \in DOMAIN executed : executed[k].party = party => executed[k].auth.auth_id # auth.auth_id
  BY <1>2, <1>4, <1>6 DEF Consumed
<1> QED  BY <1>10, <1>11, <1>12, <1>13

-----------------------------------------------------------------------------
(***************************************************************************)
(* The steps                                                               *)
(***************************************************************************)

LEMMA FirstKeySet ==
  /\ IsKeySet(KeySet(<<Key(1)>>))
  /\ Len(KeySet(<<Key(1)>>).keys) = 1
  /\ KeySet(<<Key(1)>>).keys[1] = Key(1)
<1>1. Key(1) \in KeyEntries
  <2>1. Pem(<<"key", 1>>) \in KeyTexts /\ {"Ed25519", "active"} \subseteq Texts
    BY DEF KeyTexts, Keys, KeyFormats, Pem, KeyText, Texts
  <2> QED  BY <2>1 DEF Key, KeyEntries
<1>2. Key(1).kid = 1 /\ Key(1).alg = "Ed25519" /\ Key(1).public_key = Pem(<<"key", 1>>)
  BY DEF Key
<1> DEFINE key == Key(1)
<1> HIDE DEF key
<1>3. <<key>> \in Seq(KeyEntries) /\ Len(<<key>>) = 1 /\ DOMAIN <<key>> = {1} /\ <<key>>[1] = key
  BY <1>1 DEF key
<1>4. Issuer \in Texts
  BY DEF Issuer, Texts
<1> QED  BY <1>2, <1>3, <1>4 DEF key, IsKeySet, IsKeySetOf, KeySet, KeySets, Pem

LEMMA RotationTakesOver ==
  ASSUME IsKeySet(published), now \in Nat, InUse(published.keys), Rotate
  PROVE  /\ IsKeySet(published') /\ Len(published'.keys) = 2
         /\ Len(published.keys) = 1
         /\ published'.keys[1].not_before = Absent
         /\ published'.keys[1].not_after = now + Overlap
         /\ published'.keys[2].not_before = now /\ published'.keys[2].not_after = Absent
<1> DEFINE old == [SigningKey EXCEPT !.status = IF @ = "revoked" THEN @ ELSE "retired",
                                    !.not_after = now + Overlap]
           new == [Key(2) EXCEPT !.not_before = now]
<1>1. published' = KeySet(<<old, new>>) /\ Len(published.keys) = 1
  BY Zenon DEF Rotate
<1>2. /\ SigningKey \in KeyEntries /\ SigningKey.kid = 1
      /\ SigningKey.public_key = Pem(<<"key", 1>>) /\ SigningKey.alg = "Ed25519"
      /\ SigningKey.not_before = Absent
  <2>1. SigningKey = published.keys[1]
    BY <1>1 DEF SigningKey
  <2>2. 1 \in DOMAIN published.keys
    BY <1>1, LenProperties DEF IsKeySet, IsKeySetOf, KeySets
  <2> QED  BY <2>1, <2>2, LastKeySigns, <1>1 DEF IsKeySet, IsKeySetOf, InUse
<1>3. {"retired", "Ed25519", "active"} \subseteq Texts /\ now + Overlap \in Nat
        /\ Pem(<<"key", 2>>) \in KeyTexts
  BY LifetimeAssumption DEF KeyTexts, Keys, KeyFormats, Pem, KeyText, Texts
<1>4. /\ old \in KeyEntries /\ old.kid = 1 /\ old.alg = "Ed25519" /\ old.public_key = Pem(<<"key", 1>>)
      /\ old.not_before = Absent /\ old.not_after = now + Overlap
  BY <1>2, <1>3 DEF KeyEntries
<1>5. /\ new \in KeyEntries /\ new.kid = 2 /\ new.alg = "Ed25519" /\ new.public_key = Pem(<<"key", 2>>)
      /\ new.not_before = now /\ new.not_after = Absent
  BY <1>3 DEF KeyEntries, Key
<1> HIDE DEF old, new
<1>6. /\ <<old, new>> \in Seq(KeyEntries) /\ Len(<<old, new>>) = 2
      /\ DOMAIN <<old, new>> = {1, 2} /\ <<old, new>>[1] = old /\ <<old, new>>[2] = new
  BY <1>4, <1>5
<1>7. Issuer \in Texts
  BY DEF Issuer, Texts
<1>8. /\ published' \in KeySets /\ published'.issuer = Issuer
      /\ published'.keys = <<old, new>>
  BY <1>1, <1>6, <1>7 DEF KeySet, KeySets
<1> QED  BY <1>1, <1>4, <1>5, <1>6, <1>8 DEF IsKeySet, IsKeySetOf, Pem

LEMMA RevocationKeepsTheRest ==
  ASSUME IsKeySet(published), Revoke
  PROVE  /\ IsKeySet(published') /\ Len(published'.keys) = Len(published.keys)
         /\ \A k \in DOMAIN published.keys :
              /\ published'.keys[k].not_before = published.keys[k].not_before
              /\ published'.keys[k].not_after = published.keys[k].not_after
<1> DEFINE keys == published.keys
<1>1. /\ published \in KeySets /\ published.issuer = Issuer /\ keys \in Seq(KeyEntries)
      /\ Len(keys) \in {1, 2} /\ DOMAIN keys = 1 .. Len(keys)
  BY LenProperties DEF IsKeySet, IsKeySetOf, KeySets
<1>2. PICK k \in DOMAIN keys : published' = [published EXCEPT !.keys[k].status = "revoked"]
  BY Zenon DEF Revoke
<1> DEFINE revoked == [keys EXCEPT ![k].status = "revoked"]
<1>3. published' \in [issuer : Texts, keys : {revoked}] /\ published'.issuer = Issuer
        /\ published'.keys = revoked
  <2> HIDE DEF revoked
  <2>1. published' = [published EXCEPT !.keys = revoked]
    BY <1>2 DEF revoked
  <2> QED  BY <1>1, <2>1 DEF KeySets
<1>4. "revoked" \in Texts
  BY DEF Texts
<1>5. revoked \in Seq(KeyEntries) /\ Len(revoked) = Len(keys) /\ DOMAIN revoked = DOMAIN keys
  <2>1. [keys[k] EXCEPT !.status = "revoked"] \in KeyEntries
    <3>1. \A e \in KeyEntries : [e EXCEPT !.status = "revoked"] \in KeyEntries
      BY <1>4 DEF KeyEntries
    <3>2. keys[k] \in KeyEntries
      BY <1>1
    <3> QED  BY <3>1, <3>2, Zenon
  <2>2. revoked = [keys EXCEPT ![k] = [keys[k] EXCEPT !.status = "revoked"]]
    BY DEF revoked
  <2> HIDE DEF revoked
  <2> QED  BY <1>1, <2>1, <2>2
<1>6. \A j \in DOMAIN keys :
        /\ revoked[j].kid = keys[j].kid /\ revoked[j].alg = keys[j].alg
        /\ revoked[j].public_key = keys[j].public_key
        /\ revoked[j].not_before = keys[j].not_before /\ revoked[j].not_after = keys[j].not_after
  <2>1. \A j \in DOMAIN keys : keys[j] \in KeyEntries
    BY <1>1
  <2> QED  BY <1>1, <2>1 DEF KeyEntries
<1>7. \A j \in DOMAIN keys :
        keys[j].kid = j /\ keys[j].alg = "Ed25519" /\ keys[j].public_key = Pem(<<"key", j>>)
  BY DEF IsKeySet, IsKeySetOf, Pem
<1> HIDE DEF revoked
<1>8. published' \in KeySets
  BY <1>3, <1>5 DEF KeySets
<1> QED  BY <1>1, <1>3, <1>5, <1>6, <1>7, <1>8 DEF IsKeySet, IsKeySetOf

LEMMA IssueKeeps ==
  ASSUME Inv, Issue
  PROVE  Inv'
<1> USE DEF Inv
<1>1. PICK auth :
        /\ issued' = issued \cup {auth}
        /\ \A other \in issued : other.auth_id # auth.auth_id
        /\ Made(auth) /\ auth.issued_at = now
        /\ auth.alg = "Ed25519" => auth.kid = Len(published.keys)
  <2>1. PICK intent_hash \in Intents, audience \in Parties :
          \E auth \in { Authorization(intent_hash, audience, "Ed25519"),
                        Authorization(intent_hash, audience, "HMAC-SHA256"),
                        BareAuthorization(intent_hash, audience) } :
            /\ \A other \in issued : other.auth_id # auth.auth_id
            /\ issued' = issued \cup {auth}
    BY Zenon DEF Issue
  <2>2. PICK auth \in { Authorization(intent_hash, audience, "Ed25519"),
                       Authorization(intent_hash, audience, "HMAC-SHA256"),
                       BareAuthorization(intent_hash, audience) } :
          /\ \A other \in issued : other.auth_id # auth.auth_id
          /\ issued' = issued \cup {auth}
    BY <2>1, Zenon
  <2>3. IsKeySet(published) /\ now \in Nat
    BY DEF KeysInv
  <2>4. /\ Made(auth) /\ auth.issued_at = now
        /\ auth.alg = "Ed25519" => auth.kid = Len(published.keys)
    BY <2>3, IssuedIsMade, Zenon
  <2> QED  BY <2>2, <2>4
<1>2. UNCHANGED <<verifiers, now, published, caches, executed>>
  BY DEF Issue
<1>3. KeysInv'
  BY <1>2 DEF KeysInv
<1>4. IssuedInv'
  BY <1>1, Zenon DEF IssuedInv
<1>5. ExecutedInv'
  BY <1>1, <1>2 DEF ExecutedInv, ExecutedAsIssued
<1>6. TimesInv'
  <2>1. Len(published.keys) \in {1, 2} /\ now \in Nat
    BY DEF KeysInv, IsKeySet, IsKeySetOf
  <2> DEFINE InTime(a) ==
        /\ a.issued_at <= now
        /\ a.alg = "Ed25519" => a.kid <= Len(published.keys)
        /\ a.alg = "Ed25519" /\ a.kid = 1 /\ Len(published.keys) = 2 =>
             a.issued_at <= published.keys[2].not_before
  <2>2. InTime(auth)
    BY <1>1, <2>1
  <2>3. \A a \in issued : InTime(a)
    BY DEF TimesInv
  <2>4. \A a \in issued' : InTime(a)
    <3> HIDE DEF InTime
    <3> QED  BY <1>1, <2>2, <2>3
  <2> QED  BY <1>2, <2>4 DEF TimesInv, InUse
<1> QED  BY <1>3, <1>4, <1>5, <1>6

LEMMA RotateKeeps ==
  ASSUME Inv, Rotate
  PROVE  Inv'
<1> USE DEF Inv
<1>1. /\ IsKeySet(published') /\ Len(published'.keys) = 2
      /\ Len(published.keys) = 1
      /\ published'.keys[1].not_before = Absent
      /\ published'.keys[1].not_after = now + Overlap
      /\ published'.keys[2].not_before = now /\ published'.keys[2].not_after = Absent
  BY RotationTakesOver DEF KeysInv, TimesInv
<1>2. UNCHANGED <<verifiers, now, caches, issued, executed>> /\ now \in Nat
  BY DEF Rotate, KeysInv
<1>3. KeysInv'
  BY <1>1, <1>2 DEF KeysInv
<1>4. IssuedInv'
  BY <1>2 DEF IssuedInv
<1>5. ExecutedInv'
  BY <1>2 DEF ExecutedInv, ExecutedAsIssued
<1>6. TimesInv'
  <2>1. InUse(published.keys)'
    BY <1>1, <1>2 DEF InUse
  <2>2. \A party \in Parties : Len(caches'[party].keys) <= Len(published'.keys)
    <3>1. \A party \in Parties : Len(caches[party].keys) \in {1, 2}
      BY Zenon DEF KeysInv, IsKeySet, IsKeySetOf
    <3>2. \A n \in {1, 2} : n <= 2
      OBVIOUS
    <3>3. \A party \in Parties : Len(caches[party].keys) <= 2
      BY <3>1, <3>2, Zenon
    <3>4. caches' = caches /\ Len(published'.keys) = 2
      BY <1>1, <1>2
    <3> HIDE DEF Inv
    <3> QED  BY <3>3, <3>4, Zenon
  <2>3. \A auth \in issued' :
          /\ auth.issued_at <= now'
          /\ auth.alg = "Ed25519" => auth.kid <= Len(published'.keys)
          /\ auth.alg = "Ed25519" /\ auth.kid = 1 /\ Len(published'.keys) = 2 =>
               auth.issued_at <= published'.keys[2].not_before
    <3>1. \A auth \in issued : auth.kid \in {0, 1, 2}
      BY DEF IssuedInv, Made
    <3> QED  BY <1>1, <1>2, <3>1 DEF TimesInv
  <2> QED  BY <2>1, <2>2, <2>3 DEF TimesInv
<1> QED  BY <1>3, <1>4, <1>5, <1>6

LEMMA RevokeKeeps ==
  ASSUME Inv, Revoke
  PROVE  Inv'
<1> USE DEF Inv
<1>1. /\ IsKeySet(published') /\ Len(published'.keys) = Len(published.keys)
      /\ \A k \in DOMAIN published.keys :
           /\ published'.keys[k].not_before = published.keys[k].not_before
           /\ published'.keys[k].not_after = published.keys[k].not_after
  BY RevocationKeepsTheRest DEF KeysInv
<1>2. UNCHANGED <<verifiers, now, caches, issued, executed>>
  BY DEF Revoke
<1>3. KeysInv'
  BY <1>1, <1>2 DEF KeysInv
<1>4. IssuedInv'
  BY <1>2 DEF IssuedInv
<1>5. ExecutedInv'
  BY <1>2 DEF ExecutedInv, ExecutedAsIssued
<1>6. TimesInv'
  <2>1. 1 \in DOMAIN published.keys /\ (Len(published.keys) = 2 => 2 \in DOMAIN published.keys)
    BY LenProperties DEF KeysInv, IsKeySet, IsKeySetOf, KeySets
  <2> QED  BY <1>1, <1>2, <2>1 DEF TimesInv, InUse
<1> QED  BY <1>3, <1>4, <1>5, <1>6

LEMMA RefreshKeeps ==
  ASSUME Inv, Refresh
  PROVE  Inv'
<1> USE DEF Inv
<1>1. PICK party \in Parties : caches' = [caches EXCEPT ![party] = published]
  BY Zenon DEF Refresh
<1>2. UNCHANGED <<verifiers, now, published, issued, executed>>
  BY DEF Refresh
<1>3. DOMAIN caches' = Parties
        /\ \A other \in Parties : caches'[other] \in {caches[other], published}
  BY <1>1 DEF KeysInv
<1>4. KeysInv'
  BY <1>2, <1>3 DEF KeysInv
<1>5. IssuedInv'
  BY <1>2 DEF IssuedInv
<1>6. ExecutedInv'
  BY <1>2 DEF ExecutedInv, ExecutedAsIssued
<1>7. TimesInv'
  <2>1. Len(published.keys) \in {1, 2}
    BY DEF KeysInv, IsKeySet, IsKeySetOf
  <2>2. \A other \in Parties : Len(caches'[other].keys) <= Len(published'.keys)
    BY <1>2, <1>3, <2>1 DEF TimesInv
  <2> QED  BY <1>2, <2>2 DEF TimesInv, InUse
<1> QED  BY <1>4, <1>5, <1>6, <1>7

LEMMA TickKeeps ==
  ASSUME Inv, Tick
  PROVE  Inv'
<1> USE DEF Inv
<1>1. now' = now + 1 /\ now \in Nat
  BY DEF Tick, KeysInv
<1>2. UNCHANGED <<verifiers, published, caches, issued, executed>>
  BY DEF Tick
<1>3. KeysInv'
  BY <1>1, <1>2 DEF KeysInv
<1>4. IssuedInv'
  BY <1>2 DEF IssuedInv
<1>5. ExecutedInv'
  BY <1>2 DEF ExecutedInv, ExecutedAsIssued
<1>6. TimesInv'
  <2>1. InUse(published.keys)'
    BY <1>1, <1>2 DEF TimesInv, InUse
  <2>2. \A auth \in issued : auth.issued_at \in Nat /\ auth.issued_at <= now
    BY DEF IssuedInv, Made, TimesInv
  <2>3. \A auth \in issued : auth.issued_at <= now'
    BY <1>1, <2>2
  <2> QED  BY <1>2, <2>1, <2>3 DEF TimesInv
<1> QED  BY <1>3, <1>4, <1>5, <1>6

LEMMA ExecuteKeeps ==
  ASSUME Inv, Execute
  PROVE  Inv'
<1> USE DEF Inv
<1>1. PICK party \in Parties, auth \in Arriving, omits \in verifiers \cap SUBSET AuthorizationCodes :
        /\ Codes(party, KeysSeen(caches[party], omits), auth) \subseteq omits
        /\ executed' = Append(executed, [party |-> party, auth |-> auth, at |-> now])
  BY Zenon DEF Execute
<1>2. UNCHANGED <<verifiers, now, published, caches, issued>>
  BY DEF Execute
<1>3. /\ auth \in issued /\ party = auth.audience /\ now < auth.expiry
      /\ \A k \in DOMAIN executed : executed[k].party = party =>
           executed[k].auth.auth_id # auth.auth_id
  BY <1>1, AcceptedIsIssued, Zenon
<1>4. KeysInv'
  BY <1>2 DEF KeysInv
<1>5. IssuedInv'
  BY <1>2 DEF IssuedInv
<1>6. ExecutedInv'
  <2> DEFINE execution == [party |-> party, auth |-> auth, at |-> now]
  <2>1. PICK Executions : executed \in Seq(Executions)
    BY DEF ExecutedInv
  <2>2. execution.party = party /\ execution.auth = auth /\ execution.at = now
    OBVIOUS
  <2>3. \A k \in DOMAIN executed :
          /\ executed[k].party \in Parties
          /\ executed[k].auth \in issued
          /\ executed[k].party = executed[k].auth.audience
          /\ executed[k].at < executed[k].auth.expiry
          /\ \A j \in 1 .. k - 1 : executed[j].auth.auth_id # executed[k].auth.auth_id
    BY DEF ExecutedInv, ExecutedAsIssued
  <2>4. \A k \in DOMAIN executed : executed[k].auth.auth_id # auth.auth_id
    BY <1>3, <2>3 DEF IssuedInv
  <2> HIDE DEF execution
  <2>5. /\ executed' \in Seq(Executions \cup {execution})
        /\ DOMAIN executed = 1 .. Len(executed) /\ Len(executed) \in Nat
        /\ DOMAIN executed' = 1 .. Len(executed) + 1
        /\ executed'[Len(executed) + 1] = execution
        /\ \A k \in DOMAIN executed : executed'[k] = executed[k]
    <3>1. executed \in Seq(Executions \cup {execution})
      BY <2>1
    <3> QED  BY <1>1, <3>1 DEF execution
  <2>6. ASSUME NEW k \in DOMAIN executed'
        PROVE  /\ executed'[k].party \in Parties
               /\ executed'[k].auth \in issued
               /\ executed'[k].party = executed'[k].auth.audience
               /\ executed'[k].at < executed'[k].auth.expiry
               /\ \A j \in 1 .. k - 1 : executed'[j].auth.auth_id # executed'[k].auth.auth_id
    <3>1. CASE k \in DOMAIN executed
      <4>1. \A j \in 1 .. k - 1 : j \in DOMAIN executed
        BY <2>5, <3>1
      <4> QED  BY <2>3, <2>5, <3>1, <4>1
    <3>2. CASE k = Len(executed) + 1
      <4>1. \A j \in 1 .. k - 1 : j \in DOMAIN executed
        BY <2>5, <3>2
      <4> QED  BY <1>1, <1>3, <2>2, <2>4, <2>5, <3>2, <4>1
    <3> QED  BY <2>5, <3>1, <3>2
  <2> QED  BY <1>2, <2>5, <2>6 DEF ExecutedInv, ExecutedAsIssued
<1>7. TimesInv'
  BY <1>2 DEF TimesInv, InUse
<1> QED  BY <1>4, <1>5, <1>6, <1>7

LEMMA Starts == Init => Inv
<1> SUFFICES ASSUME Init PROVE Inv
  OBVIOUS
<1>1. /\ verifiers = Conforming /\ now = 1 /\ issued = {} /\ executed = << >>
      /\ published = KeySet(<<Key(1)>>) /\ caches = [party \in Parties |-> published]
  BY DEF Init
<1>2. /\ IsKeySet(published) /\ Len(published.keys) = 1
      /\ published.keys[1].not_before = Absent /\ published.keys[1].not_after = Absent
  BY <1>1, FirstKeySet DEF Key
<1>3. KeysInv /\ IssuedInv
  BY <1>1, <1>2 DEF KeysInv, IssuedInv
<1>4. ExecutedInv
  <2>1. executed \in Seq({}) /\ DOMAIN executed = {}
    BY <1>1
  <2> QED  BY <2>1 DEF ExecutedInv, ExecutedAsIssued
<1>5. TimesInv
  BY <1>1, <1>2 DEF TimesInv, InUse
<1> QED  BY <1>3, <1>4, <1>5 DEF Inv

LEMMA InvHolds == Spec => []Inv
<1>1. ASSUME Inv, [Next]_vars
      PROVE  Inv'
  <2>1. CASE UNCHANGED vars
    BY <1>1, <2>1 DEF vars, Inv, KeysInv, IssuedInv, ExecutedInv, ExecutedAsIssued, TimesInv, InUse
  <2> QED  BY <1>1, <2>1, IssueKeeps, RotateKeeps, RevokeKeeps, RefreshKeeps, ExecuteKeeps,
              TickKeeps DEF Next
<1> QED  BY Starts, <1>1, PTL DEF Spec

(* Whatever arrives, in whatever order and however often: what is executed *)
(* is what the engine issued, unchanged, by the party it was issued to,    *)
(* before it expires, and once, by any verifier that passes the vectors    *)
(* (verifyAuthorization; conformance/src/validate.ts).                     *)
THEOREM OnlyIssuedIsExecuted == Spec => []ExecutedAsIssued
<1>1. Inv => ExecutedAsIssued
  BY DEF Inv, ExecutedInv
<1> QED  BY InvHolds, <1>1, PTL

-----------------------------------------------------------------------------
(***************************************************************************)
(* The verdicts of one key set and of another                              *)
(***************************************************************************)

LEMMA OptionsOf ==
  ASSUME NEW party, NEW keyset
  PROVE  LET opts == Options(party, keyset)
         IN  /\ opts.now = now /\ opts.expectedIssuer = Issuer /\ opts.expectedAudience = party
             /\ opts.expectedPolicyId = "policy" /\ opts.trustedKeySets = <<keyset>>
             /\ opts.legacyHmacSecret = Secret
             /\ opts.trustedKeySets # << >> /\ opts.legacyHmacSecret # Absent
  BY AbsentAssumption DEF Options, Values, Texts, Secret

(* What a verdict says of all but the signature does not depend on the     *)
(* keys.                                                                   *)
Otherwise(party, auth) ==
  UNION {
    When("AUTH_DECISION_INVALID", auth.decision # "ALLOW"),
    When("AUTH_MISSING_FIELD",
         \E f \in TextFields \cup {"issued_at", "expiry"} : auth[f] = Absent),
    When("AUTH_EXPIRED", Expired(auth, now)),
    When("AUTH_ISSUER_MISMATCH", Issuer \notin {Absent, auth.issuer}),
    When("AUTH_AUDIENCE_MISMATCH", party \notin {Absent, auth.audience}),
    When("AUTH_POLICY_ID_MISMATCH", "policy" \notin {Absent, auth.policy_id}),
    When("AUTH_REPLAY", Consumed(auth, Options(party, published))) }

LEMMA VerdictSplits ==
  ASSUME NEW party, NEW keyset, NEW auth
  PROVE  Codes(party, keyset, auth) =
           Otherwise(party, auth) \cup AuthorizationSignatureCodes(auth, Options(party, keyset))
<1> DEFINE opts == Options(party, keyset)
           sig == AuthorizationSignatureCodes(auth, opts)
           D == When("AUTH_DECISION_INVALID", auth.decision # "ALLOW")
           M == When("AUTH_MISSING_FIELD",
                     \E f \in TextFields \cup {"issued_at", "expiry"} : auth[f] = Absent)
           E(t) == When("AUTH_EXPIRED", Expired(auth, t))
           I(i) == When("AUTH_ISSUER_MISMATCH", i \notin {Absent, auth.issuer})
           A(a) == When("AUTH_AUDIENCE_MISMATCH", a \notin {Absent, auth.audience})
           P(p) == When("AUTH_POLICY_ID_MISMATCH", p \notin {Absent, auth.policy_id})
           R(o) == When("AUTH_REPLAY", Consumed(auth, o))
<1>1. Codes(party, keyset, auth) =
        UNION {D, M, E(opts.now), I(opts.expectedIssuer), A(opts.expectedAudience),
               P(opts.expectedPolicyId), R(opts), sig}
  BY Zenon DEF Codes, VerifyAuthorization
<1>2. Otherwise(party, auth) =
        UNION {D, M, E(now), I(Issuer), A(party), P("policy"), R(Options(party, published))}
  BY Zenon DEF Otherwise
<1>3. R(opts) = R(Options(party, published))
  <2>1. opts.consumedAuthIds = Options(party, published).consumedAuthIds
    BY DEF Options
  <2> QED  BY <2>1, Zenon DEF Consumed
<1>4. /\ opts.now = now /\ opts.expectedIssuer = Issuer /\ opts.expectedAudience = party
      /\ opts.expectedPolicyId = "policy"
  BY Zenon DEF Options
<1> HIDE DEF opts, sig, D, M, E, I, A, P, R
<1>5. Codes(party, keyset, auth) =
        UNION {D, M, E(now), I(Issuer), A(party), P("policy"), R(Options(party, published)), sig}
  BY <1>1, <1>3, <1>4, Zenon
<1>6. Codes(party, keyset, auth) = Otherwise(party, auth) \cup sig
  BY <1>2, <1>5
<1> QED  BY <1>6, Zenon DEF sig, opts

(* A party with an old key set takes nothing that the published set would  *)
(* not verify, revocation and the end of a retired key apart               *)
(* (findKeyInKeySets).                                                     *)
LEMMA OldKeysRefuse ==
  ASSUME KeysInv, IssuedInv, TimesInv
  PROVE  StaleCacheFailsClosed
<1> SUFFICES ASSUME NEW party \in Parties, NEW auth \in Arriving,
                    Codes(party, caches[party], auth) = {}
             PROVE  Codes(party, published, auth) \subseteq {"AUTH_KEY_INACTIVE"}
  BY Zenon DEF StaleCacheFailsClosed
<1> DEFINE cached == Options(party, caches[party])
           current == Options(party, published)
           fits(k) == Verify(Domain, SigningPayload(auth), auth.signature, k)
           checks(t) == VerifyEd25519(Domain, SigningPayload(auth), auth.signature, t)
<1>1. Otherwise(party, auth) = {} /\ AuthorizationSignatureCodes(auth, cached) = {}
  <2> DEFINE other == Otherwise(party, auth)
             sig == AuthorizationSignatureCodes(auth, cached)
  <2>1. other \cup sig = {}
    BY VerdictSplits, Zenon
  <2> HIDE DEF other, sig
  <2>2. other = {} /\ sig = {}
    BY <2>1
  <2> QED  BY <2>2, Zenon DEF other, sig
<1>2. \A f \in TextFields \cup {"issued_at", "expiry"} : auth[f] # Absent
  <2>1. "AUTH_MISSING_FIELD" \notin VerifyAuthorization(auth, cached)
    BY DEF Codes
  <2> QED  BY <2>1, VerdictSays, Zenon
<1>3. auth.alg \in {"Ed25519", "HMAC-SHA256"} /\ auth.issuer = Issuer
  <2>1. PICK made \in issued : Made(made) /\ (auth = made \/ Altered(made, auth))
    BY ArrivesAltered DEF IssuedInv
  <2>2. made.issuer = Issuer /\ made.alg \in {"Ed25519", "HMAC-SHA256"}
    <3>1. made.issuer = Issuer /\ (made.alg = "Ed25519" \/ made.alg = "HMAC-SHA256")
      BY <2>1, Zenon DEF Made
    <3> QED  BY <3>1
  <2>3. {"alg", "issuer"} \subseteq Fields \ {"audience", "signature", "expiry", "decision"}
    BY DEF Fields, SignedFields
  <2> QED  BY <2>1, <2>2, <2>3 DEF Altered
<1>4. Checkable(auth, cached) /\ Checkable(auth, current)
  <2>1. {"alg", "kid", "signature"} \subseteq TextFields
    BY DEF TextFields
  <2>2. Absent \notin {auth.alg, auth.kid, auth.signature}
    BY <1>2, <2>1
  <2>3. /\ cached.trustedKeySets # << >> /\ cached.legacyHmacSecret # Absent
        /\ current.trustedKeySets # << >> /\ current.legacyHmacSecret # Absent
    BY OptionsOf, Zenon
  <2> QED  BY <1>3, <2>2, <2>3, Zenon DEF Checkable
<1>5. /\ cached.trustedKeySets = <<caches[party]>> /\ cached.legacyHmacSecret = Secret
      /\ current.trustedKeySets = <<published>> /\ current.legacyHmacSecret = Secret
  BY OptionsOf, Zenon
<1> HIDE DEF cached, current, fits, checks
<1>6. AuthorizationSignatureCodes(auth, current) \subseteq {"AUTH_KEY_INACTIVE"}
  <2>1. CASE auth.alg = "Ed25519"
    <3> DEFINE old == FindKey(<<caches[party]>>, Issuer, auth.kid)
               key == FindKey(<<published>>, Issuer, auth.kid)
    <3>1. {} = IF old = Absent THEN {"AUTH_KID_UNKNOWN"}
               ELSE IF ~KeyIsActiveAt(old, cached.now) THEN {"AUTH_KEY_INACTIVE"}
               ELSE When("AUTH_SIGNATURE_INVALID", ~checks(old.public_key))
      BY <1>1, <1>3, <1>4, <1>5, <2>1, SignatureVerdict, Zenon DEF fits, checks
    <3>2. AuthorizationSignatureCodes(auth, current) =
            IF key = Absent THEN {"AUTH_KID_UNKNOWN"}
            ELSE IF ~KeyIsActiveAt(key, current.now) THEN {"AUTH_KEY_INACTIVE"}
            ELSE When("AUTH_SIGNATURE_INVALID", ~checks(key.public_key))
      BY <1>3, <1>4, <1>5, <2>1, SignatureVerdict, Zenon DEF fits, checks
    <3> HIDE DEF old, key
    <3>3. old # Absent /\ checks(old.public_key)
      BY <3>1 DEF When
    <3>4. auth.kid \in DOMAIN caches[party].keys /\ old = caches[party].keys[auth.kid]
      BY <3>3, KeyFound, Zenon DEF KeysInv, old
    <3>5. auth.kid \in DOMAIN published.keys
      <4>1. /\ DOMAIN caches[party].keys = 1 .. Len(caches[party].keys)
            /\ DOMAIN published.keys = 1 .. Len(published.keys)
            /\ Len(caches[party].keys) \in Nat /\ Len(published.keys) \in Nat
        BY LenProperties DEF KeysInv, IsKeySet, IsKeySetOf, KeySets
      <4>2. Len(caches[party].keys) <= Len(published.keys)
        BY Zenon DEF TimesInv
      <4> QED  BY <3>4, <4>1, <4>2
    <3>6. key # Absent /\ key = published.keys[auth.kid]
      BY <3>5, KeyFound, Zenon DEF KeysInv, key
    <3>7. key.public_key = old.public_key
      BY <3>4, <3>5, <3>6 DEF KeysInv, IsKeySet, IsKeySetOf
    <3> QED  BY <3>2, <3>3, <3>6, <3>7 DEF When
  <2>2. CASE auth.alg = "HMAC-SHA256"
    <3>1. {} = When("AUTH_SIGNATURE_INVALID", ~fits(Secret))
      BY <1>1, <1>4, <1>5, <2>2, SignatureVerdict, Zenon DEF fits, checks
    <3>2. AuthorizationSignatureCodes(auth, current) = When("AUTH_SIGNATURE_INVALID", ~fits(Secret))
      BY <1>4, <1>5, <2>2, SignatureVerdict, Zenon DEF fits, checks
    <3> QED  BY <3>1, <3>2
  <2> QED  BY <1>3, <2>1, <2>2
<1>7. Codes(party, published, auth) = AuthorizationSignatureCodes(auth, current)
  <2>1. Codes(party, published, auth) = Otherwise(party, auth) \cup AuthorizationSignatureCodes(auth, current)
    BY VerdictSplits, Zenon DEF current
  <2> QED  BY <1>1, <2>1
<1> QED  BY <1>6, <1>7

(* A party with an old key set takes nothing that the published set would  *)
(* not verify, revocation and the end of a retired key apart               *)
(* (findKeyInKeySets, keyIsActiveAt).                                      *)
THEOREM OldKeysFailClosed == Spec => []StaleCacheFailsClosed
<1>1. Inv => StaleCacheFailsClosed
  BY OldKeysRefuse DEF Inv
<1> QED  BY InvHolds, <1>1, PTL

(* A key that signed an authorization has not ended before it does, when   *)
(* the overlap reaches the authorization's last second.                    *)
LEMMA SigningKeyLasts ==
  ASSUME KeysInv, TimesInv, Overlap >= Ttl - 1,
         NEW auth \in issued, Made(auth), auth.alg = "Ed25519", now < auth.expiry
  PROVE  LET key == FindKey(<<published>>, Issuer, auth.kid)
         IN  /\ key # Absent /\ key.public_key = Pem(<<"key", auth.kid>>)
             /\ key.status # "revoked" => KeyIsActiveAt(key, now)
<1> DEFINE keys == published.keys
<1>1. /\ auth.kid \in {1, 2} /\ auth.kid <= Len(keys) /\ Len(keys) \in {1, 2}
      /\ auth.issued_at \in Nat /\ auth.expiry = auth.issued_at + Ttl
      /\ now \in Nat /\ auth.issued_at <= now
      /\ auth.kid = 1 /\ Len(keys) = 2 => auth.issued_at <= keys[2].not_before
  <2>1. auth.kid \in {1, 2}
    BY DEF Made
  <2>2. auth.issued_at \in Nat /\ auth.expiry = auth.issued_at + Ttl
    BY Zenon DEF Made
  <2>3. Len(keys) \in {1, 2} /\ now \in Nat
    BY Zenon DEF KeysInv, IsKeySet, IsKeySetOf
  <2>4. /\ auth.issued_at <= now /\ auth.kid <= Len(keys)
        /\ auth.kid = 1 /\ Len(keys) = 2 => auth.issued_at <= keys[2].not_before
    BY Zenon DEF TimesInv
  <2> QED  BY <2>1, <2>2, <2>3, <2>4
<1>2. auth.kid \in DOMAIN keys
  <2>1. DOMAIN keys = 1 .. Len(keys)
    BY LenProperties DEF KeysInv, IsKeySet, IsKeySetOf, KeySets
  <2> QED  BY <1>1, <2>1
<1>3. /\ FindKey(<<published>>, Issuer, auth.kid) = keys[auth.kid]
      /\ keys[auth.kid] # Absent
      /\ keys[auth.kid].public_key = Pem(<<"key", auth.kid>>)
  <2>1. FindKey(<<published>>, Issuer, auth.kid) = keys[auth.kid] /\ keys[auth.kid] # Absent
    BY <1>2, KeyFound, Zenon DEF KeysInv
  <2> QED  BY <1>2, <2>1 DEF KeysInv, IsKeySet, IsKeySetOf, Pem
<1>4. /\ keys[auth.kid].not_before # Absent =>
           keys[auth.kid].not_before \in Nat /\ now >= keys[auth.kid].not_before
      /\ keys[auth.kid].not_after # Absent =>
           keys[auth.kid].not_after \in Nat /\ now <= keys[auth.kid].not_after
  <2>1. /\ keys[1].not_before = Absent
        /\ Len(keys) = 1 => keys[1].not_after = Absent
        /\ Len(keys) = 2 =>
             /\ keys[2].not_before \in Nat /\ keys[2].not_before <= now
             /\ keys[1].not_after = keys[2].not_before + Overlap
             /\ keys[2].not_after = Absent
    BY Zenon DEF TimesInv, InUse
  <2> DEFINE first == keys[1]
             second == keys[2]
             length == Len(keys)
  <2>2. CASE auth.kid = 1
    <3>1. CASE Len(keys) = 1
      BY <2>1, <2>2, <3>1, Zenon
    <3>2. CASE Len(keys) = 2
      <4> DEFINE nb == keys[2].not_before
                 na == keys[1].not_after
                 at == auth.issued_at
                 exp == auth.expiry
      <4>1. /\ nb \in Nat /\ na = nb + Overlap /\ at \in Nat /\ at <= nb /\ exp = at + Ttl
            /\ now \in Nat /\ now < exp
        BY <1>1, <2>1, <2>2, <3>2, Zenon
      <4> HIDE DEF nb, na, at, exp
      <4>2. na \in Nat /\ now <= na
        BY <4>1, LifetimeAssumption
      <4> QED  BY <2>1, <2>2, <4>2, Zenon DEF na
    <3> QED  BY <1>1, <3>1, <3>2
  <2>3. CASE auth.kid = 2
    <3>1. Len(keys) = 2
      <4> DEFINE n == Len(keys)
                 k == auth.kid
      <4>1. k = 2 /\ k <= n /\ n \in {1, 2}
        BY <1>1, <2>3, Zenon
      <4> HIDE DEF n, k
      <4>2. n = 2
        BY <4>1
      <4> QED  BY <4>2 DEF n
    <3>2. keys[2].not_before \in Nat /\ keys[2].not_before <= now /\ keys[2].not_after = Absent
      BY <2>1, <3>1, Zenon
    <3> DEFINE nb == keys[2].not_before
    <3>3. nb \in Nat /\ now >= nb
      <4>1. nb \in Nat /\ nb <= now
        BY <3>2
      <4> HIDE DEF nb
      <4> QED  BY <1>1, <4>1
    <3> QED  BY <2>3, <3>2, <3>3, Zenon
  <2> QED  BY <1>1, <2>2, <2>3
<1> HIDE DEF keys
<1> QED  BY <1>3, <1>4, Zenon DEF KeyIsActiveAt

(* SPEC.md:546, rotation does not invalidate what is still valid           *)
(* (keyIsActiveAt).                                                        *)
LEMMA RotatedKeysVerify ==
  ASSUME KeysInv, IssuedInv, TimesInv
  PROVE  RotationKeepsValid
<1> SUFFICES ASSUME Overlap >= Ttl - 1, NEW auth \in issued, ~(auth.expiry <= now),
                    ~(auth.alg = "Ed25519" /\ FindKey(<<published>>, Issuer, auth.kid).status = "revoked")
             PROVE  Codes(auth.audience, published, auth) \in {{}, {"AUTH_REPLAY"}}
  BY Zenon DEF RotationKeepsValid
<1> DEFINE opts == Options(auth.audience, published)
           fits(k) == Verify(Domain, SigningPayload(auth), auth.signature, k)
           checks(t) == VerifyEd25519(Domain, SigningPayload(auth), auth.signature, t)
<1>1. Made(auth)
  BY DEF IssuedInv
<1>2. /\ auth.issuer = Issuer /\ auth.policy_id = "policy" /\ auth.decision = "ALLOW"
      /\ auth.signature = Sign(SignerOf(auth), Domain, SigningPayload(auth))
      /\ auth.alg = "Ed25519" \/ auth.alg = "HMAC-SHA256"
  BY <1>1, Zenon DEF Made
<1>3. now < auth.expiry
  <2>1. auth.issued_at \in Nat /\ auth.expiry = auth.issued_at + Ttl
    BY <1>1, Zenon DEF Made
  <2> QED  BY <2>1, LifetimeAssumption DEF KeysInv
<1>4. \A f \in TextFields \cup {"issued_at", "expiry"} : auth[f] # Absent
  BY <1>1, MadeSigned
<1>5. Otherwise(auth.audience, auth) \subseteq {"AUTH_REPLAY"}
  <2>1. ~Expired(auth, now)
    <3>1. auth.expiry \in Nat
      <4>1. auth.issued_at \in Nat /\ auth.expiry = auth.issued_at + Ttl
        BY <1>1, Zenon DEF Made
      <4> QED  BY <4>1, LifetimeAssumption
    <3> QED  BY <1>3, <3>1 DEF Expired, KeysInv
  <2>2. /\ When("AUTH_DECISION_INVALID", auth.decision # "ALLOW") = {}
        /\ When("AUTH_MISSING_FIELD",
                \E f \in TextFields \cup {"issued_at", "expiry"} : auth[f] = Absent) = {}
        /\ When("AUTH_EXPIRED", Expired(auth, now)) = {}
        /\ When("AUTH_ISSUER_MISMATCH", Issuer \notin {Absent, auth.issuer}) = {}
        /\ When("AUTH_AUDIENCE_MISMATCH", auth.audience \notin {Absent, auth.audience}) = {}
        /\ When("AUTH_POLICY_ID_MISMATCH", "policy" \notin {Absent, auth.policy_id}) = {}
    BY <1>2, <1>4, <2>1, Zenon DEF When
  <2> DEFINE replay == When("AUTH_REPLAY", Consumed(auth, Options(auth.audience, published)))
  <2>3. Otherwise(auth.audience, auth) = UNION {{}, {}, {}, {}, {}, {}, replay}
    BY <2>2, Zenon DEF Otherwise
  <2>4. replay \subseteq {"AUTH_REPLAY"}
    BY DEF When
  <2> HIDE DEF replay
  <2> QED  BY <2>3, <2>4
<1>6. AuthorizationSignatureCodes(auth, opts) = {}
  <2>1. Checkable(auth, opts)
    <3>1. {"alg", "kid", "signature"} \subseteq TextFields
      BY DEF TextFields
    <3>2. Absent \notin {auth.alg, auth.kid, auth.signature}
      BY <1>4, <3>1
    <3>3. opts.trustedKeySets # << >> /\ opts.legacyHmacSecret # Absent
      BY OptionsOf, Zenon
    <3>4. auth.alg \in {"Ed25519", "HMAC-SHA256"}
      BY <1>2
    <3> QED  BY <3>2, <3>3, <3>4, Zenon DEF Checkable
  <2>2. opts.trustedKeySets = <<published>> /\ opts.legacyHmacSecret = Secret /\ opts.now = now
    <3>1. opts.trustedKeySets = <<published>> /\ opts.legacyHmacSecret = Secret
      BY OptionsOf, Zenon
    <3>2. opts.now = now
      BY DEF Options
    <3> QED  BY <3>1, <3>2
  <2>3. fits(SignerOf(auth))
    BY <1>2, Zenon DEF Verify
  <2> HIDE DEF opts, fits, checks
  <2>4. CASE auth.alg = "Ed25519"
    <3> DEFINE key == FindKey(<<published>>, Issuer, auth.kid)
    <3>1. AuthorizationSignatureCodes(auth, opts) =
            IF key = Absent THEN {"AUTH_KID_UNKNOWN"}
            ELSE IF ~KeyIsActiveAt(key, now) THEN {"AUTH_KEY_INACTIVE"}
            ELSE When("AUTH_SIGNATURE_INVALID", ~checks(key.public_key))
      BY <1>2, <2>1, <2>2, <2>4, SignatureVerdict, Zenon DEF fits, checks
    <3>2. key # Absent /\ key.public_key = Pem(<<"key", auth.kid>>) /\ KeyIsActiveAt(key, now)
      <4>1. /\ key # Absent /\ key.public_key = Pem(<<"key", auth.kid>>)
            /\ key.status # "revoked" => KeyIsActiveAt(key, now)
        BY <1>1, <1>3, <2>4, SigningKeyLasts, Zenon
      <4> QED  BY <2>4, <4>1, Zenon
    <3>3. checks(key.public_key)
      <4>1. fits(<<"key", auth.kid>>)
        BY <2>3, <2>4, Zenon DEF SignerOf
      <4>2. key.public_key.format = "PEM" /\ key.public_key.key = <<"key", auth.kid>>
        BY <3>2 DEF Pem, KeyText
      <4> QED  BY <4>1, <4>2, Zenon DEF fits, checks, VerifyEd25519
    <3> HIDE DEF key
    <3> QED  BY <3>1, <3>2, <3>3 DEF When
  <2>5. CASE auth.alg = "HMAC-SHA256"
    <3>1. AuthorizationSignatureCodes(auth, opts) = When("AUTH_SIGNATURE_INVALID", ~fits(Secret))
      BY <2>1, <2>2, <2>5, SignatureVerdict, Zenon DEF fits, checks
    <3>2. SignerOf(auth) = Secret
      BY <2>5 DEF SignerOf
    <3> QED  BY <2>3, <3>1, <3>2 DEF When
  <2> QED  BY <1>2, <2>4, <2>5
<1>7. Codes(auth.audience, published, auth) = Otherwise(auth.audience, auth) \cup {}
  BY <1>6, VerdictSplits, Zenon
<1> QED  BY <1>5, <1>7

(* With an overlap that reaches the last second of an authorization, the   *)
(* published keys verify every one that was issued until it expires, is    *)
(* executed, or its key is revoked, whenever the key is rotated            *)
(* (keyIsActiveAt).                                                        *)
THEOREM RotationIsSmooth == Spec => []RotationKeepsValid
<1>1. Inv => RotationKeepsValid
  BY RotatedKeysVerify DEF Inv
<1> QED  BY InvHolds, <1>1, PTL

(* What altering one field leaves as it was made.                          *)
LEMMA ArrivingFields ==
  ASSUME IssuedInv, NEW auth \in Arriving
  PROVE  /\ auth.issuer = Issuer /\ auth.policy_id = "policy"
         /\ auth.alg \in {"Ed25519", "HMAC-SHA256"}
         /\ auth.expiry \in Nat
         /\ \E made \in issued : Made(made) /\ auth.signature \in {Absent, made.signature}
<1>1. PICK made \in issued : Made(made) /\ (auth = made \/ Altered(made, auth))
  BY ArrivesAltered DEF IssuedInv
<1>2. /\ made.issuer = Issuer /\ made.policy_id = "policy"
      /\ made.alg = "Ed25519" \/ made.alg = "HMAC-SHA256"
      /\ made.issued_at \in Nat /\ made.expiry = made.issued_at + Ttl
  BY <1>1, Zenon DEF Made
<1>3. made.expiry \in Nat /\ made.expiry + 1 \in Nat
  BY <1>2, LifetimeAssumption
<1>4. CASE Altered(made, auth)
  <2>1. {"issuer", "policy_id", "alg"} \subseteq Fields \ {"audience", "signature", "expiry", "decision"}
    BY DEF Fields, SignedFields
  <2>2. {"expiry", "signature"} \subseteq Fields
    BY DEF Fields, SignedFields
  <2>3. PICK changed \in {"audience", "signature", "expiry", "decision"} :
          /\ \A f \in Fields \ {changed} : auth[f] = made[f]
          /\ changed = "signature" => auth.signature = Absent
          /\ changed = "expiry" => auth.expiry = made.expiry + 1
    BY <1>4, Zenon DEF Altered
  <2>4. auth.issuer = made.issuer /\ auth.policy_id = made.policy_id /\ auth.alg = made.alg
    BY <2>1, <2>3
  <2>5. auth.signature \in {Absent, made.signature}
    BY <2>2, <2>3
  <2>6. auth.expiry = made.expiry \/ auth.expiry = made.expiry + 1
    BY <2>2, <2>3
  <2> QED  BY <1>1, <1>2, <1>3, <2>4, <2>5, <2>6
<1> QED  BY <1>1, <1>2, <1>3, <1>4

(* What the core signs has fields that the Rust verifier does not know of. *)
LEMMA RustFitsNothing ==
  ASSUME IssuedInv, NEW auth \in Arriving, auth.signature # Absent, NEW key
  PROVE  ~Verify(Domain, [f \in RustFields |-> auth[f]], auth.signature, key)
<1>1. PICK made \in issued : Made(made) /\ auth.signature = made.signature
  BY ArrivingFields
<1> DEFINE known == [f \in RustFields |-> auth[f]]
           payload == SigningPayload(made)
           signer == SignerOf(made)
<1>2. auth.signature = [key |-> signer, domain |-> Domain, payload |-> payload]
  BY <1>1, Zenon DEF Made, Sign
<1>3. DOMAIN known # DOMAIN payload
  <2>1. DOMAIN known = RustFields /\ DOMAIN payload = SignedFields
    BY DEF SigningPayload
  <2>2. "nonce" \in SignedFields /\ "nonce" \notin RustFields
    BY DEF RustFields, SignedFields
  <2> HIDE DEF known, payload
  <2> QED  BY <2>1, <2>2
<1> HIDE DEF known, payload, signer
<1>4. [key |-> key, domain |-> Domain, payload |-> known] # auth.signature
  BY <1>2, <1>3
<1> QED  BY <1>4, Zenon DEF Verify, Sign, known

LEMMA EveryCodeSays ==
  ASSUME NEW party, NEW auth
  PROVE  /\ "AUTH_EXPIRED" \in Otherwise(party, auth) <=> Expired(auth, now)
         /\ Otherwise(party, auth) = {} =>
              /\ auth.decision = "ALLOW"
              /\ \A f \in TextFields \cup {"issued_at", "expiry"} : auth[f] # Absent
              /\ ~Expired(auth, now)
              /\ party \in {Absent, auth.audience}
         /\ /\ auth.decision = "ALLOW"
            /\ \A f \in TextFields \cup {"issued_at", "expiry"} : auth[f] # Absent
            /\ ~Expired(auth, now)
            /\ party = auth.audience /\ Issuer = auth.issuer /\ auth.policy_id = "policy"
            => Otherwise(party, auth) \subseteq {"AUTH_REPLAY"}
<1> DEFINE missing == \E f \in TextFields \cup {"issued_at", "expiry"} : auth[f] = Absent
           expired == Expired(auth, now)
           D == auth.decision # "ALLOW"
           I == Issuer \notin {Absent, auth.issuer}
           A == party \notin {Absent, auth.audience}
           P == "policy" \notin {Absent, auth.policy_id}
           R == Consumed(auth, Options(party, published))
<1>1. Otherwise(party, auth) = UNION { When("AUTH_DECISION_INVALID", D),
        When("AUTH_MISSING_FIELD", missing), When("AUTH_EXPIRED", expired),
        When("AUTH_ISSUER_MISMATCH", I), When("AUTH_AUDIENCE_MISMATCH", A),
        When("AUTH_POLICY_ID_MISMATCH", P), When("AUTH_REPLAY", R) }
  BY Zenon DEF Otherwise
<1> HIDE DEF missing, expired, D, I, A, P, R
<1>2. "AUTH_EXPIRED" \in Otherwise(party, auth) <=> expired
  BY <1>1 DEF When
<1>3. Otherwise(party, auth) = {} => ~D /\ ~missing /\ ~expired /\ ~A
  BY <1>1 DEF When
<1>4. ~D /\ ~missing /\ ~expired /\ ~I /\ ~A /\ ~P => Otherwise(party, auth) \subseteq {"AUTH_REPLAY"}
  BY <1>1 DEF When
<1>5. /\ ~D <=> auth.decision = "ALLOW"
      /\ ~missing <=> \A f \in TextFields \cup {"issued_at", "expiry"} : auth[f] # Absent
      /\ ~expired <=> ~Expired(auth, now)
      /\ ~A <=> party \in {Absent, auth.audience}
      /\ Issuer = auth.issuer => ~I
      /\ auth.policy_id = "policy" => ~P
  BY DEF D, missing, expired, A, I, P
<1> QED  BY <1>2, <1>3, <1>4, <1>5

(* The same keys in another format are a key set like the first.          *)
LEMMA KeysInFormat ==
  ASSUME NEW ks, IsKeySet(ks), NEW format \in KeyFormats
  PROVE  /\ IsKeySetOf(InFormat(ks, format), format)
         /\ DOMAIN InFormat(ks, format).keys = DOMAIN ks.keys
<1> DEFINE texts == [k \in DOMAIN ks.keys |->
                       [ks.keys[k] EXCEPT !.public_key = KeyText(ks.keys[k].public_key.key, format)]]
           other == InFormat(ks, format)
<1>1. /\ ks \in KeySets /\ ks.issuer = Issuer /\ Len(ks.keys) \in {1, 2}
      /\ ks.keys \in Seq(KeyEntries) /\ DOMAIN ks.keys = 1 .. Len(ks.keys)
      /\ \A k \in DOMAIN ks.keys :
           /\ ks.keys[k] \in KeyEntries
           /\ ks.keys[k].kid = k /\ ks.keys[k].alg = "Ed25519"
           /\ ks.keys[k].public_key = Pem(<<"key", k>>)
  <2>1. ks \in KeySets /\ ks.keys \in Seq(KeyEntries)
    BY DEF IsKeySet, IsKeySetOf, KeySets
  <2>2. /\ DOMAIN ks.keys = 1 .. Len(ks.keys)
        /\ \A k \in DOMAIN ks.keys : ks.keys[k] \in KeyEntries
    BY <2>1, LenProperties, ElementOfSeq
  <2> QED  BY <2>1, <2>2 DEF IsKeySet, IsKeySetOf, Pem
<1>2. ASSUME NEW k \in DOMAIN ks.keys
      PROVE  /\ texts[k] \in KeyEntries /\ texts[k].kid = k /\ texts[k].alg = "Ed25519"
             /\ texts[k].public_key = KeyText(<<"key", k>>, format)
  <2>1. ks.keys[k].public_key.key = <<"key", k>>
    <3>1. ks.keys[k].public_key = Pem(<<"key", k>>)
      BY <1>1, <1>2
    <3> QED  BY <3>1 DEF Pem, KeyText
  <2>2. texts[k] = [ks.keys[k] EXCEPT !.public_key = KeyText(<<"key", k>>, format)]
    BY <2>1
  <2>3. KeyText(<<"key", k>>, format) \in KeyTexts
    BY <1>1, <1>2 DEF KeyText, KeyTexts, Keys
  <2> HIDE DEF texts
  <2> QED  BY <1>1, <1>2, <2>2, <2>3 DEF KeyEntries
<1>3. texts \in Seq(KeyEntries) /\ DOMAIN texts = DOMAIN ks.keys /\ Len(texts) = Len(ks.keys)
  <2>1. DOMAIN texts = 1 .. Len(ks.keys) /\ Len(ks.keys) \in Nat
    BY <1>1
  <2>2. \A k \in 1 .. Len(ks.keys) : texts[k] \in KeyEntries
    BY <1>1, <1>2, Zenon
  <2>3. texts = [k \in 1 .. Len(ks.keys) |-> texts[k]]
    BY <2>1
  <2> HIDE DEF texts
  <2>4. texts \in [1 .. Len(ks.keys) -> KeyEntries]
    BY <2>2, <2>3
  <2>5. texts \in Seq(KeyEntries)
    BY <2>1, <2>4, SeqDef
  <2> QED  BY <1>1, <2>1, <2>5, LenProperties
<1>4. other = [ks EXCEPT !.keys = texts]
  BY DEF InFormat
<1> HIDE DEF texts, other
<1>5. other \in KeySets /\ other.issuer = Issuer /\ other.keys = texts
  BY <1>1, <1>3, <1>4 DEF KeySets
<1>6. IsKeySetOf(other, format)
  BY <1>1, <1>2, <1>3, <1>5 DEF IsKeySetOf
<1> QED  BY <1>3, <1>5, <1>6, Zenon DEF other

(* The Rust verifier: what each of its answers says, by the format of the  *)
(* key it finds.                                                           *)
RustPasses(auth, party, key) ==
  /\ auth.decision = "ALLOW"
  /\ \A f \in TextFields \cup {"issued_at", "expiry"} : auth[f] # Absent
  /\ ~(auth.expiry <= now)
  /\ auth.audience = party
  /\ auth.alg = "Ed25519"
  /\ key # Absent

LEMMA RustSays ==
  ASSUME NEW auth, NEW party, NEW ks,
         ks.issuer = Issuer, auth.issuer = Issuer, auth.expiry # Absent
  PROVE  LET rust == RustVerifyAuthorization(auth, ks, party, now)
             key == FindKey(<<ks>>, Issuer, auth.kid)
             fits == Verify(Domain, [f \in RustFields |-> auth[f]], auth.signature,
                            key.public_key.key)
             raw == key.public_key.format = "raw"
             passes == RustPasses(auth, party, key)
         IN  /\ rust = "ok" => passes /\ fits
             /\ rust = "AUTH_KEY_MALFORMED" <=> passes /\ ~raw
             /\ rust = "AUTH_SIGNATURE_INVALID" <=> passes /\ raw /\ ~fits
<1> DEFINE rust == RustVerifyAuthorization(auth, ks, party, now)
           key == FindKey(<<ks>>, Issuer, auth.kid)
           fits == Verify(Domain, [f \in RustFields |-> auth[f]], auth.signature,
                          key.public_key.key)
           raw == key.public_key.format = "raw"
           passes == RustPasses(auth, party, key)
           C1 == Absent \in {auth.decision, auth.issued_at, auth.expiry}
           C2 == \E f \in TextFields : auth[f] = Absent
           C3 == auth.decision # "ALLOW"
           C4 == RustExpired(auth, now)
           C5 == auth.audience # party
           C6 == auth.issuer # ks.issuer
           C7 == auth.alg # "Ed25519"
           C8 == key = Absent
           passed == ~C1 /\ ~C2 /\ ~C3 /\ ~C4 /\ ~C5 /\ ~C7 /\ ~C8
<1>1. rust = IF C1 THEN "AUTH_MALFORMED" ELSE IF C2 THEN "AUTH_MISSING_FIELD"
             ELSE IF C3 THEN "AUTH_DECISION_INVALID" ELSE IF C4 THEN "AUTH_EXPIRED"
             ELSE IF C5 THEN "AUTH_AUDIENCE_MISMATCH" ELSE IF C6 THEN "AUTH_ISSUER_MISMATCH"
             ELSE IF C7 THEN "AUTH_ALG_UNSUPPORTED" ELSE IF C8 THEN "AUTH_KID_UNKNOWN"
             ELSE IF ~raw THEN "AUTH_KEY_MALFORMED"
             ELSE IF ~fits THEN "AUTH_SIGNATURE_INVALID" ELSE "ok"
  BY Zenon DEF RustVerifyAuthorization, Domain
<1>2. /\ ~C1 => auth.issued_at # Absent
      /\ auth.decision = "ALLOW" /\ auth.issued_at # Absent => ~C1
      /\ ~C2 <=> \A f \in TextFields : auth[f] # Absent
      /\ ~C3 <=> auth.decision = "ALLOW"
      /\ ~C5 <=> auth.audience = party
      /\ ~C6
      /\ ~C7 <=> auth.alg = "Ed25519"
      /\ ~C8 <=> key # Absent
  BY AbsentAssumption DEF Values, Texts
<1>3. ~C4 <=> ~(auth.expiry <= now)
  BY Zenon DEF RustExpired
<1>4. passes <=> passed
  <2> HIDE DEF C1, C2, C3, C4, C5, C6, C7, C8, key
  <2>1. (\A f \in TextFields \cup {"issued_at", "expiry"} : auth[f] # Absent) <=>
          auth.issued_at # Absent /\ \A f \in TextFields : auth[f] # Absent
    OBVIOUS
  <2> QED  BY <1>2, <1>3, <2>1, Zenon DEF RustPasses
<1> HIDE DEF rust, fits, raw, passes, C1, C2, C3, C4, C5, C6, C7, C8
<1>5. /\ rust = "ok" => passed /\ fits
      /\ rust = "AUTH_KEY_MALFORMED" <=> passed /\ ~raw
      /\ rust = "AUTH_SIGNATURE_INVALID" <=> passed /\ raw /\ ~fits
  BY <1>1, <1>2
<1> HIDE DEF passed
<1>6. /\ rust = "ok" => passes /\ fits
      /\ rust = "AUTH_KEY_MALFORMED" <=> passes /\ ~raw
      /\ rust = "AUTH_SIGNATURE_INVALID" <=> passes /\ raw /\ ~fits
  BY <1>4, <1>5
<1> QED  BY <1>6, Zenon DEF rust, fits, raw, passes

(* Of what was issued, the Rust verifier finds the same wanting with a key *)
(* in either format, up to the key: with a PEM that, with a raw one the    *)
(* signature.                                                              *)
LEMMA RustOfIssued ==
  ASSUME KeysInv, IssuedInv, NEW party, NEW auth \in Arriving
  PROVE  LET rust(format) == RustVerifyAuthorization(auth, InFormat(published, format), party, now)
             passes == RustPasses(auth, party, FindKey(<<published>>, Issuer, auth.kid))
         IN  /\ rust("PEM") # "ok" /\ rust("raw") # "ok"
             /\ rust("PEM") = "AUTH_KEY_MALFORMED" <=> passes
             /\ rust("raw") = "AUTH_SIGNATURE_INVALID" <=> passes
<1>1. /\ auth.issuer = Issuer /\ auth.expiry # Absent /\ IsKeySet(published)
  <2>1. auth.issuer = Issuer /\ auth.expiry \in Nat
    BY ArrivingFields, Zenon
  <2> QED  BY <2>1, AbsentAssumption DEF Values, KeysInv
<1> DEFINE passes == RustPasses(auth, party, FindKey(<<published>>, Issuer, auth.kid))
           ks(format) == InFormat(published, format)
           key(format) == FindKey(<<ks(format)>>, Issuer, auth.kid)
           rust(format) == RustVerifyAuthorization(auth, ks(format), party, now)
           fits(format) == Verify(Domain, [f \in RustFields |-> auth[f]], auth.signature,
                                  key(format).public_key.key)
           raw(format) == key(format).public_key.format = "raw"
           passed(format) == RustPasses(auth, party, key(format))
<1>2. ASSUME NEW format \in KeyFormats
      PROVE  /\ rust(format) = "ok" => passes /\ fits(format)
             /\ rust(format) = "AUTH_KEY_MALFORMED" <=> passes /\ format # "raw"
             /\ rust(format) = "AUTH_SIGNATURE_INVALID" <=> passes /\ format = "raw" /\ ~fits(format)
             /\ passes => ~fits(format)
  <2>1. /\ IsKeySetOf(ks(format), format) /\ ks(format).issuer = Issuer
        /\ DOMAIN ks(format).keys = DOMAIN published.keys
    BY <1>1, <1>2, KeysInFormat, Zenon DEF IsKeySetOf
  <2>2. key(format) # Absent =>
          /\ FindKey(<<published>>, Issuer, auth.kid) # Absent
          /\ raw(format) <=> format = "raw"
    <3> DEFINE found == ks(format).keys[auth.kid]
    <3>1. key(format) # Absent => auth.kid \in DOMAIN published.keys /\ key(format) = found
      BY <2>1, KeyFoundOf, Zenon
    <3>2. auth.kid \in DOMAIN published.keys =>
            found.public_key.format = format /\ FindKey(<<published>>, Issuer, auth.kid) # Absent
      <4>1. auth.kid \in DOMAIN published.keys => FindKey(<<published>>, Issuer, auth.kid) # Absent
        BY <1>1, KeyFound, Zenon
      <4>2. auth.kid \in DOMAIN published.keys =>
              found.public_key = KeyText(<<"key", auth.kid>>, format)
        BY <2>1, Zenon DEF IsKeySetOf
      <4> HIDE DEF ks
      <4> QED  BY <4>1, <4>2 DEF KeyText
    <3> HIDE DEF key
    <3> QED  BY <3>1, <3>2, Zenon
  <2>3. key(format) = Absent => FindKey(<<published>>, Issuer, auth.kid) = Absent
    BY <1>1, <2>1, KeyFound, KeyFoundOf, Zenon
  <2>4. passed(format) <=> passes
    BY <2>2, <2>3, Zenon DEF RustPasses
  <2>5. /\ rust(format) = "ok" => passed(format) /\ fits(format)
        /\ rust(format) = "AUTH_KEY_MALFORMED" <=> passed(format) /\ ~raw(format)
        /\ rust(format) = "AUTH_SIGNATURE_INVALID" <=> passed(format) /\ raw(format) /\ ~fits(format)
    BY <1>1, <2>1, RustSays, Zenon
  <2>6. passes => ~fits(format)
    <3>1. "signature" \in TextFields \cup {"issued_at", "expiry"}
      BY DEF TextFields
    <3>2. passes => auth.signature # Absent
      BY <3>1, Zenon DEF RustPasses
    <3> QED  BY <3>2, RustFitsNothing, Zenon
  <2>7. passed(format) => (raw(format) <=> format = "raw")
    BY <2>2, Zenon DEF RustPasses
  <2> HIDE DEF rust, fits, raw, passed, passes
  <2> QED  BY <2>4, <2>5, <2>6, <2>7, Zenon
<1>3. "PEM" \in KeyFormats /\ "raw" \in KeyFormats /\ "PEM" # "raw"
  BY DEF KeyFormats
<1>4. /\ rust("PEM") # "ok" /\ rust("raw") # "ok"
      /\ rust("PEM") = "AUTH_KEY_MALFORMED" <=> passes
      /\ rust("raw") = "AUTH_SIGNATURE_INVALID" <=> passes
  <2> HIDE DEF rust, fits, passes
  <2> QED  BY <1>2, <1>3, Zenon
<1> QED  BY <1>4, Zenon

(* PolicyEngine.verifyAuthorization, of what the engine has issued.        *)
LEMMA EngineSays ==
  ASSUME NEW auth, Made(auth), auth.engine_signature # Absent, now \in Nat
  PROVE  EngineVerifyAuthorization(auth, auth.intent_hash, "v1", Secret, now) = "valid" <=>
           now < auth.expiry \/ now = auth.expiry
<1> DEFINE fits == Verify("", LegacyPayload(auth), auth.engine_signature, Secret)
<1>1. /\ auth.decision = "ALLOW" /\ auth.policy_version = "v1"
      /\ auth.engine_signature = Sign(Secret, "", LegacyPayload(auth))
  <2> DEFINE legacy == Sign(Secret, "", LegacyPayload(auth))
  <2>1. /\ auth.decision = "ALLOW" /\ auth.policy_version = "v1"
        /\ auth.engine_signature \in {Absent, legacy}
    BY Zenon DEF Made
  <2> HIDE DEF legacy
  <2>2. auth.engine_signature = legacy
    BY <2>1
  <2> QED  BY <2>1, <2>2 DEF legacy
<1>2. fits
  BY <1>1, Zenon DEF Verify
<1>3. auth.expiry \in Nat
  <2>1. auth.issued_at \in Nat /\ auth.expiry = auth.issued_at + Ttl
    BY Zenon DEF Made
  <2> QED  BY <2>1, LifetimeAssumption
<1>4. EngineVerifyAuthorization(auth, auth.intent_hash, "v1", Secret, now) =
        IF auth.intent_hash # auth.intent_hash THEN "AUTH_INTENT_MISMATCH"
        ELSE IF now > auth.expiry THEN "AUTH_EXPIRED"
        ELSE IF auth.decision # "ALLOW" THEN "AUTH_SIGNATURE_INVALID"
        ELSE IF auth.policy_version # "v1" THEN "POLICY_VERSION_MISMATCH"
        ELSE IF ~fits THEN "AUTH_SIGNATURE_INVALID" ELSE "valid"
  BY Zenon DEF EngineVerifyAuthorization
<1> DEFINE engine == EngineVerifyAuthorization(auth, auth.intent_hash, "v1", Secret, now)
           late == now > auth.expiry
<1>5. engine = IF late THEN "AUTH_EXPIRED" ELSE "valid"
  <2> HIDE DEF fits, late
  <2> QED  BY <1>1, <1>2, <1>4, Zenon DEF late
<1>6. late <=> ~(now < auth.expiry \/ now = auth.expiry)
  BY <1>3
<1> HIDE DEF engine, late
<1>7. engine = "valid" <=> ~late
  BY <1>5
<1> QED  BY <1>6, <1>7, Zenon DEF engine

(* With raw keys the core verifies no Ed25519 signature (normalizePem).    *)
LEMMA RawKeysServeNot ==
  ASSUME KeysInv, NEW party, NEW auth, auth.issuer = Issuer, auth.alg = "Ed25519"
  PROVE  Codes(party, InFormat(published, "raw"), auth) # {}
<1> DEFINE ks == InFormat(published, "raw")
           opts == Options(party, ks)
           sig == AuthorizationSignatureCodes(auth, opts)
           key == FindKey(<<ks>>, Issuer, auth.kid)
           checks(t) == VerifyEd25519(Domain, SigningPayload(auth), auth.signature, t)
           active == KeyIsActiveAt(key, opts.now)
<1>1. SUFFICES ASSUME Codes(party, ks, auth) = {}
               PROVE  FALSE
  OBVIOUS
<1>2. sig = {}
  <2>1. Otherwise(party, auth) \cup sig = {}
    BY <1>1, VerdictSplits, Zenon
  <2> HIDE DEF sig
  <2> QED  BY <2>1
<1>3. Absent \notin {auth.alg, auth.kid, auth.signature}
  <2>1. "AUTH_MISSING_FIELD" \notin VerifyAuthorization(auth, opts)
    BY <1>1 DEF Codes
  <2>2. \A f \in TextFields \cup {"issued_at", "expiry"} : auth[f] # Absent
    BY <2>1, VerdictSays, Zenon
  <2>3. {"alg", "kid", "signature"} \subseteq TextFields \cup {"issued_at", "expiry"}
    BY DEF TextFields
  <2> QED  BY <2>2, <2>3
<1>4. opts.trustedKeySets # << >> /\ opts.legacyHmacSecret # Absent /\ opts.trustedKeySets = <<ks>>
  BY OptionsOf, Zenon
<1>5. Checkable(auth, opts)
  <2> HIDE DEF opts
  <2> QED  BY <1>3, <1>4 DEF Checkable
<1>6. sig = IF key = Absent THEN {"AUTH_KID_UNKNOWN"}
            ELSE IF ~active THEN {"AUTH_KEY_INACTIVE"}
            ELSE When("AUTH_SIGNATURE_INVALID", ~checks(key.public_key))
  <2> HIDE DEF opts, ks
  <2> QED  BY <1>4, <1>5, SignatureVerdict, Zenon
<1>7. key # Absent => ~checks(key.public_key)
  <2>1. IsKeySetOf(ks, "raw")
    BY KeysInFormat, Zenon DEF KeysInv, KeyFormats
  <2>2. key # Absent => auth.kid \in DOMAIN ks.keys /\ key = ks.keys[auth.kid]
    BY <2>1, KeyFoundOf, Zenon
  <2>3. auth.kid \in DOMAIN ks.keys => ks.keys[auth.kid].public_key = KeyText(<<"key", auth.kid>>, "raw")
    BY <2>1, Zenon DEF IsKeySetOf
  <2>4. KeyText(<<"key", auth.kid>>, "raw").format # "PEM"
    BY DEF KeyText
  <2>5. key # Absent => key.public_key.format # "PEM"
    BY <2>2, <2>3, <2>4, Zenon
  <2> QED  BY <2>5, Zenon DEF VerifyEd25519
<1> HIDE DEF sig, key, checks, active
<1> QED  BY <1>2, <1>6, <1>7 DEF When

LEMMA TheThreeAgree ==
  ASSUME KeysInv, IssuedInv
  PROVE  AuthorizationVerifiersAgree
<1> SUFFICES ASSUME NEW party \in Parties, NEW auth \in Arriving
             PROVE  LET codes == Codes(party, published, auth)
                        Rust(format) == RustVerifyAuthorization(auth, InFormat(published, format), party, now)
                        engine == EngineVerifyAuthorization(auth, auth.intent_hash, "v1", Secret, now)
                        unchecked == {"AUTH_SIGNATURE_INVALID", "AUTH_KEY_INACTIVE", "AUTH_REPLAY"}
                    IN  /\ "ok" \notin {Rust("PEM"), Rust("raw")}
                        /\ Rust("raw") = "AUTH_SIGNATURE_INVALID" => codes \subseteq unchecked
                        /\ Rust("PEM") = "AUTH_KEY_MALFORMED" <=> Rust("raw") = "AUTH_SIGNATURE_INVALID"
                        /\ auth.alg = "Ed25519" =>
                             /\ codes = {} => Rust("raw") = "AUTH_SIGNATURE_INVALID"
                             /\ Codes(party, InFormat(published, "raw"), auth) # {}
                        /\ auth \in issued /\ auth.engine_signature # Absent =>
                             (engine = "valid" <=> ("AUTH_EXPIRED" \notin codes \/ auth.expiry = now))
  BY Zenon DEF AuthorizationVerifiersAgree
<1> DEFINE codes == Codes(party, published, auth)
           Rust(format) == RustVerifyAuthorization(auth, InFormat(published, format), party, now)
           engine == EngineVerifyAuthorization(auth, auth.intent_hash, "v1", Secret, now)
           key == FindKey(<<published>>, Issuer, auth.kid)
           opts == Options(party, published)
           sig == AuthorizationSignatureCodes(auth, opts)
           others == Otherwise(party, auth)
           present == \A f \in TextFields \cup {"issued_at", "expiry"} : auth[f] # Absent
           passes == RustPasses(auth, party, key)
<1>1. /\ auth.issuer = Issuer /\ auth.policy_id = "policy"
      /\ auth.alg \in {"Ed25519", "HMAC-SHA256"} /\ auth.expiry \in Nat
  BY ArrivingFields, Zenon
<1>2. published.issuer = Issuer /\ now \in Nat
  BY Zenon DEF KeysInv, IsKeySet, IsKeySetOf
<1>3. auth.expiry # Absent
  BY <1>1, AbsentAssumption DEF Values
<1>4. /\ Rust("PEM") # "ok" /\ Rust("raw") # "ok"
      /\ Rust("PEM") = "AUTH_KEY_MALFORMED" <=> passes
      /\ Rust("raw") = "AUTH_SIGNATURE_INVALID" <=> passes
  BY RustOfIssued, Zenon
<1>5. passes <=> /\ auth.decision = "ALLOW" /\ present /\ ~(auth.expiry <= now)
                 /\ auth.audience = party /\ auth.alg = "Ed25519" /\ key # Absent
  BY Zenon DEF RustPasses
<1>6. codes = others \cup sig
  BY VerdictSplits, Zenon
<1>7. ASSUME present
      PROVE  /\ auth.alg = "Ed25519" =>
                  sig = IF key = Absent THEN {"AUTH_KID_UNKNOWN"}
                        ELSE IF ~KeyIsActiveAt(key, opts.now) THEN {"AUTH_KEY_INACTIVE"}
                        ELSE When("AUTH_SIGNATURE_INVALID",
                                  ~VerifyEd25519(Domain, SigningPayload(auth), auth.signature,
                                                 key.public_key))
             /\ auth.alg = "HMAC-SHA256" =>
                  sig = When("AUTH_SIGNATURE_INVALID",
                             ~Verify(Domain, SigningPayload(auth), auth.signature, opts.legacyHmacSecret))
  <2>1. Absent \notin {auth.alg, auth.kid, auth.signature}
    <3>1. {"alg", "kid", "signature"} \subseteq TextFields \cup {"issued_at", "expiry"}
      BY DEF TextFields
    <3> QED  BY <1>7, <3>1
  <2>2. opts.trustedKeySets # << >> /\ opts.legacyHmacSecret # Absent
    BY OptionsOf, Zenon
  <2>3. Checkable(auth, opts)
    BY <1>1, <2>1, <2>2, Zenon DEF Checkable
  <2>4. opts.trustedKeySets = <<published>>
    BY DEF Options
  <2> HIDE DEF opts
  <2> QED  BY <1>1, <2>3, <2>4, SignatureVerdict, Zenon
<1>8. /\ "AUTH_EXPIRED" \in others <=> Expired(auth, now)
      /\ others = {} => /\ auth.decision = "ALLOW" /\ present /\ ~Expired(auth, now)
                       /\ party \in {Absent, auth.audience}
      /\ /\ auth.decision = "ALLOW" /\ present /\ ~Expired(auth, now)
         /\ party = auth.audience /\ Issuer = auth.issuer /\ auth.policy_id = "policy"
         => others \subseteq {"AUTH_REPLAY"}
  BY EveryCodeSays, Zenon
<1>9. Expired(auth, now) <=> auth.expiry <= now
  BY <1>1, <1>2, <1>3 DEF Expired
<1>10. party # Absent
  BY AbsentAssumption DEF Values
<1>11. ASSUME auth.alg = "Ed25519"
       PROVE  Codes(party, InFormat(published, "raw"), auth) # {}
  BY <1>1, <1>11, RawKeysServeNot, Zenon
<1> HIDE DEF codes, Rust, key, opts, sig, others, present, passes
<1>12. ASSUME Rust("raw") = "AUTH_SIGNATURE_INVALID"
       PROVE  codes \subseteq {"AUTH_SIGNATURE_INVALID", "AUTH_KEY_INACTIVE", "AUTH_REPLAY"}
  <2>1. passes
    BY <1>4, <1>12
  <2>2. others \subseteq {"AUTH_REPLAY"}
    BY <1>1, <1>5, <1>8, <1>9, <2>1
  <2>3. sig \subseteq {"AUTH_SIGNATURE_INVALID", "AUTH_KEY_INACTIVE"}
    BY <1>5, <1>7, <2>1 DEF When
  <2> QED  BY <1>6, <2>2, <2>3
<1>13. ASSUME codes = {}, auth.alg = "Ed25519"
       PROVE  Rust("raw") = "AUTH_SIGNATURE_INVALID"
  <2>1. others = {} /\ sig = {}
    BY <1>6, <1>13
  <2>2. /\ auth.decision = "ALLOW" /\ present /\ ~(auth.expiry <= now)
        /\ auth.audience = party
    BY <1>8, <1>9, <1>10, <2>1
  <2>3. key # Absent
    BY <1>7, <1>13, <2>1, <2>2
  <2> QED  BY <1>4, <1>5, <1>13, <2>2, <2>3
<1>14. ASSUME auth \in issued, auth.engine_signature # Absent
       PROVE  engine = "valid" <=> ("AUTH_EXPIRED" \notin codes \/ auth.expiry = now)
  <2>1. Made(auth)
    BY <1>14 DEF IssuedInv
  <2>2. present
    BY <2>1, MadeSigned, Zenon DEF present
  <2>3. "AUTH_EXPIRED" \notin sig
    BY <1>1, <1>7, <2>2 DEF When
  <2>4. "AUTH_EXPIRED" \in codes <=> auth.expiry <= now
    BY <1>6, <1>8, <1>9, <2>3
  <2>5. engine = "valid" <=> now < auth.expiry \/ now = auth.expiry
    BY <1>2, <1>14, <2>1, EngineSays, Zenon
  <2> HIDE DEF engine
  <2>6. (now < auth.expiry \/ now = auth.expiry) <=> (~(auth.expiry <= now) \/ auth.expiry = now)
    BY <1>1, <1>2
  <2> QED  BY <2>4, <2>5, <2>6
<1>15. /\ "ok" \notin {Rust("PEM"), Rust("raw")}
       /\ Rust("PEM") = "AUTH_KEY_MALFORMED" <=> Rust("raw") = "AUTH_SIGNATURE_INVALID"
  BY <1>4
<1> QED  BY <1>11, <1>12, <1>13, <1>14, <1>15, Zenon DEF codes, Rust

(* The engine's verifier takes one second more.  The keys with which the   *)
(* core verifies are malformed to the Rust verifier, and with those that   *)
(* it can read the core verifies nothing; given them, it ends at the       *)
(* signature of whatever the core accepts, and looks at no key's status    *)
(* and no replay (verifyAuthorization, PolicyEngine.verifyAuthorization,   *)
(* examples/rust-verifier).                                                *)
THEOREM VerifiersOfAnAuthorization == Spec => []AuthorizationVerifiersAgree
<1>1. Inv => AuthorizationVerifiersAgree
  BY TheThreeAgree DEF Inv
<1> QED  BY InvHolds, <1>1, PTL
=============================================================================
