------------------------------ MODULE CommandLine ------------------------------
(***************************************************************************)
(* How packages/cli/src/main.ts reads its arguments, and what its          *)
(* verification commands answer: operators on an argument list and on the  *)
(* contents of files.  Cli.tla runs the commands that change files.        *)
(*                                                                         *)
(* An argument is a word, a flag (--nonce) or an assignment (--nonce=1).   *)
(***************************************************************************)
EXTENDS Verifiers, SequencesExt

Word(text)          == [kind |-> "word",   text |-> text,  value |-> ""]
Flag(name)          == [kind |-> "flag",   text |-> name,  value |-> ""]
Assign(name, value) == [kind |-> "assign", text |-> name,  value |-> value]

Switches == {"--json", "--help", "--version", "--require-signature"}

ValueFlags ==
  { "--state", "--audit", "--file", "--out", "--agent", "--nonce", "--asset", "--kind",
    "--mode", "--expected-policy-id", "--expected-issuer", "--expected-audience",
    "--consumed-auth-id", "--trusted-keyset", "--legacy-hmac-secret" }

(* --kind and --mode take only these.                                      *)
Legal(flag, value) ==
  CASE flag = "--kind" -> value \in {"snapshot", "audit", "envelope", "authorization"}
    [] flag = "--mode" -> value \in {"strict", "best-effort"}
    [] OTHER           -> TRUE

(* parseFlags: the positional arguments, and the flags given with their    *)
(* values.  A flag that wants a value takes whatever argument is next, the *)
(* name of a flag too, but no empty one; the later of two settings counts. *)
ParseFlags(argv) ==
  LET Set(parsed, flag, value) ==
        [parsed EXCEPT !.flags = (flag :> value) @@ @, !.awaits = "",
                       !.ok = Legal(flag, value)]
      Read(parsed, a) ==
        IF ~parsed.ok THEN parsed
        ELSE IF parsed.awaits # "" /\ a = Word("") THEN [parsed EXCEPT !.ok = FALSE]
        ELSE IF parsed.awaits # "" THEN Set(parsed, parsed.awaits, a.text)
        ELSE IF a.kind = "word" THEN [parsed EXCEPT !.args = Append(@, a.text)]
        ELSE IF a.kind = "flag" /\ a.text = "--" THEN parsed
        ELSE IF a.kind = "flag" /\ a.text \in Switches THEN Set(parsed, a.text, TRUE)
        ELSE IF a.kind = "flag" /\ a.text \in ValueFlags THEN [parsed EXCEPT !.awaits = a.text]
        ELSE IF a.kind = "assign" /\ a.text \in ValueFlags THEN Set(parsed, a.text, a.value)
        ELSE [parsed EXCEPT !.ok = FALSE]
      parsed == FoldLeft(Read, [args |-> << >>, flags |-> << >>, awaits |-> "", ok |-> TRUE], argv)
  IN  [args |-> parsed.args, flags |-> parsed.flags, ok |-> parsed.ok /\ parsed.awaits = ""]

(* An empty value, which only an assignment can give, is as good as none.  *)
Given(parsed, flag) == flag \in DOMAIN parsed.flags /\ parsed.flags[flag] # ""

Arg(parsed, k) == IF k \in DOMAIN parsed.args THEN parsed.args[k] ELSE Absent

(* The command that is run: none if the flags do not parse, or if help or  *)
(* the version is all that is asked for.                                   *)
Command(parsed) ==
  IF ~parsed.ok \/ {"--help", "--version"} \cap DOMAIN parsed.flags # {}
  THEN Absent ELSE Arg(parsed, 1)

-----------------------------------------------------------------------------
(***************************************************************************)
(* Verification                                                            *)
(***************************************************************************)

VerificationExitCode(result) ==
  CASE result.status = "ok"           -> 0
    [] result.status = "inconclusive" -> 3
    [] OTHER                          -> 1

AggregateVerificationExit(results) ==
  LET statuses == {results[k].status : k \in DOMAIN results}
  IN  IF "invalid" \in statuses THEN 1 ELSE IF "inconclusive" \in statuses THEN 3 ELSE 0

(* verify-audit, and verify --kind audit without other flags.              *)
VerifyAudit(events) ==
  VerifyAuditEvents(events,
    [mode |-> "strict", requireStateAnchors |-> Absent, expectedPolicyId |-> Absent])

(* verify-envelope, and verify --kind envelope without other flags.        *)
VerifyEnvelopeFile(envelope) ==
  VerifyEnvelope(envelope,
    [ mode |-> "strict", expectedPolicyId |-> Absent, expectedIssuer |-> Absent,
      requireSignatureVerification |-> FALSE, trustedKeySets |-> << >>, now |-> 0 ])

VerifySnapshotFile(snapshot) ==
  LET codes == VerifySnapshot(snapshot, Absent).violations
  IN  [status |-> IF codes = {} THEN "ok" ELSE "invalid", violations |-> codes]

(* verify all.                                                             *)
VerifyAll(snapshot, events, envelope) ==
  AggregateVerificationExit(
    <<VerifySnapshotFile(snapshot), VerifyAudit(events), VerifyEnvelopeFile(envelope)>>)
=============================================================================
