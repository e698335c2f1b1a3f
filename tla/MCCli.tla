---------------------------------- MODULE MCCli ----------------------------------
(* One agent, one kind of action; every command that writes, with flags in  *)
(* both forms, and command lines that are refused.                          *)
EXTENDS Cli, TLC

CONSTANTS p1, p2

Processes == Permutations(Invocations)

OneRequest ==
  {[action_type |-> "PROVISION", asset |-> Undefined, target |-> "us-east-1", amount |-> 1,
    depth |-> 0, tool |-> Undefined, tool_call |-> FALSE]}
ByWord == [w \in {"PROVISION"} |-> CHOOSE r \in OneRequest : TRUE]

Unlimited == [a \in Agents |-> 9]
UpToTwo == [a \in Agents |-> 2]
NoTools == [a \in Agents |-> << >>]

Fresh(version) ==
  [ policy_version  |-> version,
    kill_switch     |-> [global |-> FALSE, agents |-> {}],
    nonces          |-> [a \in Agents |-> << >>],
    max_concurrent  |-> UpToTwo,
    active          |-> [a \in Agents |-> 0],
    active_auths    |-> [a \in Agents |-> {}],
    calls           |-> [a \in Agents |-> << >>],
    spent_in_period |-> [a \in Agents |-> 0],
    counters        |-> [a \in Agents |-> Undefined] ]
Sample == Fresh("v1")
Others == {Fresh("v2"), Torn}

ASSUME FilesAssumption == NewAccounts /\ NamedPolicies

By(nonce) == <<Line!Flag("--agent"), Line!Word("agent-1"), Line!Assign("--nonce", nonce)>>
Pay == <<Line!Word("launch"), Line!Word("PROVISION")>>
Lines ==
  { <<Line!Flag("--json")>> \o Pay \o By("1"),
    Pay \o By("2"),
    <<Line!Word("launch"), Line!Word("dry-run"), Line!Word("PROVISION")>> \o By("2"),
    Pay \o <<Line!Flag("--nonce"), Line!Word("1")>>,
    Pay \o By(""),
    Pay \o By("1") \o <<Line!Flag("--asset"), Line!Word("")>>,
    Pay \o By("1") \o <<Line!Flag("--dry-run")>>,
    Pay \o By("1") \o <<Line!Assign("--kind", "all")>>,
    Pay \o By("1") \o <<Line!Flag("--help")>>,
    Pay \o <<Line!Flag("--agent"), Line!Word("agent-1"), Line!Flag("--nonce")>>,
    <<Line!Word("auth"), Line!Word("create"), Line!Word("PROVISION"), Line!Flag("--out"),
      Line!Flag("--json")>> \o By("1"),
    <<Line!Word("init"), Line!Flag("--file"), Line!Word("policy.json")>>,
    <<Line!Word("examples"), Line!Word("init"), Line!Flag("--")>>,
    <<Line!Word("build"), Line!Word("snap"), Line!Flag("--out"), Line!Word("out.bin")>>,
    <<Line!Word("build")>>,
    <<Line!Word("make-envelope"), Line!Assign("--out", "out.bin")>> }
=============================================================================
