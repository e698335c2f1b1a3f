------------------------------- MODULE MCStandby -------------------------------
(* One agent whose intents are calls of one tool, of amount one.            *)
EXTENDS Standby

CONSTANTS a1, action, target_, tool

OneAgent == {a1}
Unlimited == [a \in Agents |-> 9]
UpToTwo == [a \in Agents |-> 2]
UpToFour == [a \in Agents |-> 4]
ByTool == [a \in Agents |-> [t \in {tool} |-> 9]]
OneCall ==
  {[action_type |-> action, asset |-> Undefined, target |-> target_, amount |-> 1,
    depth |-> 0, tool |-> tool, tool_call |-> TRUE]}
=============================================================================
