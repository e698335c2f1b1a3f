------------------------------- MODULE MCGuard -------------------------------
(* Instances of GuardService for TLC.                                       *)
EXTENDS GuardService

Spend == [ action_type |-> "PROVISION", asset |-> Undefined, target |-> "eu",
           amount |-> 1, depth |-> 0, tool |-> Undefined, tool_call |-> FALSE ]
SpendRequests == {Spend}
PaidRequests == {Spend, [Spend EXCEPT !.amount = -1]}

One == [a \in Agents |-> 1]
Two == [a \in Agents |-> 2]
Nine == [a \in Agents |-> 9]
NoTools == [a \in Agents |-> << >>]

(* One guard and one client.                                                *)
ByKind == [c \in Calls |-> IF c \in Clients THEN "client" ELSE "guard"]

Fresh ==
  [ policy_version  |-> PolicyVersion,
    kill_switch     |-> [global |-> FALSE, agents |-> {}],
    nonces          |-> [a \in Agents |-> << >>],
    max_concurrent  |-> [a \in Agents |-> 2],
    active          |-> [a \in Agents |-> 0],
    active_auths    |-> [a \in Agents |-> {}],
    calls           |-> [a \in Agents |-> << >>],
    spent_in_period |-> [a \in Agents |-> 0],
    counters        |-> [a \in Agents |-> Undefined] ]
==============================================================================
