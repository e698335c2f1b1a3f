---------------------------- MODULE MCPolicyEngine ----------------------------
(* Instances of PolicyEngine and PolicyAdmin for TLC.                      *)
EXTENDS PolicyAdmin, TLC

PureFailFast == {<<"evaluatePure", "fail-fast">>}
Evaluating == {<<"evaluate", "fail-fast">>}
BothModes == PureFailFast \cup {<<"evaluatePure", "collect-all">>}

Spend == [ action_type |-> "PROVISION", asset |-> Undefined, target |-> "eu",
           amount |-> 1, depth |-> 0, tool |-> Undefined, tool_call |-> FALSE ]
SpendMore == [Spend EXCEPT !.amount = 2, !.asset = "gpu"]
Refund == [Spend EXCEPT !.amount = -1]
Search == [Spend EXCEPT !.amount = 0, !.tool = "search", !.tool_call = TRUE]

(* Every reason of the modules that keep no counter.                       *)
Refused == { [Spend EXCEPT !.action_type = "PAYMENT", !.asset = "coin", !.target = "us"],
             [Spend EXCEPT !.depth = 2],
             [Spend EXCEPT !.amount = 3] }

SpendRequests == {Spend}
BudgetRequests == {Spend, SpendMore} \cup Refused
LimitRequests == BudgetRequests \cup {Search, Refund}

One == [a \in Agents |-> 1]
Two == [a \in Agents |-> 2]
Three == [a \in Agents |-> 3]
Nine == [a \in Agents |-> 9]
SearchOnce == [a \in Agents |-> "search" :> 1]
=============================================================================
