----------------------------- MODULE GuardPromise -----------------------------
(***************************************************************************)
(* What a caller of the guard would like to rely on: that it takes in an   *)
(* intent, decides on it, runs the callback and charges the state in one   *)
(* step.  Guard.tla keeps this promise as long as calls do not overlap and *)
(* the callback and the save do not fail.                                  *)
(***************************************************************************)
EXTENDS PolicyPipeline, Functions

CONSTANTS Calls, InitialState, IntentTypes, Timestamps

VARIABLES
  store,   (* the state of the state adapter                               *)
  charged  (* the calls that were charged to it, with their intents        *)

Init ==
  /\ store = InitialState
  /\ charged = {}

Serve(c) ==
  /\ \A e \in charged : e.call # c
  /\ \E i \in ExecuteIntents(Timestamps) \cup ReleaseIntents(Timestamps, store) :
       LET out == Evaluation(i, store, "fail-fast")
       IN  /\ i.type \in IntentTypes
           /\ out.decision = "ALLOW"
           /\ store' = out.next
           /\ charged' = charged \cup {[call |-> c, intent |-> i]}

Next == \E c \in Calls : Serve(c)

Spec == Init /\ [][Next]_<<store, charged>>

ChargedTo(a) == {e \in charged : e.intent.type = "EXECUTE" /\ e.intent.agent_id = a}

(* The state charges exactly what was done, and no more than the budget    *)
(* (BudgetModule, committed by stateAdapter.save).                         *)
ChargedExactly ==
  \A a \in Agents :
    LET spent == store.spent_in_period[a]
    IN  /\ spent = InitialState.spent_in_period[a]
                     + SumFunction([e \in ChargedTo(a) |-> e.intent.request.amount])
        /\ spent <= BudgetLimit[a]
=============================================================================
