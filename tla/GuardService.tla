---------------------------- MODULE GuardService ----------------------------
(***************************************************************************)
(* Guard.tla as an implementation of GuardPromise.tla: the refinement      *)
(* mapping and what the promise says of the guard.                         *)
(***************************************************************************)
EXTENDS Guard

(* A call is served when its state is saved.                               *)
Charged ==
  {[call |-> c, intent |-> intent[c]] : c \in {d \in Calls : pc[d] \in {"saved", "done"}}}

Promise == INSTANCE GuardPromise WITH charged <- Charged

(* The guard implements the promise when calls do not overlap and neither  *)
(* the callback nor the save fails.                                        *)
ImplementsPromise == Promise!Spec

(* What the promise says of the charges, of the guard (GuardPromise).      *)
ChargedExactly == Promise!ChargedExactly
==============================================================================
