------------------------------ MODULE StateCommits ------------------------------
(***************************************************************************)
(* How the states of one engine reach its store: commitState and           *)
(* flushState (packages/core/src/policy/PolicyEngine.ts) over the          *)
(* FileStateStore of packages/core/src/adapters.  A state is the number of *)
(* the step of the caller that made it.                                    *)
(***************************************************************************)
EXTENDS Integers, Sequences

CONSTANTS
  StateFlushes,  (* calls of flushState                                    *)
  SetsMayFail,   (* whether a write or a rename may fail                   *)
  NoFile         (* ENOENT, which get turns into null                      *)

ASSUME CommitsAssumption == SetsMayFail \in BOOLEAN /\ NoFile \notin Nat

VARIABLES
  hasStore,    (* opts.stateStore is there                                 *)
  commits,     (* the snapshots stateStoreChain was given                  *)
  saved,       (* how many of its sets have settled                        *)
  temporary,   (* what the temporary file of the set under way holds       *)
  stored,      (* what the state file holds; survives a crash              *)
  stateError,  (* stateStoreError is not null                              *)
  stateFlush,  (* where each call of flushState is                         *)
  excused      (* history: the sets up to here had a failure thrown        *)

commitVars == <<hasStore, commits, saved, temporary, stored, stateError, stateFlush, excused>>

(* commitState: the snapshot is taken at once, the set is queued.          *)
Commit(snapshot) ==
  /\ commits' = IF hasStore THEN Append(commits, snapshot) ELSE commits
  /\ UNCHANGED <<hasStore, saved, temporary, stored,
                 stateError, stateFlush, excused>>

(* Mutant: the state file itself is written.                               *)
SetWritesInPlace ==
  /\ saved < Len(commits)
  /\ temporary = NoFile
  /\ temporary' = commits[saved + 1]
  /\ stored' = NoFile
  /\ UNCHANGED <<hasStore, commits, saved, stateError, stateFlush, excused>>

(* FileStateStore.set: write a new temporary file, ...                     *)
SetWrites ==
  /\ saved < Len(commits)
  /\ temporary = NoFile
  /\ temporary' = commits[saved + 1]
  /\ UNCHANGED <<hasStore, commits, saved, stored, stateError, stateFlush, excused>>

(* ... then rename it.                                                     *)
SetRenames ==
  /\ temporary # NoFile
  /\ stored' = temporary
  /\ temporary' = NoFile
  /\ saved' = saved + 1
  /\ UNCHANGED <<hasStore, commits, stateError, stateFlush, excused>>

(* Either fails.  The chain keeps the error and goes on.                   *)
SetFails ==
  /\ SetsMayFail
  /\ saved < Len(commits)
  /\ temporary' = NoFile
  /\ saved' = saved + 1
  /\ stateError' = TRUE
  /\ UNCHANGED <<hasStore, commits, stored, stateFlush, excused>>

FlushStateCalled(f) ==
  /\ hasStore
  /\ stateFlush[f].stage = "idle"
  /\ stateFlush' = [stateFlush EXCEPT ![f] = [stage |-> "chain", upto |-> Len(commits)]]
  /\ UNCHANGED <<hasStore, commits, saved, temporary, stored, stateError, excused>>

(* Mutant: flushState does not wait for the chain.                         *)
FlushStateEarly(f) ==
  /\ stateFlush[f].stage = "chain"
  /\ stateFlush' = [stateFlush EXCEPT ![f].stage = IF stateError THEN "rejected" ELSE "resolved"]
  /\ stateError' = FALSE
  /\ excused' = IF stateError THEN saved ELSE excused
  /\ UNCHANGED <<hasStore, commits, saved, temporary, stored>>

(* flushState throws the error that the chain kept, once.                  *)
FlushStateEnds(f) ==
  /\ stateFlush[f].stage = "chain"
  /\ stateFlush[f].upto <= saved
  /\ stateFlush' = [stateFlush EXCEPT ![f].stage = IF stateError THEN "rejected" ELSE "resolved"]
  /\ stateError' = FALSE
  /\ excused' = IF stateError THEN saved ELSE excused
  /\ UNCHANGED <<hasStore, commits, saved, temporary, stored>>

CommitsInit ==
  /\ hasStore \in BOOLEAN
  /\ commits = << >>
  /\ saved = 0
  /\ temporary = NoFile
  /\ stored = NoFile
  /\ stateError = FALSE
  /\ stateFlush = [f \in StateFlushes |-> [stage |-> "idle", upto |-> 0]]
  /\ excused = 0

CommitsStep ==
  \/ SetWrites
  \/ SetRenames
  \/ SetFails
  \/ \E f \in StateFlushes : FlushStateCalled(f) \/ FlushStateEnds(f)

(* Every write and rename settles, and every promise that has settled runs *)
(* what waits for it.                                                      *)
CommitsFairness ==
  /\ WF_commitVars(SetWrites \/ SetFails)
  /\ WF_commitVars(SetRenames \/ SetFails)
  /\ \A f \in StateFlushes : WF_commitVars(FlushStateEnds(f))
=============================================================================
