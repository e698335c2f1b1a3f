-------------------------------- MODULE Guard --------------------------------
(***************************************************************************)
(* The SDK's two ways to evaluate an intent and commit its result:         *)
(* createGuard (packages/sdk/src/guard.ts) and OxDeAIClient.               *)
(* evaluateAndCommit (packages/sdk/src/client.ts), over one engine, one    *)
(* state adapter and one audit adapter.  Each guard and each client has a  *)
(* cursor of its own into the engine's audit log.                          *)
(*                                                                         *)
(* Both are async functions: a call runs from one await to the next and    *)
(* other calls run in between.  Each action below is one such stretch,     *)
(* named for the promise it waited for.  A file adapter settles its        *)
(* promises in any order; an in-memory adapter settles them at once, which *)
(* is one of those orders.                                                 *)
(***************************************************************************)
EXTENDS PolicyPipeline, SequencesExt

CONSTANTS
  Calls,         (* the calls the program ever makes                       *)
  Clients,       (* those that are calls of evaluateAndCommit              *)
  ObjectOf,      (* the guard, or the client, that each call is made of    *)
  InitialState,  (* what the state adapter holds at first                  *)
  IntentTypes,   (* which types of intent are submitted                    *)
  Timestamps,    (* the timestamps of the intents                          *)
  MaxInFlight,   (* how many calls the program lets run at a time          *)
  Faults,        (* what may fail                                          *)
  MaxCrashes,    (* bound: crashes of the process                          *)
  None           (* nothing is kept for a call                             *)

ASSUME GuardAssumption ==
  /\ Clients \subseteq Calls
  /\ DOMAIN ObjectOf = Calls
  /\ \A c \in Clients, d \in Calls \ Clients : ObjectOf[c] # ObjectOf[d]
  /\ InitialState \in State
  /\ Timestamps \subseteq Nat
  /\ MaxInFlight \in Nat
  /\ Faults \subseteq {"load", "append", "execute", "save", "crash"}
  /\ MaxCrashes \in Nat

VARIABLES
  store,    (* the state of the state adapter                              *)
  trail,    (* the events of the audit adapter                             *)
  log,      (* engine.audit: the events since the process started          *)
  cursor,   (* auditCursor, of each guard and each client                  *)
  pc,       (* where each call is                                          *)
  intent,   (* the intent of each call                                     *)
  held,     (* the state a call loaded, then its nextState                 *)
  batch,    (* the events a call has to append                             *)
  allowed,  (* the calls the engine allowed                                *)
  crashes,  (* how often the process crashed                               *)
  effects,  (* history: the calls whose callback took effect               *)
  by        (* history: which guard or client appended each event          *)

locals == <<pc, intent, held, batch, allowed>>
vars == <<store, trail, log, cursor, locals, crashes, effects, by>>

Objects == {ObjectOf[c] : c \in Calls}

Ended == {"denied", "done", "failed"}
InFlight == {c \in Calls : pc[c] \notin Ended \cup {"idle"}}

Intents ==
  { i \in ExecuteIntents(Timestamps) \cup ReleaseIntents(Timestamps, store) :
      i.type \in IntentTypes }

-----------------------------------------------------------------------------
(* Mutants: the events are taken from the start of the log every time; the *)
(* slice starts one event too late.                                        *)
CollectAllEvents(all, from) == all

CollectNewEventsLate(all, from) == SubSeq(all, from + 2, Len(all))

(* collectNewEvents: what the log holds behind a cursor.                   *)
CollectNewEvents(all, from) == SubSeq(all, from + 1, Len(all))

(* One audit event, with its place in the chain of its process.            *)
Event(c, type, position) ==
  [call |-> c, type |-> type, run |-> crashes, position |-> position]

(* A call ends at stage s and drops what it held.                          *)
EndAt(c, s) ==
  /\ pc' = [pc EXCEPT ![c] = s]
  /\ held' = [held EXCEPT ![c] = None]
  /\ batch' = [batch EXCEPT ![c] = << >>]
  /\ UNCHANGED <<intent, allowed>>

Load(c) ==
  /\ pc[c] = "idle"
  /\ Cardinality(InFlight) < MaxInFlight
  /\ \E i \in Intents : intent' = [intent EXCEPT ![c] = i]
  /\ held' = [held EXCEPT ![c] = store]
  /\ pc' = [pc EXCEPT ![c] = "loaded"]
  /\ UNCHANGED <<store, trail, log, cursor, batch, allowed, crashes, effects, by>>

(* The evaluation, the collection of new events and the move of the cursor *)
(* are one synchronous stretch.  New are the events that this guard or this *)
(* client has not collected, those of another's calls included.            *)
Evaluate(c) ==
  LET out == Evaluation(intent[c], held[c], "fail-fast")
      new == [k \in DOMAIN out.events |-> Event(c, out.events[k], Len(log) + k)]
  IN  /\ pc[c] = "loaded"
      /\ log' = log \o new
      /\ batch' = [batch EXCEPT ![c] = CollectNewEvents(log', cursor[ObjectOf[c]])]
      /\ cursor' = [cursor EXCEPT ![ObjectOf[c]] = Len(log')]
      /\ held' = [held EXCEPT ![c] = out.next]
      /\ allowed' = IF out.decision = "ALLOW" THEN allowed \cup {c} ELSE allowed
      /\ pc' = [pc EXCEPT ![c] = "appending"]
      /\ UNCHANGED <<store, trail, intent, crashes, effects, by>>

(* The adapters and the callback, which is not the SDK's code, take effect *)
(* at some time before their promises settle.                              *)

AppendLands(c) ==
  /\ pc[c] = "appending"
  /\ trail' = trail \o batch[c]
  /\ by' = by \o [k \in DOMAIN batch[c] |-> ObjectOf[c]]
  /\ batch' = [batch EXCEPT ![c] = << >>]
  /\ pc' = [pc EXCEPT ![c] = "appended"]
  /\ UNCHANGED <<store, log, cursor, intent, held, allowed, crashes, effects>>

ExecuteLands(c) ==
  /\ pc[c] = "executing"
  /\ effects' = effects \cup {c}
  /\ pc' = [pc EXCEPT ![c] = "executed"]
  /\ UNCHANGED <<store, trail, log, cursor, intent, held, batch, allowed, crashes, by>>

(* Mutant: a save merges the authorizations instead of replacing the state. *)
SaveLandsMerging(c) ==
  /\ pc[c] = "saving"
  /\ store' = [held[c] EXCEPT !.active_auths =
                 [a \in Agents |-> @[a] \cup store.active_auths[a]]]
  /\ pc' = [pc EXCEPT ![c] = "saved"]
  /\ UNCHANGED <<trail, log, cursor, intent, held, batch, allowed, crashes, effects, by>>

(* stateAdapter.save replaces whatever is stored by now.                   *)
SaveLands(c) ==
  /\ pc[c] = "saving"
  /\ store' = held[c]
  /\ pc' = [pc EXCEPT ![c] = "saved"]
  /\ UNCHANGED <<trail, log, cursor, intent, held, batch, allowed, crashes, effects, by>>

(* Mutant: a denied call goes on.                                          *)
AppendSettlesAllowing(c) ==
  /\ pc[c] = "appended"
  /\ pc' = [pc EXCEPT ![c] = IF c \in Clients THEN "saving" ELSE "executing"]
  /\ UNCHANGED <<store, trail, log, cursor, intent, held, batch, allowed, crashes, effects, by>>

(* A denial ends here.  On ALLOW the guard verifies the authorization,     *)
(* which the engine has just issued for this intent, state and time and    *)
(* therefore accepts, and calls back; the client has no callback and saves. *)
AppendSettles(c) ==
  /\ pc[c] = "appended"
  /\ IF c \in allowed
     THEN /\ pc' = [pc EXCEPT ![c] = IF c \in Clients THEN "saving" ELSE "executing"]
          /\ UNCHANGED <<intent, held, batch, allowed>>
     ELSE EndAt(c, "denied")
  /\ UNCHANGED <<store, trail, log, cursor, crashes, effects, by>>

ExecuteSettles(c) ==
  /\ pc[c] = "executed"
  /\ pc' = [pc EXCEPT ![c] = "saving"]
  /\ UNCHANGED <<store, trail, log, cursor, intent, held, batch, allowed, crashes, effects, by>>

SaveSettles(c) ==
  /\ pc[c] = "saved"
  /\ EndAt(c, "done")
  /\ UNCHANGED <<store, trail, log, cursor, crashes, effects, by>>

-----------------------------------------------------------------------------
(* A promise rejects: the call throws, and nothing it has done is undone.  *)

LoadFails(c) ==
  /\ "load" \in Faults
  /\ pc[c] = "idle"
  /\ Cardinality(InFlight) < MaxInFlight
  /\ EndAt(c, "failed")
  /\ UNCHANGED <<store, trail, log, cursor, crashes, effects, by>>

(* Mutant: a rejected append does not stop the call.                       *)
FailsUnlessAppending(c) ==
  /\ pc[c] = "appending"
  /\ "append" \in Faults
  /\ c \in allowed
  /\ pc' = [pc EXCEPT ![c] = "executing"]
  /\ UNCHANGED <<store, trail, log, cursor, intent, held, batch, allowed, crashes, effects, by>>

(* The adapter or the callback fails before or after it has taken effect.  *)
Fails(c) ==
  /\ \/ "append" \in Faults /\ pc[c] \in {"appending", "appended"}
     \/ "execute" \in Faults /\ pc[c] \in {"executing", "executed"}
     \/ "save" \in Faults /\ pc[c] \in {"saving", "saved"}
  /\ EndAt(c, "failed")
  /\ UNCHANGED <<store, trail, log, cursor, crashes, effects, by>>

(* Mutant: the cursors outlive the log.                                    *)
RestartedWithCursor ==
  /\ log' = << >>
  /\ UNCHANGED cursor

(* A new engine, new guards and new clients.                               *)
Restarted ==
  /\ log' = << >>
  /\ cursor' = [o \in Objects |-> 0]

(* The process dies and is started again over the same files.              *)
Crash ==
  /\ "crash" \in Faults
  /\ crashes < MaxCrashes
  /\ crashes' = crashes + 1
  /\ Restarted
  /\ pc' = [c \in Calls |-> IF c \in InFlight THEN "failed" ELSE pc[c]]
  /\ held' = [c \in Calls |-> None]
  /\ batch' = [c \in Calls |-> << >>]
  /\ UNCHANGED <<store, trail, intent, allowed, effects, by>>

-----------------------------------------------------------------------------
Init ==
  /\ store = InitialState
  /\ trail = << >>
  /\ log = << >>
  /\ cursor = [o \in Objects |-> 0]
  /\ pc = [c \in Calls |-> "idle"]
  /\ intent = [c \in Calls |-> None]
  /\ held = [c \in Calls |-> None]
  /\ batch = [c \in Calls |-> << >>]
  /\ allowed = {}
  /\ crashes = 0
  /\ effects = {}
  /\ by = << >>

Next ==
  \/ \E c \in Calls :
       \/ Load(c) \/ LoadFails(c)
       \/ Evaluate(c)
       \/ AppendLands(c) \/ AppendSettles(c)
       \/ ExecuteLands(c) \/ ExecuteSettles(c)
       \/ SaveLands(c) \/ SaveSettles(c)
       \/ Fails(c)
  \/ Crash

Spec == Init /\ [][Next]_vars
-----------------------------------------------------------------------------
(***************************************************************************)
(* Properties                                                              *)
(***************************************************************************)

AuditEvent ==
  [ call : Calls, type : {"INTENT_RECEIVED", "DECISION", "AUTH_EMITTED"},
    run : 0 .. MaxCrashes, position : Nat \ {0} ]

(* Type invariant.                                                         *)
TypeOK ==
  /\ store \in State
  /\ {trail, log} \subseteq Seq(AuditEvent)
  /\ cursor \in [Objects -> 0 .. Len(log)]
  /\ pc \in [Calls -> Ended \cup { "idle", "loaded", "appending", "appended",
                              "executing", "executed", "saving", "saved" }]
  /\ held \in [Calls -> State \cup {None}]
  /\ batch \in [Calls -> Seq(AuditEvent)]
  /\ {allowed, effects} \subseteq SUBSET Calls
  /\ crashes \in 0 .. MaxCrashes
  /\ by \in Seq(Objects) /\ Len(by) = Len(trail)

(* No callback runs before the events of its decision are in the audit     *)
(* adapter, whatever fails and whatever runs in between (guard.ts:87).     *)
ExecutedIsAudited ==
  \A c \in effects \cup {d \in Calls : pc[d] = "executing"} :
    \A type \in {"INTENT_RECEIVED", "DECISION", "AUTH_EMITTED"} :
      \E k \in DOMAIN trail : trail[k].call = c /\ trail[k].type = type

(* No guard and no client appends an event twice (guard.ts:84-87,          *)
(* client.ts:60-63).  A guard and a client of one engine each append it.   *)
AuditedOnce ==
  \A j, k \in DOMAIN trail : trail[j] = trail[k] /\ by[j] = by[k] => j = k

(* An event of the engine's log is in the audit adapter, or on its way     *)
(* there, or of a call that threw.                                         *)
NoEventDropped ==
  \A e \in ToSet(log) :
    \/ e \in ToSet(trail)
    \/ e \in ToSet(batch[e.call])
    \/ pc[e.call] = "failed"

AmountOf(S, a) ==
  SumFunction([c \in {d \in S : intent[d].type = "EXECUTE" /\ intent[d].agent_id = a} |->
                 intent[c].request.amount])

(* The intents that authorizations were issued for.                        *)
IssuedFor(auths) == {<<auth.nonce, auth.timestamp>> : auth \in auths}

(* A lost update or a failed save loses whole calls: as long as no         *)
(* authorization is released, what the stored state has spent and holds    *)
(* belongs to one set of allowed calls, whatever calls overlap, fail or    *)
(* are cut off by a crash.  That set is within the budget and has no nonce *)
(* twice: a delivery whose callback runs again, which protocol/spec.md:168 *)
(* says should not happen, is one whose charge was lost (guard.ts:72-127). *)
StoredIsWhole ==
  (\A c \in allowed : intent[c].type = "EXECUTE") =>
    \E S \in SUBSET allowed : \A a \in Agents :
      LET mine == {c \in S : intent[c].agent_id = a}
      IN  /\ store.spent_in_period[a] = InitialState.spent_in_period[a] + AmountOf(mine, a)
          /\ store.active[a] = InitialState.active[a] + Cardinality(mine)
          /\ IssuedFor(store.active_auths[a])
               = IssuedFor(InitialState.active_auths[a])
                   \cup {<<intent[c].nonce, intent[c].timestamp>> : c \in mine}
          /\ store.spent_in_period[a] <= BudgetLimit[a]
          /\ \A c, d \in mine :
               c # d /\ intent[c].nonce = intent[d].nonce =>
                 intent[c].timestamp \notin intent[d].timestamp - ReplayWindow
                                            .. intent[d].timestamp + ReplayWindow

(* The calls whose callback took effect, and those of a client, which has  *)
(* no callback, that are saved.                                            *)
InEffect == effects \cup {c \in Clients : pc[c] \in {"saved", "done"}}

(* packages/core/README.md:145: "enforces: per-period budgets": what the   *)
(* calls have spent is within the budget.                                  *)
EffectsWithinBudget ==
  \A a \in Agents : AmountOf(InEffect, a) <= BudgetLimit[a]

(* The order of the logs: those of one process after those of an earlier   *)
(* one, and within a process by their place.                               *)
Before(e, f) == e.run < f.run \/ (e.run = f.run /\ e.position < f.position)

(* What one guard, or one client, appends is in the order of the log, and  *)
(* over a restart, if its calls do not overlap (guard.ts:84-87).           *)
AppendsInOrder ==
  \A j, k \in DOMAIN trail : j < k /\ by[j] = by[k] => Before(trail[j], trail[k])
=============================================================================
