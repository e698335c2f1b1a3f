-------------------------- MODULE MCEnginePersistence --------------------------
(* An instance of EnginePersistence for TLC.  The two chains do not meet,  *)
(* so one adapter at a time is looked at.                                  *)
EXTENDS EnginePersistence

Auditing ==
  [ sink : {"file", "memory", "host"}, hasStore : {FALSE}, maxCrashes : {0},
    flushes : {{"flush-1"}}, kinds : {{"ERROR", "OVER_LIMIT", "DENY", "ALLOW"}}, instants : {{0, 1}} ]

Contending ==
  [ sink : {"file", "host"}, hasStore : {FALSE}, maxCrashes : {0},
    flushes : {{"flush-1", "flush-2"}}, kinds : {{"DENY"}}, instants : {{0}} ]

Persisting ==
  [ sink : {"none"}, hasStore : {TRUE}, maxCrashes : {1},
    flushes : {{}}, kinds : {{"INVALID", "OVER_LIMIT", "DENY"}}, instants : {{0}} ]

AllHosts == Auditing \cup Contending \cup Persisting
==============================================================================
