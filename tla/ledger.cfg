SPECIFICATION FairSpec
CONSTANTS
  Absent = Absent
  NoFile = NoFile
  Flushes = {"flush-1", "flush-2"}
  StateFlushes = {"flush-1", "flush-2"}
  MaxFaults = 1
  SetsMayFail = TRUE
  CheckpointEvery = 2
  PolicyId = "policy"
  Hosts <- AllHosts
  MaxEvaluations = 2
INVARIANTS SinkKeepsOrder HeadCommitsToHistory FlushIsHonest PromisedStateIsStored VerifiersAgree
PROPERTIES StoredNeverGoesBack SinkCatchesUp EveryFlushSettles
CHECK_DEADLOCK FALSE
