CONSTANTS
  Milli = 2
  Second = 2
  Hosts = {0, 1}
  Keys = {"ball", "log"}
  SharedKeys = {"ball"}
  Period <- EveryBatch
  Phase <- NoPhase
  BatchMod = 1
  CommDelay = 1
  Skew <- Skewed
  Ordered = FALSE
  MaxTransit = 0
  Senders = {0, 1}
  Restarting = {}
  CommLives = {1}
  Writers = 2
  MaxPuts <- BothPut
  MaxInbox = 1
  MaxTime = 0
CHECK_DEADLOCK FALSE
SPECIFICATION Spec
INVARIANT CommPutSparesSelf
