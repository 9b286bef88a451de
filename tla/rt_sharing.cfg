CONSTANTS
  Milli = 2
  Second = 2
  Hosts = {0, 1}
  Keys = {"ball", "log"}
  SharedKeys = {"ball"}
  Period <- EveryBatch
  Phase <- NoPhase
  BatchMod = 1
  CommDelay = 1
  Skew <- Skewed
  Ordered = FALSE
  MaxTransit = 1
  Senders = {0, 1}
  Restarting = {0, 1}
  CommLives = {1}
  Writers = 1
  MaxPuts <- OneEach
  MaxInbox = 1
  MaxTime = 3
CHECK_DEADLOCK FALSE
SPECIFICATION Spec
INVARIANTS TypeOK LocalStaysLocal OnlyOwnData AgesAccurate
