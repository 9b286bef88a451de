CONSTANTS
  N = 2
  Me = 0
  MaxRemoveTicks = 2
  CounterMod = 2
  TTUP = 12
  CommDelay = 1
  MinUpdateDelay = 1
  Options <- AllOptions
  BatchOutcomes = {"ok", "failed"}
  StoreOutcomes = {"ok", "failed"}
  Counters = {0, 1}
  Visions <- OneVision
  SendToReceive <- OneArrival
  MaxInterrupts = 3
  MaxTimer = 0
SPECIFICATION FairSpec
INVARIANT ShippedAlone
PROPERTIES ShutdownCompletes CrashDetected
