CONSTANTS
  N = 3
  Me = 1
  MaxRemoveTicks = 2
  CounterMod = 1
  TTUP = 12
  CommDelay = 1
  MinUpdateDelay = 1
  Options <- Synced
  BatchOutcomes = {"ok", "failed"}
  StoreOutcomes = {"ok", "failed"}
  Counters = {0}
  Visions <- OneVision
  SendToReceive <- OneArrival
  MaxInterrupts = 0
  MaxTimer = 0
SPECIFICATION Spec
INVARIANTS TypeOK Slots GraceIsWhole
PROPERTY ImplementsMembership
