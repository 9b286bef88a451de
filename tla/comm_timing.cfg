CONSTANTS
  N = 3
  Me = 2
  MaxRemoveTicks = 1
  CounterMod = 1
  TTUP = 12
  CommDelay = 1
  MinUpdateDelay = 1
  Options <- Synced
  BatchOutcomes = {"ok"}
  StoreOutcomes = {"ok"}
  Counters = {0}
  Visions <- OneVision
  SendToReceive <- Arrivals
  MaxInterrupts = 0
  MaxTimer = 1
SPECIFICATION Spec
INVARIANTS TimerArmed DelayBelowPeriod 
