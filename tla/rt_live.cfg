CONSTANTS
  Milli = 2
  Second = 2
  Hosts = {0, 1}
  Keys = {"ball", "goal", "pose"}
  SharedKeys = {"ball", "goal", "pose"}
  Period <- TwoThree
  Phase <- LatePose
  BatchMod = 5
  CommDelay = 1
  Skew <- Skewed
  Ordered = TRUE
  MaxTransit = 0
  Senders = {0}
  Restarting = {0}
  CommLives = {}
  Writers = 1
  MaxPuts <- TwoPuts
  MaxInbox = 2
  MaxTime = 0
CHECK_DEADLOCK FALSE
SPECIFICATION FairSpec
INVARIANTS NoKeyStarves CopyIsCut
PROPERTIES NeverBack Converges
