CONSTANTS
  Files <- ShortFiles
  Names = {"A", "B"}
  TTUP_US_DEFAULT = 20000
CHECK_DEADLOCK FALSE
SPECIFICATION FairSpec
INVARIANTS TypeOK  RunsWhereAsked
PROPERTY InterruptEnds
