CONSTANTS
  AgentNames = {"robot"}
  ItemNames = {"ball", "BALL"}
  SchemaNames = {"Player", "Base"}
  Rank <- Order
  OldUserFiles <- OldUsers
  OldXmlFiles <- OldXmls
  MaxItems = 2
  MaxAssignments = 2
  Strings <- Text
  Upper <- Uppercase
  Lower <- Lowercase
  Numbers <- Digits
  Atoi <- Integer
  Values = {"0", "1", "2", "x", "on", "FALSE", "POSE"}
  MaxEdits = 1
CHECK_DEADLOCK FALSE
SPECIFICATION Spec
INVARIANT PromptsOnlyOnConflict
