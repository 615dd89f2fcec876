CONSTANTS
  Letters = {"a"}
  MaxLine = 1
  MaxHistory = 2
  PageLengths = {0, 1, 2}
  MaxOutput = 2
  MaxDepth = 4
  Width = 3
SPECIFICATION Spec
CHECK_DEADLOCK FALSE
INVARIANTS
  TypeOK
  PageFits
  HistoryReachable
  StackShape
