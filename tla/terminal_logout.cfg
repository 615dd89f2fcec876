CONSTANTS
  Letters = {"a"}
  MaxLine = 1
  MaxHistory = 1
  PageLengths = {0, 1}
  MaxOutput = 1
  MaxDepth = 3
  Width = 3
SPECIFICATION Spec
CHECK_DEADLOCK FALSE
PROPERTIES
  ConfigExitsLogged
