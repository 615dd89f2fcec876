CONSTANTS
  Letters = {"a"}
  MaxLine = 2
  MaxHistory = 2
  PageLengths = {0, 2}
  MaxOutput = 1
  MaxDepth = 3
  Width = 4
SPECIFICATION Spec
CHECK_DEADLOCK FALSE
CONSTRAINT
  ShortLines
INVARIANTS
  ScreensAgree
  PageFits
