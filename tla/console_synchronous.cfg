CONSTANTS
  r1 = r1
  r2 = r2
  Nodes <- MCNodes
  Gated <- MCGated
  Synchronous <- MCSynchronous
  VtyLines = {0, 1}
  QueueLimit = 2
  MaxDepth = 3
  MaxReplaced = 3
SPECIFICATION Spec
INVARIANTS
  LogsShown
