CONSTANTS
  r1 = r1
  r2 = r2
  Nodes <- MCNodes
  Gated <- MCGated
  Synchronous = {}
  VtyLines = {0, 1}
  QueueLimit = 2
  MaxDepth = 3
  MaxReplaced = 3
  c1 = c1
  c2 = c2
  Conns <- MCConns
  MaxChunks = 3
SPECIFICATION MCSpec
INVARIANTS
  SessionsCurrent
  VtyLinesExclusive
  NothingLost
PROPERTIES
  ChunksArrive
