CONSTANTS
  s1 = s1
  s2 = s2
  s3 = s3
  Here <- MCHere
  Sessions <- MCSessions
  NoSession = NoSession
  MaxErrors = 2
  MaxActs = 4
  MaxFaults = 2
SPECIFICATION FairClientSpec
CHECK_DEADLOCK FALSE
PROPERTIES
  KnowledgeForward
  Settles
