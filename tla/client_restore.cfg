CONSTANTS
  s1 = s1
  s2 = s2
  s3 = s3
  Here <- MCHere
  Sessions <- MCSessions
  NoSession = NoSession
  MaxErrors = 2
  MaxActs = 3
  MaxFaults = 0
SPECIFICATION ClientSpec
CHECK_DEADLOCK FALSE
PROPERTIES
  RunningLabFound
