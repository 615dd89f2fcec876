CONSTANTS
  u1 = u1
  u2 = u2
  s1 = s1
  s2 = s2
  s3 = s3
  c1 = c1
  c2 = c2
  NoSession = NoSession
  Users <- MCUsers
  Sessions <- MCSessions
  Owner <- MCOwner
  Conns = {}
  Workers = {w1}
  MaxGeneration = 2
  DbMayFail = TRUE
SPECIFICATION Spec
SYMMETRY MCSymmetry
INVARIANTS
  OneLabPerAccount
  NoLeakedRuntime
PROPERTIES
  GradeMatchesGeneration
  LifecycleSpec
