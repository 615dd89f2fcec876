SPECIFICATION MCSpec
CONSTANTS
  e1 = e1
  p1 = p1
  Emails = {e1, e2}
  Passwords = {p1, p2}
  Weak = {}
  Browsers = {b1, b2}
  Threads = {t1, t2}
  LoginLimit = 1
  IpLimit = 2
  SignupLimit = 2
  ChangeLimit = 1
  Window = 1
  Life = 1
  Ip = ip
  MaxTime = 1
  MaxRequests = 3
SYMMETRY MCSymmetry
CHECK_DEADLOCK FALSE
INVARIANTS LimitKept
