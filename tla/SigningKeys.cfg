\* Two processes restarted one by one, two slots, three PEMs of which one cannot
\* be read.  Time for both slots to change hands.
CONSTANTS
  p1 = p1
  p2 = p2
  Processes = {p1, p2}
  Consumers = {c1}
  Users = {u1}
  Kids = {k1, k2}
  Pems = {x1, x2, bad}
  Unreadable = {bad}
  FirstKid = k1
  FirstPem = x1
  Ttl = 2
  MaxAge = 2
  PublishWait = 2
  RetireWait = 2
  LastInstant = 7
  None = None
SPECIFICATION Spec
INVARIANTS TypeOK IdTokensVerify DroppedKeyDies
SYMMETRY Interchangeable
