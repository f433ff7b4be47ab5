\* Two requests at once on two processes that may restart, and a password set
\* under them.  A second has two instants, a session lives for two.
CONSTANTS
  c1 = c1
  c2 = c2
  i1 = i1
  i2 = i2
  p1 = p1
  p2 = p2
  Processes = {p1, p2}
  Browsers = {b1}
  Users = {u1}
  Passwords = {dummy, secret}
  Dummy = dummy
  Ids = {i1, i2}
  Calls = {c1, c2}
  ServedBy <- OneEach
  Setters = {s1}
  Ttl = 2
  Second = 2
  LastInstant = 2
  Unset = Unset
  None = None
SPECIFICATION Spec
INVARIANTS TypeOK SessionProven HeldSessionWorks LoggedOutStaysOut
SYMMETRY Interchangeable
