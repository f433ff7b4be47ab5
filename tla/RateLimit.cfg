\* One process, two addresses and two apps: four windows of three ticks, a sweep
\* on every second call.
CONSTANTS
  Ips = {p1, p2}
  AppIds = {a1, a2}
  Instances = {i1}
  IpLimit = 2
  AppLimit = 3
  Width = 3
  SweepEvery = 2
  LastWindow = 3
  None = None
SPECIFICATION Spec
SYMMETRY Symmetry
INVARIANTS TypeOK  QuietKeyIsHeard
PROPERTY LawKept
