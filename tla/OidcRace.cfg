\* Token requests racing revocations: two requests, one app, one process.
CONSTANTS
  a1 = a1
  a2 = a2
  u1 = u1
  u2 = u2
  Apps = {a1}
  Users = {u1}
  Credentials = {c1}
  Versions = {1}
  Grants = {g1, g2}
  Codes <- OneCode
  Instances = {i1}
  Requests = {r1, r2}
  Asked = {"code", "refresh", "revoke"}
  Disturbances = {}
  Junk = Junk
  None = None
SPECIFICATION Spec
SYMMETRY Symmetry
INVARIANTS
  
  DeadSessionNotServed
