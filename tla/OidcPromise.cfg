\* Two requests at once while raw tokens are switched, the app is deleted and
\* the process restarts: has every answer an instant that justifies it?
CONSTANTS
  a1 = a1
  a2 = a2
  u1 = u1
  u2 = u2
  Apps = {a1}
  Users = {u1}
  Credentials = {c1}
  Versions = {1}
  Grants = {g1}
  Codes <- OneCode
  Instances = {i1}
  Requests = {r1, r2}
  Asked = {"code", "raw", "revoke"}
  Disturbances = {"raw", "delete", "restart", "expire"}
  Junk = Junk
  None = None
SPECIFICATION Spec
SYMMETRY Symmetry
INVARIANTS TypeOK 
 
