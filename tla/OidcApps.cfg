\* Two apps with a user each, clients of one presenting tokens of the other, while
\* rows change, versions move and the process restarts.
CONSTANTS
  a1 = a1
  a2 = a2
  u1 = u1
  u2 = u2
  Apps = {a1, a2}
  Users = {u1, u2}
  Credentials = {c1}
  Versions = {1, 2}
  Grants = {g1, g2}
  Codes <- TwoApps
  Instances = {i1}
  Requests = {r1}
  Asked = {"code", "refresh", "userinfo"}
  Disturbances = {"delete", "accepts", "migrate", "restart"}
  Junk = Junk
  None = None
SPECIFICATION Spec
SYMMETRY Symmetry
INVARIANTS SealedAsGranted IssuedIsAudited
