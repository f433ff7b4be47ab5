\* Two requests, keys coming and going, no fairness for clients or operators.
CONSTANTS
  a1 = a1
  a2 = a2
  u1 = u1
  u2 = u2
  Apps = {a1}
  Users = {u1}
  Credentials = {c1}
  Versions = {1}
  Grants = {g1}
  Codes <- OneCode
  Instances = {i1}
  Requests = {r1, r2}
  Asked = {"code", "userinfo", "revoke"}
  Disturbances = {"keys"}
  Junk = Junk
  None = None
SPECIFICATION FairSpec
PROPERTY EveryRequestEnds
