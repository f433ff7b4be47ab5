\* Two owners, every operation on workspaces and apps but rotations, two
\* requests.
CONSTANTS
  u1 = u1
  u2 = u2
  t1 = t1
  t2 = t2
  Users = {u1, u2}
  WorkspaceIds = {w1}
  AppIds = {a1}
  TokenIds = {t1, t2}
  Secrets = {s1}
  Names = {n1}
  Details = {d1}
  Requests = {r1, r2}
  FirstToken <- TwoUsers
  Offered <- RowOps
  TossIds = {m1}
  MaxApps = 2
  None = None
SPECIFICATION Spec
SYMMETRY Symmetry
INVARIANTS NoOrphan DeletedStaysGone
PROPERTIES OnlyOwnersWrite RegistryKept
