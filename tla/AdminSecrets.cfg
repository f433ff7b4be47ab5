\* Rotations of one app that overlap, follow each other and are cut short, under
\* API tokens that come and go.
CONSTANTS
  u1 = u1
  u2 = u2
  t1 = t1
  t2 = t2
  Users = {u1}
  WorkspaceIds = {w1}
  AppIds = {a1}
  TokenIds = {t1, t2}
  Secrets = {s1, s2, s3}
  Names = {n1}
  Details = {d1}
  Requests = {r1, r2}
  FirstToken <- OneUser
  Offered <- SecretOps
  TossIds = {m1}
  MaxApps = 2
  None = None
SPECIFICATION Spec
SYMMETRY Symmetry
INVARIANTS DeletedTokenRefused TypeOK SettledSecretWorks ConfirmedIsAudited
PROPERTY RegistryKept
