\* The documented rotation by hand: a new key file, and the rows migrated.
CONSTANTS
  f1 = f1
  x1 = x1
  k1 = k1
  c1 = c1
  c2 = c2
  Instances = {f1}
  Kind <- OneFile
  Apps = {a1}
  Versions = {1, 2}
  Bytes = {k1, k2}
  FirstKey = 1
  FirstBytes = k1
  Calls = {c1}
  Purposes <- AnyOne
  Ttl = 1
  LastInstant = 0
  None = None
SPECIFICATION Spec
INVARIANT MigratedAppConnects
