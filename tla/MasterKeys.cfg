\* A server on key files and an offline CLI while an operator rotates keys.
CONSTANTS
  f1 = f1
  x1 = x1
  k1 = k1
  c1 = c1
  c2 = c2
  Instances = {f1, x1}
  Kind <- FilesAndCli
  Apps = {a1}
  Versions = {1, 2}
  Bytes = {k1, k2}
  FirstKey = 1
  FirstBytes = k1
  Calls = {c1, c2}
  Purposes <- AnyAndOpen
  Ttl = 1
  LastInstant = 1
  None = None
SPECIFICATION Spec
INVARIANTS TypeOK RemovedKeyDies NoAppStranded
