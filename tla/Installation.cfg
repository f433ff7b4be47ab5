\* Two runs of bootstrap over two directories, databases and emails, under every
\* environment close to one that works.
CONSTANTS
  d1 = d1
  d2 = d2
  b1 = b1
  b2 = b2
  r1 = r1
  r2 = r2
  m1 = m1
  m2 = m2
  Dirs = {d1, d2}
  Dbs = {b1, b2}
  DefaultDb = b2
  Runs = {r1, r2}
  Emails = {m1, m2}
  Commands <- Attempts
  Envs <- NearBases
  None = None
SPECIFICATION Spec
INVARIANTS TypeOK OneFounder  AppKeepsKey GreenStarts
SYMMETRY Interchangeable
