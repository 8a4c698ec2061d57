CONSTANTS
  f1 = f1
  f2 = f2
  f3 = f3
  svc = svc
  svc1 = svc1
  Fixes = {f1, f2, f3}
  Repos = {svc, svc1}
  Slug <- MCSlug
  RepoOf <- MCRepoOf
  SourceOf <- MCSourceOf
  Retain = 2
  PruneEvery = 1
  Limit = 1
  MaxSuffix = 1
  MaxAttempts = 2
  MaxTime = 2
  NoFix = NoFix
  t1 = t1
  t2 = t2
  b1 = b1
  Tabs = {t1, t2}
  Browsers = {b1}
  Owner <- MCOwner
  SessionTTL = 1
  FlowTTL = 1
  MaxKid = 2
  MaxMinutes = 3
  None = None
SYMMETRY Symmetry
SPECIFICATION AllSpec
INVARIANTS
  TypesOK
  RecordsServe
  OnlyGranted
CONSTRAINT Small
PROPERTIES
  FetchesApart
CHECK_DEADLOCK FALSE
