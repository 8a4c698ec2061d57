CONSTANTS
  Appenders = {a1, a2}
  Readers = {q1}
  Clients = {c1}
  RingCap = 2
  SubCap = 2
  MaxRecords = 4
  Fixes = {f1, f2}
  StateCap = 1
  OutCap = 1
  TailCap = 2
  MaxStates = 1
  MaxLines = 3
  PRs = {p1, p2}
  NoRow = NoRow
  Slots = 1
  MaxPages = 2
SPECIFICATION AllSpec
SYMMETRY Symmetric
INVARIANTS
  TypesOK
  AllIsFresh
  SentOnce
  NothingUnseen
  QueueIsHonest
PROPERTIES
  EndedStays
