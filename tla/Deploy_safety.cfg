CONSTANTS
  d1 = d1
  d2 = d2
  app = app
  Requests = {d1, d2}
  Alerts = {app}
  Source = "dev-gate"
  Reasons = {"login", "app"}
  SignalsCap = 1
  MaxChecks = 1
  MaxTip = 2
  MaxCommits = 5
  Carry = TRUE
  Unpinned = TRUE
  Hotfixes = TRUE
SYMMETRY Symmetry
SPECIFICATION AllSpec
CONSTRAINT Small
INVARIANTS
  TypesOK
  SignalsAreEarned
  SlotsHeld
  ReleasesWhole
PROPERTIES
  SpeaksOnEdges
  ProdMovesRightly
