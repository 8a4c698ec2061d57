CONSTANTS
  d1 = d1
  d2 = d2
  x = x
  y = y
  Requests = {d1, d2}
  Alerts = {x, y}
  Source = "dev-gate"
  Reasons = {"login", "app"}
  SignalsCap = 1
  MaxChecks = 1
  MaxTip = 2
SPECIFICATION Spec
PROPERTY LevelChanged
