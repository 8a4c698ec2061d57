CONSTANTS
  up = up
  a = a
  b = b
  Repos = {up, a, b}
  Deps <- MCDeps
  Gates <- MCGates
  Trip = 3
  FlapMax = 1
  PatientZero = TRUE
  Pins = {a}
  MaxActions <- MCMaxActions
  Workers = {w1, w2}
  RepoNames <- MCRepoNames
  Providers <- MCProviders
  Weight <- MCWeight
  Signals <- MCSignals
  Fallback = "claude"
  PageSize = 2
  MaxRecords = 3
  Nothing = Nothing
SYMMETRY Symmetry
SPECIFICATION AllSpec
INVARIANTS
  TypesOK
  TroubleIsBounded
  ViewsAgree
PROPERTIES
  BreachesHold
CHECK_DEADLOCK FALSE
