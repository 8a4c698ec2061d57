SPECIFICATION LiveSpec
CONSTANTS
  r1 = r1
  r2 = r2
  ci = ci
  dev = dev
  Repos = {r1, r2}
  Sources = {ci, dev}
  SignalsCap = 2
  WorkerCap = 2
  MaxSignals = 4
  CI = ci
  NoSignal = NoSignal
INVARIANTS
  TypeOK
  SendNeverBlocks
PROPERTIES
  HandledInOrder
  ImplementsLatestWins
  NobodyWaits
CHECK_DEADLOCK FALSE
