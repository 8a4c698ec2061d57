CONSTANTS
  i1 = i1
  i2 = i2
  i3 = i3
  NoId = NoId
  Deliveries = {i1, i2, i3, NoId}
  Payload <- MCPayload
  Branch <- MCBranch
  Secret = "ours"
  RequireSecret = TRUE
  CIWorkflows = {"ci"}
  Handlers = {h1, h2}
  QueueCap = 1
  DedupeMax = 2
  TTL = 2
  Rate = 1
  Burst = 2
  LastMoment = 3
  MaxStarts = 1
  Workflows = {test}
  MaxCommits = 3
  MaxAttempts = 4
  MaxTime = 2
  Window = 1
  RerunCI = TRUE
  PRMode = FALSE
  Worktree = TRUE
  TipUnreadable = TRUE
  Manual = Manual
  NoSignal = NoSignal
  RunsOfPush = {w1, w2}
  RunTimeout = 4
  NoRunAfter = 2
  Interval = 1
  Attempts = 3
  Conclusions = {"success", "neutral", "failure", "cancelled"}
  NoVerdict = NoVerdict
  Git = {g1}
  Api = {a1, a2}
  Life = 5
  Margin = 2
  Early = 1
  Assumed = 4
  MaxTicks = 7
  Configured <- MCConfigured
  NoToken = NoToken
SPECIFICATION AllSpec
SYMMETRY Symmetric
CONSTRAINT Small
INVARIANTS
  TypesOK
  TakenIsSent
  VerdictIsItsOwn
PROPERTIES
  SelfCausedNotFixed
  TakenOnce
  ClaimIsExact
  TokensServe
