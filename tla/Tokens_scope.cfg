CONSTANTS
  Git = {g1}
  Api = {a1, a2}
  Life = 5
  Margin = 2
  Early = 1
  Assumed = 4
  MaxTicks = 7
  Configured <- MCConfigured
  NoToken = NoToken
SPECIFICATION TokensSpec
INVARIANT ScopeSuffices
