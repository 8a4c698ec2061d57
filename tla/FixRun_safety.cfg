SPECIFICATION Spec
CONSTANTS
  NoProvider = NoProvider
  Fixes = {f1, f2}
  Repos = {r1, r2}
  Providers = {claude, codex}
  Default = claude
  Wanted = {codex}
  Attempts = 2
  Configs <- MCConfigs
SYMMETRY Symmetric
INVARIANTS
  TypeOK
  HeldWhileWorking
  OutcomeIsTrue
