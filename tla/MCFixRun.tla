------------------------------ MODULE MCFixRun ------------------------------
EXTENDS FixRun, TLC

Setting(maxFixes, worktree, pr, plan, reverify, cheapest) ==
  [maxFixes |-> maxFixes, worktree |-> worktree, pr |-> pr, plan |-> plan,
   reverify |-> reverify, cheapest |-> cheapest]

\* One slot and two, the clone shared and worktrees, each with direct pushes and a
\* gate looked at again, and with pull requests, where validate allows no second look
MCConfigs == {Setting(1, FALSE, TRUE, FALSE, FALSE, FALSE),
              Setting(2, FALSE, FALSE, FALSE, TRUE, TRUE),
              Setting(2, TRUE, FALSE, FALSE, TRUE, TRUE),
              Setting(2, TRUE, TRUE, TRUE, FALSE, FALSE)}

Symmetric == Permutations(Fixes) \cup Permutations(Repos)
=============================================================================
