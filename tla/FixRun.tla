------------------------------- MODULE FixRun -------------------------------
(***************************************************************************)
(* Dispatcher.Fix: the two levels of Fix slots, the repo's clone or a      *)
(* worktree of the run's own, the agent's attempts with fail-over between  *)
(* providers, the daemon's push, the gate's second look, and what is left  *)
(* behind.  Fixes run concurrently, those of one repo included             *)
(* (TestWorktreeFixesForOneRepoRunConcurrently); what they share is the    *)
(* slots, the providers marked down, and the repo's worktrees.             *)
(* The signals are of source ci or dev-gate: for another there is no gate  *)
(* to look at again and Reverify says yes.                                 *)
(* What git, GitHub, the agent and the gate answer is any answer they can  *)
(* give; once FixBudget is used up they only answer with errors.           *)
(***************************************************************************)
EXTENDS Naturals, FiniteSets

CONSTANTS
  Fixes,     \* calls of Dispatcher.Fix
  Repos,
  Providers, \* Dispatcher.Providers
  Default,   \* Dispatcher.DefaultProvider
  Wanted,    \* the providers an operator asks for
  NoProvider,
  Attempts,  \* Dispatcher.FixAttempts
  Configs    \* the settings considered

ASSUME FixRunAssumption ==
  /\ IsFiniteSet(Fixes) /\ IsFiniteSet(Providers)
  /\ Wanted \subseteq Providers \cup {Default}
  /\ NoProvider \notin Providers \cup {Default}
  /\ Attempts \in Nat \ {0}
  /\ Configs \subseteq [maxFixes : Nat \ {0}, worktree : BOOLEAN, pr : BOOLEAN,
                        plan : BOOLEAN, reverify : BOOLEAN, cheapest : BOOLEAN]

VARIABLES
  config,    \* the daemon's settings; maxFixes is the capacity of fixSem
  repo,      \* repo[f]: the repo of f's signal
  pinned,    \* pinned[f]: the provider an operator asks for, or NoProvider
  slots,     \* fixSem: the Fixes in it
  repoSlot,  \* fixRepoSem[r]: the Fixes in it
  down,      \* Dispatcher.down: providers marked in the last providerDownFor
  pc,        \* pc[f]: where f is
  provider,  \* provider[f]: the provider of its next agent run
  attempt,   \* attempt[f]: number of the attempt
  delivered, \* delivered[f]: has it put code on the branch?
  failed,    \* failed[f]: has it an error?
  tree,      \* tree[f]: its worktree
  recording, \* recording[f]: status in its session
  row,       \* row[f]: its row in the live view
  verdict,   \* verdict[f]: what the agent said of itself; gave_up is needs_human too,
             \* and unknown that its output has no verdict
  pushes,    \* history: pushes[f]: did a push of f reach its target branch?
  work,      \* work[f]: what the agent has committed and what became of it
  moved,     \* worktrees whose origin/<target> is no longer what they began at
  asked,     \* history: Fixes that have asked GitHub for a PR
  gate,      \* history: gate[f]: the gate on what f has pushed last
  expired    \* Fixes whose FixBudget is used up: their context is over

settings == <<config, repo, pinned, expired>>
sems == <<slots, repoSlot>>
outcome == <<attempt, delivered, failed>>
left == <<tree, recording>>
past == <<pushes, work, moved, asked, gate>>
vars == <<settings, sems, down, pc, provider, outcome, left, row, verdict, past>>

Waiting == {"repo", "slot"}
InClone == {"clone", "begin", "tree", "plan", "agent", "push", "verdict", "verify",
            "pr", "record", "release", "free"}
WithTree == {"plan", "agent", "push", "verdict", "verify", "pr", "record", "release"}

TypeOK ==
  /\ config \in Configs
  /\ repo \in [Fixes -> Repos]
  /\ pinned \in [Fixes -> Wanted \cup {NoProvider}]
  /\ slots \subseteq Fixes /\ Cardinality(slots) <= config.maxFixes
  /\ repoSlot \in [Repos -> SUBSET Fixes]
  /\ down \subseteq Providers \cup {Default}
  /\ pc \in [Fixes -> {"new", "done"} \cup Waiting \cup InClone]
  /\ provider \in [Fixes -> Providers \cup {Default}]
  /\ attempt \in [Fixes -> 1 .. Attempts]
  /\ delivered \in [Fixes -> BOOLEAN]
  /\ failed \in [Fixes -> BOOLEAN]
  /\ tree \in [Fixes -> {"none", "live", "kept", "gone"}]
  /\ recording \in [Fixes -> {"none", "running", "ok", "error"}]
  /\ row \in [Fixes -> {"none", "open", "ok", "error"}]
  /\ verdict \in [Fixes -> {"none", "fixed", "gave_up", "unknown"}]
  /\ pushes \in [Fixes -> BOOLEAN]
  /\ work \in [Fixes -> {"none", "unpushed", "pushed"}]
  /\ moved \subseteq Fixes /\ asked \subseteq Fixes
  /\ gate \in [Fixes -> {"unknown", "red", "green"}]
  /\ expired \subseteq Fixes

All(v) == [f \in Fixes |-> v]

Init ==
  /\ config \in Configs
  /\ repo \in [Fixes -> Repos] /\ pinned = All(NoProvider)
  /\ slots = {} /\ repoSlot = [r \in Repos |-> {}]
  /\ down = {}
  /\ pc = All("new")
  /\ provider = All(Default)
  /\ attempt = All(1) /\ delivered = All(FALSE) /\ failed = All(FALSE)
  /\ tree = All("none") /\ recording = All("none")
  /\ row = All("none")
  /\ verdict = All("none")
  /\ pushes = All(FALSE) /\ work = All("none") /\ moved = {} /\ asked = {}
  /\ gate = All("unknown")
  /\ expired = {}

Goto(f, l) == pc' = [pc EXCEPT ![f] = l]

\* An error on the way ends the Fix at l.
Fail(f, l) == Goto(f, l) /\ failed' = [failed EXCEPT ![f] = TRUE]

-----------------------------------------------------------------------------
(* Slots *)

\* Fix opens its row and waits; the slot of the repo is there only because
\* Fixes without worktrees share the clone.
Call(f, operator) ==
  /\ pc[f] = "new"
  /\ pinned' = [pinned EXCEPT ![f] = operator]
  /\ row' = [row EXCEPT ![f] = "open"]
  /\ Goto(f, IF config.worktree THEN "slot" ELSE "repo")
  /\ UNCHANGED <<config, repo, expired, sems, down, provider, outcome, left, verdict, past>>

TakeRepoSlot(f) ==
  /\ pc[f] = "repo"
  /\ repoSlot[repo[f]] = {}
  /\ repoSlot' = [repoSlot EXCEPT ![repo[f]] = {f}]
  /\ Goto(f, "slot")
  /\ UNCHANGED <<settings, slots, down, provider, outcome, left, row, verdict, past>>

\* Mutant of TakeSlot: the slot is taken whether there is one or not.
TakeSlotAnyway(f) ==
  /\ pc[f] = "slot"
  /\ slots' = slots \cup {f}
  /\ Goto(f, "clone")
  /\ UNCHANGED <<settings, repoSlot, down, provider, outcome, left, row, verdict, past>>

TakeSlot(f) ==
  /\ pc[f] = "slot"
  /\ Cardinality(slots) < config.maxFixes
  /\ slots' = slots \cup {f}
  /\ Goto(f, "clone")
  /\ UNCHANGED <<settings, repoSlot, down, provider, outcome, left, row, verdict, past>>

\* Mutant of GiveUp: the repo's slot is forgotten.
GiveUpKeeps(f) ==
  /\ pc[f] \in Waiting
  /\ Goto(f, "done")
  /\ row' = [row EXCEPT ![f] = "error"]
  /\ pinned' = [pinned EXCEPT ![f] = NoProvider]
  /\ UNCHANGED <<config, repo, expired, sems, down, provider, outcome, left, verdict, past>>

\* The context ends first.
GiveUp(f) ==
  /\ pc[f] \in Waiting
  /\ repoSlot' = [repoSlot EXCEPT ![repo[f]] = @ \ {f}]
  /\ Goto(f, "done")
  /\ row' = [row EXCEPT ![f] = "error"]
  /\ pinned' = [pinned EXCEPT ![f] = NoProvider]
  /\ UNCHANGED <<config, repo, expired, slots, down, provider, outcome, left, verdict, past>>

\* What only the ladder reads is gone after it ...
LeaveLadder(f) ==
  /\ pinned' = [pinned EXCEPT ![f] = NoProvider]
  /\ provider' = [provider EXCEPT ![f] = Default]
  /\ attempt' = [attempt EXCEPT ![f] = 1]
  /\ work' = [work EXCEPT ![f] = "none"]
  /\ moved' = moved \ {f}

\* ... and the rest that f has of its own when it returns.
Forget(f) ==
  /\ LeaveLadder(f)
  /\ delivered' = [delivered EXCEPT ![f] = FALSE]
  /\ failed' = [failed EXCEPT ![f] = FALSE]
  /\ verdict' = [verdict EXCEPT ![f] = "none"]
  /\ pushes' = [pushes EXCEPT ![f] = FALSE]
  /\ gate' = [gate EXCEPT ![f] = "unknown"]
  /\ asked' = asked \ {f} /\ expired' = expired \ {f}

\* The row is closed with the outcome, the slots are given back.
Free(f) ==
  /\ pc[f] = "free"
  /\ slots' = slots \ {f}
  /\ repoSlot' = [repoSlot EXCEPT ![repo[f]] = @ \ {f}]
  /\ row' = [row EXCEPT ![f] = IF failed[f] THEN "error" ELSE "ok"]
  /\ Goto(f, "done")
  /\ Forget(f)
  /\ UNCHANGED <<config, repo, down, left>>

-----------------------------------------------------------------------------
(* Clone, provider, session, worktree *)

Beside(f) == {g \in Fixes \ {f} : repo[g] = repo[f] /\ tree[g] = "live"}

\* EnsureCloned: its fetch may find that the branch has moved, and moves the
\* origin/<target> that all worktrees of the repo look at.
Clone(f) ==
  /\ pc[f] = "clone"
  /\ \/ /\ f \notin expired
        /\ Goto(f, "begin")
        /\ moved' \in {moved, moved \cup Beside(f)}
        /\ UNCHANGED failed
     \/ Fail(f, "free") /\ UNCHANGED moved
  /\ UNCHANGED <<settings, sems, down, provider, attempt, delivered, left, row,
                 verdict, pushes, work, asked, gate>>

Live == Providers \ down

\* The operator's, or the cheapest whose record is good enough among those
\* that are not down (PickProvider), or the default one.
Choice(f) ==
  IF pinned[f] # NoProvider THEN {pinned[f]}
  ELSE IF config.cheapest /\ Live # {} THEN Live \cup {Default}
  ELSE {Default}

\* The run's name is its session's: the session starts before the worktree.
Begin(f) ==
  /\ pc[f] = "begin"
  /\ \E p \in Choice(f) : provider' = [provider EXCEPT ![f] = p]
  /\ recording' = [recording EXCEPT ![f] = "running"]
  /\ Goto(f, IF config.worktree THEN "tree" ELSE "plan")
  /\ UNCHANGED <<settings, sems, down, outcome, tree, row, verdict, past>>

\* Worktrees of the repo, any of which can be older than WorktreeKeepFailed: a run
\* can last longer than that
Standing(f) == {g \in Fixes : repo[g] = repo[f] /\ tree[g] \in {"live", "kept"}}

\* Mutant of Sweepable: the age of the directory decides.
SweepableByAge(old) == old

\* PruneWorktrees: old directories that no running Fix owns
Sweepable(old) == {g \in old : tree[g] = "kept"}

\* The sweep, then the run's own worktree: created and marked live under the
\* repo's lock.
AddTree(f) ==
  /\ pc[f] = "tree"
  /\ \E old \in SUBSET Standing(f) :
       LET swept == [g \in Fixes |-> IF g \in Sweepable(old) THEN "gone" ELSE tree[g]]
       IN
        \/ /\ f \notin expired
           /\ tree' = [swept EXCEPT ![f] = "live"]
           /\ Goto(f, "plan")
           /\ UNCHANGED failed
        \/ /\ tree' = swept
           /\ Fail(f, "free")
  /\ UNCHANGED <<settings, sems, down, provider, attempt, delivered, recording, row,
                 verdict, past>>

\* runPlanPass, where it is wanted; the ladder that follows takes an agent in the
\* shared clone at its word.
Plan(f) ==
  /\ pc[f] = "plan"
  /\ \/ /\ config.plan => f \notin expired
        /\ Goto(f, "agent")
        /\ delivered' = [delivered EXCEPT ![f] = ~config.worktree]
        /\ UNCHANGED failed
     \/ config.plan /\ Fail(f, "record") /\ UNCHANGED delivered
  /\ UNCHANGED <<settings, sems, down, provider, attempt, left, row, verdict, past>>

-----------------------------------------------------------------------------
(* The ladder *)

\* FixAttempts, clamped to one without a gate to look at again
Limit == IF config.reverify THEN Attempts ELSE 1

\* FixBudget is used up.  While the agent runs, that ends its run too, see below.
Expire(f) ==
  /\ pc[f] \in InClone \ {"agent"}
  /\ f \notin expired
  /\ expired' = expired \cup {f}
  /\ UNCHANGED <<config, repo, pinned, sems, down, pc, provider, outcome, left, row, verdict, past>>

\* The agent's run ends without an error, with commits or without; its last line
\* says fixed, or not, or is no verdict (ParseVerdict).
AgentDone(f, v) ==
  /\ pc[f] = "agent"
  /\ f \notin expired
  /\ verdict' = [verdict EXCEPT ![f] = v]
  /\ \/ UNCHANGED work
     \/ config.worktree /\ work' = [work EXCEPT ![f] = "unpushed"]
  /\ Goto(f, IF config.worktree THEN "push" ELSE "verdict")
  /\ UNCHANGED <<settings, sems, down, provider, outcome, left, row, pushes, moved, asked,
                 gate>>

\* It fails with some output, or stalls.
AgentFails(f) ==
  /\ pc[f] = "agent"
  /\ f \notin expired
  /\ verdict' = [verdict EXCEPT ![f] = "none"]
  /\ Fail(f, "pr")
  /\ UNCHANGED <<settings, sems, down, provider, attempt, delivered, left, row, pushes, work,
                 moved, asked, gate>>

\* Whom failOver can hand the attempt to: another live provider, else the
\* default one if it is not down.
Successors(p, gone) ==
  LET others == Providers \ (gone \cup {p})
  IN  IF others # {} THEN others ELSE {Default} \ (gone \cup {p})

\* The run fails and has printed nothing: the CLI fails of itself, or the
\* context ends the run, or has ended before it.  Without a successor, or for an
\* operator's provider, the Fix fails.
Silent(f, over) ==
  /\ pc[f] = "agent"
  /\ f \in expired => over
  /\ expired' = IF over THEN expired \cup {f} ELSE expired
  /\ verdict' = [verdict EXCEPT ![f] = "none"]
  /\ IF pinned[f] # NoProvider
     THEN Fail(f, "pr") /\ UNCHANGED <<down, provider>>
     ELSE LET p == provider[f] IN
          /\ down' = down \cup {p}
          /\ \/ /\ \E q \in Successors(p, down) : provider' = [provider EXCEPT ![f] = q]
                /\ UNCHANGED <<pc, failed>>
             \/ /\ Successors(p, down) = {}
                /\ Fail(f, "pr")
                /\ UNCHANGED provider
  /\ UNCHANGED <<config, repo, pinned, sems, attempt, delivered, left, row, past>>

\* providerDownFor has passed.
Recovers(p) ==
  /\ p \in down
  /\ down' = down \ {p}
  /\ UNCHANGED <<settings, sems, pc, provider, outcome, left, row, verdict, past>>

\* HEAD is not origin/<target>; no when git gives no answer.
HasCommits(f) ==
  /\ f \notin expired
  /\ \/ f \in moved
     \/ work[f] = "unpushed"
     \/ config.pr /\ work[f] = "pushed"

\* A push without force to the tracked branch, or to the run's own in pr mode, is
\* there at the remote.
Landed(f) ==
  /\ config.pr \/ f \notin moved
  /\ pushes' = [pushes EXCEPT ![f] = TRUE]
  /\ work' = [work EXCEPT ![f] = IF @ = "unpushed" THEN "pushed" ELSE @]
  /\ gate' = [gate EXCEPT ![f] = "unknown"]

\* git is told so, and moves origin/<target>.
Accepted(f) ==
  /\ Landed(f)
  /\ moved' = IF config.pr THEN moved ELSE moved \cup Beside(f)

\* Mutant of Push: delivered is what this attempt has done.
PushForgets(f) ==
  /\ pc[f] = "push"
  /\ \/ /\ ~HasCommits(f)
        /\ delivered' = [delivered EXCEPT ![f] = FALSE]
        /\ Goto(f, "verdict")
        /\ UNCHANGED <<failed, pushes, work, moved, gate>>
     \/ /\ HasCommits(f)
        /\ Accepted(f)
        /\ delivered' = [delivered EXCEPT ![f] = TRUE]
        /\ Goto(f, "verdict")
        /\ UNCHANGED failed
     \/ /\ HasCommits(f)
        /\ Fail(f, "pr")
        /\ UNCHANGED <<delivered, pushes, work, moved, gate>>
     \/ /\ HasCommits(f)
        /\ Landed(f)
        /\ Fail(f, "pr")
        /\ UNCHANGED <<delivered, moved>>
  /\ UNCHANGED <<settings, sems, down, provider, attempt, left, row, verdict, asked>>

\* pushWorktree: there is nothing to push, the push is accepted, or refused, or it
\* lands and git ends with an error: the answer is lost, or FixBudget ends it.
Push(f) ==
  /\ pc[f] = "push"
  /\ \/ /\ ~HasCommits(f)
        /\ Goto(f, "verdict")
        /\ UNCHANGED <<delivered, failed, pushes, work, moved, gate>>
     \/ /\ HasCommits(f)
        /\ Accepted(f)
        /\ delivered' = [delivered EXCEPT ![f] = TRUE]
        /\ Goto(f, "verdict")
        /\ UNCHANGED failed
     \/ /\ HasCommits(f)
        /\ Fail(f, "pr")
        /\ UNCHANGED <<delivered, pushes, work, moved, gate>>
     \/ /\ HasCommits(f)
        /\ Landed(f)
        /\ Fail(f, "pr")
        /\ UNCHANGED <<delivered, moved>>
  /\ UNCHANGED <<settings, sems, down, provider, attempt, left, row, verdict, asked>>

\* An agent that gives up exits like one that has fixed it.  One that leaves no
\* verdict may have (Retryable).
Verdict(f) ==
  /\ pc[f] = "verdict"
  /\ IF verdict[f] = "gave_up" THEN Fail(f, "pr")
     ELSE Goto(f, IF config.reverify THEN "verify" ELSE "pr") /\ UNCHANGED failed
  /\ UNCHANGED <<settings, sems, down, provider, attempt, delivered, left, row,
                 verdict, past>>

Exhausted(f) == attempt[f] >= Limit

\* Mutant of Verify: the last attempt's red gate is let pass.
VerifyLenient(f, look) ==
  /\ pc[f] = "verify"
  /\ f \in expired => look = "red"
  /\ gate' = [gate EXCEPT ![f] = look]
  /\ IF look = "green" \/ Exhausted(f)
     THEN Goto(f, "pr") /\ UNCHANGED attempt
     ELSE Goto(f, "agent") /\ attempt' = [attempt EXCEPT ![f] = @ + 1]
  /\ UNCHANGED <<settings, sems, down, provider, delivered, failed, left, row, verdict,
                 pushes, work, moved, asked>>

\* Reverify: the gate is green, or red and the next attempt begins, or red and
\* there is none.
Verify(f, look) ==
  /\ pc[f] = "verify"
  /\ f \in expired => look = "red"
  /\ gate' = [gate EXCEPT ![f] = look]
  /\ \/ /\ look = "green"
        /\ Goto(f, "pr")
        /\ UNCHANGED <<attempt, failed>>
     \/ /\ look = "red" /\ Exhausted(f)
        /\ Fail(f, "pr")
        /\ UNCHANGED attempt
     \/ /\ look = "red" /\ ~Exhausted(f)
        /\ Goto(f, "agent")
        /\ attempt' = [attempt EXCEPT ![f] = @ + 1]
        /\ UNCHANGED failed
  /\ UNCHANGED <<settings, sems, down, provider, delivered, left, row, verdict,
                 pushes, work, moved, asked>>

-----------------------------------------------------------------------------
(* After it *)

\* Mutant of WantsPR: a PR is asked for whether there is a branch or not.
WantsPRAlways(f) == config.pr

WantsPR(f) == config.pr /\ delivered[f]

\* finishPR, on the failure path too; its error counts if there is no other.
FinishPR(f) ==
  /\ pc[f] = "pr"
  /\ Goto(f, "record")
  /\ IF WantsPR(f)
     THEN /\ asked' = asked \cup {f}
          /\ \/ f \notin expired /\ UNCHANGED failed
             \/ failed' = [failed EXCEPT ![f] = TRUE]
     ELSE UNCHANGED <<failed, asked>>
  /\ LeaveLadder(f)
  /\ UNCHANGED <<config, repo, expired, sems, down, delivered, left, row, verdict,
                 pushes, gate>>

\* Deferred: the diff is taken in the checkout and the session finished ...
Record(f) ==
  /\ pc[f] = "record"
  /\ recording' = [recording EXCEPT ![f] = IF failed[f] THEN "error" ELSE "ok"]
  /\ Goto(f, IF config.worktree THEN "release" ELSE "free")
  /\ UNCHANGED <<settings, sems, down, provider, outcome, tree, row, verdict,
                 past>>

\* ... and then the worktree kept, after an error, or removed.
Release(f) ==
  /\ pc[f] = "release"
  /\ tree' = [tree EXCEPT ![f] = IF failed[f] THEN "kept" ELSE "gone"]
  /\ Goto(f, "free")
  /\ UNCHANGED <<settings, sems, down, provider, outcome, recording, row,
                 verdict, past>>

AllDone == (\A f \in Fixes : pc[f] = "done") /\ UNCHANGED vars

-----------------------------------------------------------------------------
Next ==
  \/ \E f \in Fixes :
       \/ \E operator \in Wanted \cup {NoProvider} : Call(f, operator)
       \/ TakeRepoSlot(f) \/ TakeSlot(f) \/ GiveUp(f) \/ Free(f)
       \/ Clone(f) \/ Expire(f) \/ Begin(f) \/ AddTree(f) \/ Plan(f)
       \/ \E v \in {"fixed", "gave_up", "unknown"} : AgentDone(f, v)
       \/ AgentFails(f)
       \/ \E over \in BOOLEAN : Silent(f, over)
       \/ Push(f) \/ Verdict(f)
       \/ \E look \in {"red", "green"} : Verify(f, look)
       \/ FinishPR(f) \/ Record(f) \/ Release(f)
  \/ \E p \in Providers \cup {Default} : Recovers(p)
  \/ AllDone

Spec == Init /\ [][Next]_vars

-----------------------------------------------------------------------------
(* Properties *)

\* A slot is held by the Fixes at work and the repo's also by the one that waits
\* for the other kind: none is leaked or lent, however a Fix ends
\* (acquireFixSlot and its release).  Without worktrees two Fixes so never work in
\* one repo's clone at once: neither edits the other's files.
SlotsAccounted ==
  /\ slots = {f \in Fixes : pc[f] \in InClone}
  /\ \A r \in Repos :
       repoSlot[r] = {f \in Fixes : /\ repo[f] = r /\ ~config.worktree
                                   /\ pc[f] \in InClone \cup {"slot"}}
  /\ ~config.worktree =>
       \A f, g \in slots : repo[f] = repo[g] => f = g

\* No sweep takes the worktree from a Fix that runs, the taking of its diff
\* included, however old the directory is (PruneWorktrees and the live set).
LiveTreeStands ==
  \A f \in Fixes : config.worktree /\ pc[f] \in WithTree => tree[f] = "live"

\* In worktree mode what the orchestrator is told was delivered has been brought to
\* the branch by a push in some attempt (delivered, sticky); what a push has brought
\* there is told, or the Fix ends with an error, as it does when the push is answered
\* with one; and GitHub is asked for a PR only for a branch that is there (finishPR's
\* 422), on the failure path too.
DeliveredIsPushed ==
  \A f \in Fixes :
    config.worktree /\ pc[f] \in {"pr", "record", "release", "free"} =>
      /\ delivered[f] => pushes[f]
      /\ pushes[f] => delivered[f] \/ failed[f]
      /\ f \in asked => pushes[f]

\* A Fix that ends without an error has an agent behind it that ran to its end and did
\* not say that it is blocked and, where the gate is looked at again, a green gate on
\* what it pushed last: neither an agent that gave up, a red gate, nor a provider that
\* never ran goes by.  Without fix_reverify an agent that left no verdict is enough.
CleanMeansGreen ==
  \A f \in Fixes :
    pc[f] = "free" /\ ~failed[f] =>
      /\ verdict[f] \in {"fixed", "unknown"}
      /\ config.reverify => gate[f] = "green"

\* What a Fix works with is its own for as long as it works: its slots and its tree.
HeldWhileWorking == SlotsAccounted /\ LiveTreeStands

\* What a Fix reports is so: what it says was delivered is on its branch, and it ends
\* clean only with an agent that is not blocked and the gate it was to make green.
OutcomeIsTrue == DeliveredIsPushed /\ CleanMeansGreen
=============================================================================
