----------------------------- MODULE FixLadder -----------------------------
(***************************************************************************)
(* Orchestrator.handle's Fix path for one repository: the checks and the   *)
(* memory that stand between a red verdict and an agent's Fix.  The repo's *)
(* worker is serial; people, GitHub and the clock are not.  A red CI       *)
(* completion is dropped when it is this daemon's own push, the echo of a  *)
(* rerun it asked for, or stale (selfCausedOrStale); else the run is rerun *)
(* once (tryCIRerun); else the commit is claimed (claimFixSHA), fixed by   *)
(* Dispatcher.Fix and released (finishFixSHA).  A red dev gate passes by   *)
(* the checks and the rerun, which are for Source ci, and is claimed at    *)
(* once.  Only these and the Fixes without a SHA are modelled: Decide      *)
(* answers a pass of Source ci with noop.  A signal that is lost,          *)
(* superseded in the worker's channel or suppressed by policy is one that  *)
(* is never taken; the webhook's delivery-id dedupe lets each completion   *)
(* through at most once.                                                   *)
(***************************************************************************)
EXTENDS Integers, FiniteSets, Functions

CONSTANTS
  Workflows,    \* CI workflows of the repository
  MaxCommits,   \* bound of the model: commits ever on the tracked branch
  MaxAttempts,  \* bound of the model: run_attempts GitHub gives one run
  MaxTime,      \* bound of the model: ticks of the clock
  Window,       \* memoryWindow, in ticks
  RerunCI,      \* is agent.ci_rerun_before_fix on?
  PRMode,       \* does a Fix push a branch for a PR, or the tracked branch?
  TipUnreadable,\* may reading the branch tip fail?
  Worktree,     \* does a Fix run in a worktree, the daemon doing the push?
  Manual,       \* a Fix signal without SHA: from the API, patient-zero, or a gate
                \* without a pinned commit
  NoSignal      \* the worker is not handling a signal

Commit == 1 .. MaxCommits
Run == [sha : Commit, workflow : Workflows]
\* A red workflow_run completion, as handleGitHub turns it into a Signal.
Completion == [run : Run, attempt : 1 .. MaxAttempts]
\* A fail of source dev-gate, from the poller or Argo CD's webhook, on the commit that
\* was pinned as the tip before the probe.
GateFail == [sha : Commit]

ASSUME FixLadderAssumption ==
  /\ MaxCommits \in Nat \ {0}
  /\ MaxAttempts \in Nat \ {0}
  /\ MaxTime \in Nat
  /\ Window \in Nat
  /\ {RerunCI, PRMode, Worktree, TipUnreadable} \subseteq BOOLEAN
  /\ Manual \notin Completion \cup GateFail
  /\ NoSignal \notin Completion \cup GateFail
  /\ Manual # NoSignal

VARIABLES
  now,         \* the clock
  tip,         \* the tracked branch's remote tip
  github,      \* github[u]: run u's latest attempt and how it stands
  deliveries,  \* red completions on their way to the worker
  reran,       \* Orchestrator.reran
  ownSHA,      \* Orchestrator.ownSHA
  fixSHA,      \* Orchestrator.fixSHA
  pc,          \* where the worker is in handle
  sig,         \* the signal it is handling
  base,        \* the commit the running Fix has checked out
  named,       \* commits the running Fix has put on the tracked branch, as far as
               \* the daemon has read their SHAs
  delivered,   \* has the running Fix pushed anything, as far as the daemon knows?
  cut,         \* has one of its pushes been answered with an error?
  requested,   \* history: reruns this daemon requested
  owned,       \* history: commits that Fixes of red commits put on the branch and
               \* the daemon knew of
  fixes        \* history: Fixes that delivered and ended without an error

memory == <<reran, ownSHA, fixSHA>>
hist == <<requested, owned, fixes>>
fixing == <<base, named, delivered, cut>>
world == <<now, tip, github>>
vars == <<world, deliveries, memory, pc, sig, fixing, hist>>

Absent == [attempt |-> 0, state |-> "none"]

TypeOK ==
  /\ now \in Nat
  /\ tip \in Commit
  /\ github \in [Run -> [attempt : 0 .. MaxAttempts,
                         state : {"none", "running", "red", "green"}]]
  /\ deliveries \subseteq Completion
  /\ DOMAIN reran \subseteq Run
  /\ reran \in [DOMAIN reran -> [attempt : Nat, at : Nat]]
  /\ DOMAIN ownSHA \subseteq Commit
  /\ ownSHA \in [DOMAIN ownSHA -> Nat]
  /\ DOMAIN fixSHA \subseteq Commit
  /\ fixSHA \in [DOMAIN fixSHA -> [inflight : BOOLEAN, ok : BOOLEAN, at : Nat]]
  /\ pc \in {"idle", "ladder", "rerun", "wait", "claim", "fix"}
  /\ sig \in Completion \cup GateFail \cup {Manual, NoSignal}
  /\ base \in Commit
  /\ named \subseteq Commit
  /\ delivered \in BOOLEAN /\ cut \in BOOLEAN
  /\ requested \subseteq [run : Run, attempt : 1 .. MaxAttempts, at : Nat]
  /\ owned \subseteq [sha : Commit, at : Nat]
  /\ fixes \subseteq [sha : Commit, at : Nat]

\* Every workflow starts on a commit pushed to the tracked branch.
Started(g, c) == [u \in Run |-> IF u.sha = c
                                THEN [attempt |-> 1, state |-> "running"] ELSE g[u]]

\* An empty map
Nothing == [x \in {} |-> 0]

Init ==
  /\ now = 0
  /\ tip = 1
  /\ github = Started([u \in Run |-> Absent], 1)
  /\ deliveries = {}
  /\ reran = Nothing /\ ownSHA = Nothing /\ fixSHA = Nothing
  /\ pc = "idle" /\ sig = NoSignal
  /\ base = 1 /\ named = {} /\ delivered = FALSE /\ cut = FALSE
  /\ requested = {} /\ owned = {} /\ fixes = {}

-----------------------------------------------------------------------------
(* The daemon's memory *)

\* m with key k set to v
Put(m, k, v) == [x \in DOMAIN m \cup {k} |-> IF x = k THEN v ELSE m[x]]

Expired(at) == now - at > Window

Fresh(at) == ~Expired(at)

\* pruneStale, for each of the three maps; a Fix in flight is never pruned.
PrunedReran == Restrict(reran, {u \in DOMAIN reran : Fresh(reran[u].at)})
PrunedOwnSHA == Restrict(ownSHA, {c \in DOMAIN ownSHA : Fresh(ownSHA[c])})
PrunedFixSHA == Restrict(fixSHA, {c \in DOMAIN fixSHA :
                                    fixSHA[c].inflight \/ Fresh(fixSHA[c].at)})

\* An insert by another repo's worker prunes this repo's entries too.
PruneElsewhere ==
  /\ reran' \in {reran, PrunedReran}
  /\ ownSHA' \in {ownSHA, PrunedOwnSHA}
  /\ fixSHA' \in {fixSHA, PrunedFixSHA}
  /\ UNCHANGED <<world, deliveries, pc, sig, fixing, hist>>

-----------------------------------------------------------------------------
(* People, GitHub and the clock *)

\* A tick is half of memoryWindow or more; the ladder's steps, a rerun
\* included, are over within minutes (RerunAndWait gives up after ten).
Tick ==
  /\ pc \in {"idle", "fix"}
  /\ now < MaxTime
  /\ now' = now + 1
  /\ UNCHANGED <<tip, github, deliveries, memory, pc, sig, fixing, hist>>

\* A new commit on the tracked branch
Advance ==
  /\ tip < MaxCommits
  /\ tip' = tip + 1
  /\ github' = Started(github, tip + 1)

\* Somebody pushes to, or merges a PR into, the tracked branch.
HumanPush ==
  /\ Advance
  /\ UNCHANGED <<now, deliveries, memory, pc, sig, fixing, hist>>

\* GitHub starts another attempt of a completed run.
Restart(u) ==
  /\ github[u].state \in {"red", "green"}
  /\ github[u].attempt < MaxAttempts
  /\ github' = [github EXCEPT ![u] = [attempt |-> @.attempt + 1, state |-> "running"]]

HumanRerun(u) ==
  /\ Restart(u)
  /\ UNCHANGED <<now, tip, deliveries, memory, pc, sig, fixing, hist>>

\* A run completes; GitHub delivers a red one to the webhook, some day.
Complete(u, conclusion) ==
  /\ github[u].state = "running"
  /\ github' = [github EXCEPT ![u].state = conclusion]
  /\ deliveries' = deliveries \cup
       {d \in Completion : /\ conclusion = "red"
                           /\ d.run = u
                           /\ d.attempt = github[u].attempt}
  /\ UNCHANGED <<now, tip, memory, pc, sig, fixing, hist>>

-----------------------------------------------------------------------------
(* The worker: handle *)

OwnPush(d) == d.run.sha \in DOMAIN ownSHA

RerunEcho(d) == d.run \in DOMAIN reran /\ d.attempt >= reran[d.run].attempt

\* selfCausedOrStale finds a reason to skip.
Skip(d) ==
  /\ pc = "idle"
  /\ d \in deliveries
  /\ OwnPush(d) \/ RerunEcho(d) \/ tip # d.run.sha
  /\ deliveries' = deliveries \ {d}
  /\ UNCHANGED <<world, memory, pc, sig, fixing, hist>>

\* It finds none.  When the tip cannot be read the signal counts as current.
Take(d) ==
  /\ pc = "idle"
  /\ d \in deliveries
  /\ ~OwnPush(d)
  /\ ~RerunEcho(d)
  /\ TipUnreadable \/ tip = d.run.sha
  /\ deliveries' = deliveries \ {d}
  /\ pc' = "ladder"
  /\ sig' = d
  /\ UNCHANGED <<world, memory, fixing, hist>>

\* A signal without SHA and run_url: nothing skips it, nothing is rerun and nothing
\* is claimed.  It goes straight to the agent.
TakeManual ==
  /\ pc = "idle"
  /\ pc' = "fix"
  /\ sig' = Manual
  /\ base' = tip
  /\ UNCHANGED <<world, deliveries, memory, named, delivered, cut, hist>>

\* A red dev gate, of a commit that is or was the tip: one that a Fix has pushed, or
\* that has been superseded, is no reason to skip it, and no run is there to rerun.
TakeGateFail(c) ==
  /\ pc = "idle"
  /\ pc' = "claim"
  /\ sig' = [sha |-> c]
  /\ UNCHANGED <<world, deliveries, memory, fixing, hist>>

\* Signal.SHA
ShaOf(s) == IF s \in Completion THEN s.run.sha ELSE s.sha

Rerunnable == RerunCI /\ sig.run \notin DOMAIN reran

\* Mutant of EchoAttempt: off by one.
EchoAttemptLate == sig.attempt + 2

\* The attempt a rerun requested now is expected to complete as
EchoAttempt == sig.attempt + 1

\* tryCIRerun, up to the request: once per run, recorded before it is made.
Ladder ==
  /\ pc = "ladder"
  /\ \/ /\ Rerunnable
        /\ reran' = Put(PrunedReran, sig.run, [attempt |-> EchoAttempt, at |-> now])
        /\ pc' = "rerun"
     \/ /\ ~Rerunnable
        /\ pc' = "claim"
        /\ UNCHANGED reran
  /\ UNCHANGED <<world, deliveries, ownSHA, fixSHA, sig, fixing, hist>>

\* RerunAndWait asks GitHub to rerun the run's failed jobs.
RequestRerun ==
  /\ pc = "rerun"
  /\ Restart(sig.run)
  /\ requested' = requested \cup
       {[run |-> sig.run, attempt |-> github[sig.run].attempt + 1, at |-> now]}
  /\ pc' = "wait"
  /\ UNCHANGED <<now, tip, deliveries, memory, sig, fixing, owned, fixes>>

\* The poll finds the run green: no Fix.
RerunGreen ==
  /\ pc = "wait"
  /\ github[sig.run].state = "green"
  /\ pc' = "idle"
  /\ sig' = NoSignal
  /\ UNCHANGED <<world, deliveries, memory, fixing, hist>>

\* GitHub refuses the request, the wait times out, a poll comes before GitHub
\* has marked the run as running, or the run is red again: on to the Fix.
RerunNotGreen ==
  /\ pc \in {"rerun", "wait"}
  /\ pc' = "claim"
  /\ UNCHANGED <<world, deliveries, memory, sig, fixing, hist>>

\* Mutant of Claimed: a commit with a delivered Fix can be claimed again.
ClaimedInflight(c) == c \in DOMAIN fixSHA /\ fixSHA[c].inflight

\* claimFixSHA's answer for a commit: "inflight" or "already_fixed"
Claimed(c) == c \in DOMAIN fixSHA /\ (fixSHA[c].inflight \/ fixSHA[c].ok)

Unclaimed == [inflight |-> FALSE, ok |-> FALSE, at |-> 0]
Entry(m, c) == IF c \in DOMAIN m THEN m[c] ELSE Unclaimed

ClaimRefused ==
  /\ pc = "claim"
  /\ Claimed(ShaOf(sig))
  /\ pc' = "idle"
  /\ sig' = NoSignal
  /\ UNCHANGED <<world, deliveries, memory, fixing, hist>>

\* The claim succeeds, and Dispatcher.Fix checks out the tip as it is now.
Claim ==
  /\ pc = "claim"
  /\ ~Claimed(ShaOf(sig))
  /\ fixSHA' = Put(PrunedFixSHA, ShaOf(sig),
                   [Entry(fixSHA, ShaOf(sig)) EXCEPT !.inflight = TRUE, !.at = now])
  /\ pc' = "fix"
  /\ base' = tip
  /\ UNCHANGED <<world, deliveries, reran, ownSHA, sig, named, delivered, cut, hist>>

\* An attempt of the Fix pushes a commit: fast-forward onto the tracked
\* branch, or (PRMode) to a branch of its own, whose runs the webhook ignores.
\* The daemon learns that its push has landed, and most times which commit HEAD
\* is; or the push lands and is answered with an error, and the ladder ends there.
\* It learns nothing of an agent that pushes on its own.
FixPush ==
  /\ pc = "fix" /\ ~cut
  /\ \/ /\ ~PRMode
        /\ tip = base
        /\ Advance
        /\ base' = tip + 1
     \/ /\ PRMode
        /\ UNCHANGED <<tip, github, base>>
  /\ \/ /\ delivered' = TRUE
        /\ \/ UNCHANGED named
           \/ Worktree /\ ~PRMode /\ named' = named \cup {base'}
        /\ UNCHANGED cut
     \/ /\ Worktree
        /\ cut' = TRUE
        /\ UNCHANGED <<named, delivered>>
  /\ UNCHANGED <<now, deliveries, memory, pc, sig, hist>>

\* Mutant of PushedSHAs: only the last attempt's push is reported.
PushedLast == named \cap {base}

\* Mutant of PushedSHAs: the commit after the last one pushed is reported too.
PushedAhead == named \cup {base + 1}

\* FixResult.PushedSHAs: what the daemon, not the agent, pushed
PushedSHAs == named
\* FixResult.Delivered: an agent that pushes on its own is taken at its word
Delivered == delivered \/ ~Worktree

\* Mutant of Latches: a Fix that returned no error counts, delivered or not.
LatchesClean(err) == ~err

\* Does finishFixSHA latch ok?
Latches(err) == ~err /\ Delivered

\* Dispatcher.Fix returns, with an error or without, and finishFixSHA writes
\* down what it did, unless the signal had no SHA.
Finish(err) ==
  /\ pc = "fix"
  /\ cut => err
  /\ IF sig = Manual THEN UNCHANGED <<ownSHA, fixSHA, owned, fixes>>
     ELSE /\ fixSHA' = Put(fixSHA, ShaOf(sig),
                [inflight |-> FALSE,
                 ok |-> Entry(fixSHA, ShaOf(sig)).ok \/ Latches(err), at |-> now])
          /\ ownSHA' = IF PushedSHAs = {} THEN ownSHA
                       ELSE [c \in DOMAIN PrunedOwnSHA \cup PushedSHAs |->
                               IF c \in PushedSHAs THEN now ELSE ownSHA[c]]
          /\ owned' = owned \cup [sha : named, at : {now}]
          /\ fixes' = fixes \cup
               {f \in [sha : {ShaOf(sig)}, at : {now}] : Delivered /\ ~err}
  /\ pc' = "idle" /\ sig' = NoSignal
  /\ named' = {} /\ delivered' = FALSE /\ cut' = FALSE
  /\ UNCHANGED <<world, deliveries, reran, base, requested>>

-----------------------------------------------------------------------------
Environment ==
  \/ Tick \/ PruneElsewhere \/ HumanPush
  \/ \E u \in Run : HumanRerun(u)
  \/ \E u \in Run, conclusion \in {"red", "green"} : Complete(u, conclusion)

Worker ==
  \/ \E d \in deliveries : Skip(d) \/ Take(d)
  \/ \E c \in 1 .. tip : TakeGateFail(c)
  \/ TakeManual \/ Ladder \/ RequestRerun \/ RerunGreen \/ RerunNotGreen
  \/ ClaimRefused \/ Claim \/ FixPush
  \/ \E err \in BOOLEAN : Finish(err)

Next == Environment \/ Worker

Spec == Init /\ [][Next]_vars

-----------------------------------------------------------------------------
(* Safety properties *)

\* A Fix for a commit starts in this step.
Starts == pc # "fix" /\ pc' = "fix" /\ sig' # Manual

\* What the daemon caused itself is no red CI completion to be fixed for memoryWindow
\* (selfCausedOrStale): not the run of a commit that an earlier Fix of a red commit
\* pushed and the daemon had the SHA of, which is the business of that Fix's reverify,
\* whichever of its attempts pushed it and however it ended; nor the completion of a
\* rerun the daemon requested, an answer already read, even when somebody reran the run
\* between the completion and the daemon's request.  It is said of CI's completions
\* only: a red dev gate is fixed whoever pushed the commit.
SelfCausedNotFixed ==
  [][Starts /\ sig \in Completion =>
       /\ \A o \in owned : o.sha = sig.run.sha => Expired(o.at)
       /\ \A q \in requested :
            q.run = sig.run /\ sig.attempt >= q.attempt => Expired(q.at)]_vars

\* A run that stays red is rerun once, not once per completion: two requests
\* for one run are more than memoryWindow apart.
RerunOnce ==
  [][\A p \in requested, q \in requested' \ requested : p.run = q.run => Expired(p.at)]_vars

\* A claim outlives its Fix in no case: an entry is in flight exactly while
\* the worker is in Dispatcher.Fix for that commit.
ClaimReleased ==
  \A c \in Commit :
    Entry(fixSHA, c).inflight <=> pc = "fix" /\ sig # Manual /\ ShaOf(sig) = c

\* A commit is fixed once, and as often as it takes (claimFixSHA, finishFixSHA): a Fix
\* that delivered without error is the last to start on its commit for memoryWindow,
\* whatever other workflows, reruns, unreadable tips or red dev gates bring that commit
\* back; one that failed or delivered nothing leaves the commit as broken as it was, and a claim is
\* refused only for a commit that a clean, delivered Fix has dealt with.
ClaimIsExact ==
  [][LET Clean == {f \in fixes : f.sha = ShaOf(sig)} IN
       /\ Starts => \A f \in Clean : Expired(f.at)
       /\ pc = "claim" /\ pc' = "idle" => Clean # {}]_vars

-----------------------------------------------------------------------------
(* The inductive invariant behind them *)

\* A signal in hand: a completion or a red gate on its way to a Fix, or a manual Fix
InHand ==
  /\ pc = "idle" <=> sig = NoSignal
  /\ pc \in {"ladder", "rerun", "wait"} => sig \in Completion
  /\ pc = "claim" => sig \in Completion \cup GateFail
  /\ sig \in Completion => sig.attempt <= github[sig.run].attempt
  /\ \A d \in deliveries : d.attempt <= github[d.run].attempt
  /\ \A u \in Run : u.sha > tip => github[u] = Absent

\* Nothing younger than the window is forgotten ...
OwnRemembered ==
  \A o \in owned :
    /\ o.at <= now
    /\ Expired(o.at) \/ (o.sha \in DOMAIN ownSHA /\ o.at <= ownSHA[o.sha])

RerunRemembered ==
  \A q \in requested :
    \/ Expired(q.at)
    \/ /\ q.run \in DOMAIN reran
       /\ q.at <= reran[q.run].at
       /\ reran[q.run].attempt <= q.attempt

FixRemembered ==
  \A f \in fixes :
    /\ f.at <= now
    /\ \/ Expired(f.at)
       \/ f.sha \in DOMAIN fixSHA /\ fixSHA[f.sha].ok /\ f.at <= fixSHA[f.sha].at

\* ... and what is latched is what a clean, delivered Fix has dealt with ...
LatchedIsFixed ==
  \A c \in DOMAIN fixSHA : fixSHA[c].ok => \E f \in fixes : f.sha = c

\* ... and a completion past the checks of selfCausedOrStale stays past them.
Checked ==
  pc \in {"ladder", "rerun", "wait", "claim"} /\ sig \in Completion =>
    /\ \A o \in owned : o.sha = sig.run.sha => Expired(o.at)
    /\ \A q \in requested :
         q.run = sig.run /\ sig.attempt >= q.attempt => Expired(q.at)

\* A rerun about to be requested is on record, and the first of its window.
OnRecord ==
  pc = "rerun" =>
    /\ sig.run \in DOMAIN reran
    /\ reran[sig.run] = [attempt |-> EchoAttempt, at |-> now]
    /\ \A q \in requested : q.run = sig.run => Expired(q.at)

\* The inductive invariant: claims, and a memory that covers its window
IInv ==
  /\ TypeOK /\ InHand /\ ClaimReleased
  /\ OwnRemembered /\ RerunRemembered /\ FixRemembered
  /\ LatchedIsFixed /\ Checked /\ OnRecord

=============================================================================
