# xdlc-agent in TLA+

A verification project for the daemon in this repository: TLA+ modules translated
from the Go source, TLC configurations that check them on small instances, and
theorems checked by the TLA+ proof system.

## 1. The system

One process (`xdlc-agent run`, single replica) watches a fleet of git
repositories. Gates observe three things about each repo: CI on its tracked
branch, the DEV smoke test, and production health. Each observation becomes a
*Signal* (Source, Repo, Kind, SHA). The orchestrator turns a signal into one of
four actions - Fix, Promote, Revert, noop - subject to a fleet policy, runs it
through the dispatcher, and records it in the audit store and BACKLOG.md. Only
Fix runs a coding agent, in a git worktree of its own; the daemon makes every push.

```
 poller --\                        +-> worker(repo 1): handle --> dispatcher --> git remotes
 webhook ---> Signals --> Run -----+-> worker(repo 2): handle --> ...
 api ----/     (64)    (fan-out)   +-> ...      |                    |
    ^                                           v                    v
    +---- patient-zero (from handle) ----- audit store         fixstate, sessions
                                             |  (SSE ring)        | (progress, output)
                                             +-----> api/console <-+
```

### Components

| Component | State it keeps | Operations | What is hard, and what makes it correct |
|---|---|---|---|
| Fan-out (`orchestrator/loop.go` Run, drainSameSource) | Signals channel, a channel and a goroutine per repo | receive, drain, re-queue, send, shut down | the drain races with the worker; no verdict lost, same-source order kept, no repo blocks another, shutdown ends |
| Decide and handle (`decide.go`, `policy.go`, `loop.go`) | breach flags, patient-zero marks | Decide, suppressReason, patient-zero | workers of different repos share the flags; a revert is suppressed only while an upstream is red, patient-zero fires once per episode |
| Fix ladder (`loop.go`) | reran, ownSHA, fixSHA maps with a 24 h window | rerun once, claim, finish, skip echoes and own pushes | GitHub delivers runs late, twice and out of order; one delivered Fix per commit, a failed one can be retried |
| Dispatcher Fix (`dispatch.go`, `route.go`) | semaphores, provider health, worktree, attempts | slots, fixInner ladder, failover, push, verdict | two-level locks and cancellation; attempts bounded, delivered only what reached the branch |
| Fix reverification (`cmd/xdlc-agent/main.go`) | deadline, polls | asks for the runs of the pushed commit, or for the gate | runs register late and one by one, next to the red one and other people's; a Fix is judged by its own |
| Release (`dispatch.go` Promote/Revert, `promote/`) | the prod and dev branches of a remote, gitops values | pin, carry tag, fast-forward, revert | people push between any two git commands; promote never rewinds prod, revert undoes only the daemon's own promote |
| Repos and worktrees (`repos/`) | clones, per-repo lock, live worktrees | EnsureCloned, Worktree, Done, Remove, Prune | concurrent Fixes on one clone, prune against a live run |
| Poller (`poller/`) | last emitted edge per repo and gate, blocked episodes | tick, edge, blocked | one deadline per tick, edge recorded before the send |
| Webhooks (`webhook/`, `ratelimit/`) | token bucket, delivery ids, smoke slots, prod-health edge | GitHub, Argo CD, Alertmanager handlers | redelivery, concurrent deliveries, edge and emission not atomic; a run is taken once and its signal sent |
| Audit store (`store/`) | bbolt log, by-repo index, read cache with a generation, ring, subscribers | Append, All, Recent, Since, ActionsSince, Subscribe, Replay | cache fill against append, publish outside the transaction, stamps out of order |
| Event stream (`api/api.go` handleEvents) | cursor per connection | replay then follow | gap or duplicate between replay and live |
| Pages (`api/api.go`, `api/kpis.go`) | - | history, repos, drill-down, overview, KPIs | several ways to count one log have to agree |
| PR queue (`api/api.go` handlePRs, `ghclient/pr.go`, `prci.go`) | one request's rows | a lookup per row, four at a time, three seconds | people merge, close and reopen meanwhile; a row is what GitHub said or what was recorded |
| Login (`authn/`) | signed cookies, the issuer's keys | login, callback, roles | tabs share a cookie, keys rotate, groups change; a role only as long as it was given |
| Fix state and output (`fixstate/`) | active Fixes, output tails, subscribers | Set, Append, Subscribe, snapshot on loss | slow subscriber, loss marking |
| Sessions (`session/`) | one directory per agent run | Start, Write, Finish, Recent, Prune | id collisions, sweeps that know of no live run, readers beside writers |
| Agent runner (`subagent/`) | child process, ring tail, stall timer | Run, watchStall, verdict | stall and timeout racing exit |
| Gates (`gate/`) | - | checks | pure I/O around one decision each |
| GitHub client (`ghclient/`) | the App's token, and the API client's copy of it | mint, checks, rerun and wait | callers wait for one mint; a token lives and may do what the code calls |
| Backlog, lessons, otel | append-only files | record | little state |
| Config, validate, gatebuild, mcpserver, console, ui, demo, doctor | - | start-up checks, presentation | not concurrent control; left out |

## 2. The modules

| Module | Models | Composes / refines |
|---|---|---|
| `LatestWins` | what the fan-out promises, without channels or goroutines | abstract |
| `FanOut` | `Run`, `drainSameSource`, the workers, shutdown | implements `LatestWins` (`ImplementsLatestWins`) |
| `FixLadder` | the Fix path of `handle` for one repo: echoes, own pushes, rerun, claims | inside a worker of `FanOut` |
| `Fleet` | the policy part of `handle` for all repos at once | inside the workers of `FanOut` |
| `Release` | `Promote` and `Revert` of one repo against a remote other people push to | an action `Fleet` dispatches |
| `FixRun` | `Dispatcher.Fix`: slots, attempts, fail-over, worktree, push, gate, PR, session | an action `FixLadder` dispatches |
| `Gates` | poller, Argo CD, Alertmanager and manual signals, up to the breach flag | feeds `FanOut` |
| `AuditStream` | audit store, its read cache, and the audit part of the event stream | written by every worker |
| `LiveView` | tracker of running Fixes, their part of the event stream, the console's store | told by `FixRun` |
| `PRQueue` | one request to the queue of Fix PRs, `ciState`, PRs that change meanwhile | shows what `FixRun` opened |
| `AuditViews` | the by-repo index, the pages and scores computed from the log, the router | reads what `AuditStream` stores |
| `Login` | the authorization code flow, key cache, cookies, roles at the API | in front of every page and action |
| `AgentRun` | `SubprocessRunner.Run`: process group, pipes, WaitDelay, stall watchdog, tail | one attempt of `FixRun` |
| `Reverify` | `reverifyGate`, `reverifyBySHA` and the workflow runs they wait for | one answer to `FixRun` |
| `Intake` | the limiter and GitHub's webhook: filters, delivery ids, the signal | feeds `FanOut` and `FixLadder` |
| `Tokens` | who the daemon is to GitHub: App or PAT, minting, reuse, permissions | under every call to GitHub and every push |
| `Sessions` | recordings of Fixes on disk: ids, artifacts, `Recent`, pruning by two processes, kills | written by `FixRun`, read by the next |

An `MC` module holds the symmetry sets and the function-valued constants of one
instance; a `Proofs` module holds the theorems about one component, or about all parts of
a composition (`ConsoleProofs`, `DeployProofs`, `FixLadderProofs`,
`FleetProofs`, `SessionsProofs`). Five `MC` modules put together parts of the system that serve one purpose and share no state in the models:
`MCConsole` (AuditStream, LiveView, PRQueue), `MCDeploy` (Gates, Release), `MCFixLadder`
(Intake, FixLadder, Reverify, Tokens), `MCFleet` (Fleet, AuditViews) and `MCSessions`
(Sessions, Login). A behaviour of such a module is one
of one part - the variable `part` is chosen in the initial state and says of which - while
the others keep still, so the state space is the sum of the parts' and not their product.

### How the state and the actions correspond to the code

**FanOut.** `signals` is `Orchestrator.Signals`, `queue[r]` the channel `Run` makes for
repo *r*, `busy[r]` the signal in that worker's `handle`. `pc`, `hand` and `keep` are the
program counter and locals of the dispatcher goroutine in `Run` and `drainSameSource`.
Each channel operation is one action, because the worker receives from the very channel
the dispatcher drains: `Receive`, `DrainOne` (one receive of the loop at `loop.go:226`),
`DrainDone`, `Requeue`, `Send`, `Take`. `Offer` is the non-blocking send of a patient-zero
signal. `Cancel` is the context ending; `Run` notices it wherever it selects.

**FixLadder.** `reran`, `ownSHA` and `fixSHA` are the maps of the same names with the
time of each entry; `PrunedReran`, `PrunedOwnSHA`, `PrunedFixSHA` are `pruneStale` as each
insert applies it. `github` and `deliveries` are GitHub: runs with attempts, red
completions delivered in any order or never. `pc` follows `handle`:
`selfCausedOrStale`, `tryCIRerun`, `RerunAndWait`, `claimFixSHA`, the Fix, `finishFixSHA`.
A red dev gate carries the commit it was pinned to, but no run: it passes by the checks and
the rerun, which are for Source ci, and is claimed at once (`TakeGateFail`). `named` are the
commits that the running Fix has pushed and the daemon has the SHA of; `cut` says that a
push has landed and was answered with an error, which ends the Fix.

**Fleet.** One `pc` per repo. The two reads of the breach flags in `suppressReason`, the
dispatch, the audit row, and the patient-zero mark, send and unmark are separate actions,
since other workers run between them; `updateBreach` is part of taking the signal.
`recent[r]` is what `flapTransitions` reads from the trail.

**Release.** `commits` is the commit graph of the origin, `dev` and `prod` its branches.
`grafts` is the shallow file of the daemon's clone, which EnsureCloned makes two commits
deep: `Fetched` is what `git fetch --depth 2` does to it (the tip of the fetched branch is
no boundary any more, its parents are), and every check and push in the clone is judged by
the history that is left (`Precedes`). With no grafts the clone is complete.
An action is one git command with the checks behind it; between any two, people push. Any
step may be the last (`Abort`: a check refuses, a command fails, a budget ends, the daemon
stops). The YAML edit of the tag carry is one commit that makes the tag current.

**FixRun.** `slots` and `repoSlot` are `fixSem` and `fixRepoSem`, held as the set of their
holders. `pc[f]` walks `Fix` and `fixInner`; `expired` says that FixBudget is over, after
which git, agent, gate and GitHub only answer with errors. `work` says what the agent
committed and what became of it, `delivered` is the sticky flag of the code, `pushes` the
history it is compared with: a push that lands may be answered with an error, which sets
only the second. `verdict` is what `ParseVerdict` made of the agent's output: `fixed`,
`gave_up` (with needs_human, which the code treats alike), `unknown` when there is no verdict
line, and `none` while no agent has ended. The settings are chosen in the initial state, so
one run covers four of them.

**Gates.** `last`, `episode` and `recent` are the poller's memory, `prodEdge` the
Alertmanager route's, `slots` the smoke semaphore; a handler is a process of its own, and
the lock it decides under ends before its signal is sent. `breach` is the orchestrator's
flag, updated by the worker at the other end of the channel.

**AuditStream.** A record is its sequence number. `Append` is three actions (commit, drop
the cache, publish), `All` three (ask, read, fill), and `handleEvents` subscribes, replays
and follows in separate ones. `Restart` empties everything but the database.

**PRQueue.** `gh[p]` is a PR on GitHub, `recorded[p]` its state in the newest Fix record.
`AskQueue` takes the rows, `Acquire`, `Lookup` and `GiveUp` are one goroutine of a row,
`Deadline` the three seconds of the request, `Answer` the end of `wg.Wait`. `CIState` is
`ciState` as a function of the pages GitHub answers.

**AuditViews.** A record is appended in three actions, as `handle` does: the dispatch
begins (and the router picks), the record is stamped, the record is written; the stamp of
one worker may be older than a record already there. The by-repo index is the set of its
keys, and a cursor a position in their order, so that `seekPrefixEnd` and the walk back are
what the code does. The pages are operators on the log. `promoted` says whether a record
has the promoted_sha that LastPromote asks for; which commit it names is told by the record's
time, which no two share.

**Login.** A cookie is its content and its end, since only the daemon can sign one; a
token is its key and the groups in it. `Verify`, `BeginFetch`, `Fetch` and `Apply` are
`keyFor` and `refreshKeys` with the lock released around the request. `granted` is a
history of what the issuer would have said.

**Reverify.** A tick is the interval between polls. `Appear` and `RunEnds` are GitHub;
`Judge` is one poll of `reverifyBySHA` with everything it decides, `Unlisted` one that
GitHub did not answer, `Check` one poll of the gate. `Retry` and `Another` begin the next
verdict, of the same push or of the next one.

**Intake.** A request is `Receive` (the limiter), then `Reject`, `Seen` or `TakeID` (reading,
the secret, the ids, the filters), then `EmitRun`, which waits for room in Signals. `Record`
is `seenBefore` with its eviction loop. `RestartServer` forgets all of it.

**Tokens.** A caller waits for the token (`Ask`), for the lock (`Served`, `Lock`), mints
(`Minted`, `MintFails`) and calls. `conf` ranges over the configurations, `Provider` is
`PreferAppThenPAT`; a call is the permission it needs. `Installed` is what the App is
installed on, with a repo of no configuration: `ScopeRepos` names what a token is asked for,
and `Reach` what GitHub then mints it for, which is everything when nothing is named.

**LiveView.** A state is the number of transitions a Fix has made, a line its number.
Tracker methods are atomic (one mutex); the steps of `handleEvents` are separate actions,
and so are asking for and applying a poll in the console.

**AgentRun.** `pc` is `Run` before, in and after `cmd.Wait`, `dog` and `stalled` the
goroutine of `watchStall` and its flag. `proc` is the CLI and `child` one descendant, in the
process group that gets SIGKILL or outside it, which may hold the pipe after the CLI has
ended; what the operating system and `os/exec` do with them is external. A byte is its
number; `stdout` is the `tailWriter` with its buffer, head and wrap, written in pieces of
any size. Timers may expire at any time after they were started.

**Sessions.** `disk` maps the ids of directories to their time and files; a file is whose
it is and of which attempt, meta.json whether it says ended. `run[f]` walks `Start`, the
attempts and the defer of `fixInner`; `prune` are sweeps of the daemon and of the command,
`reader` the steps of `Recent` in a Fix that begins. Nothing relates session.retain to the time a Fix
takes, so a Fix may run on after its recording was deleted; what it then writes is lost. Each step is one system call, or
several that no other process can tell apart: a meta.json being written is for `Load` what
none is, and for `Recent` what a running session's is. A removal is one step too: that it
may leave part of the files a Fix is writing meanwhile is not modelled.

## 3. What is checked

Every run explores all reachable states of its instance. Deadlock is checked except in
`fanout`, `agentrun`, `fleet_safety` and `sessions_safety`, where the system may stop:
everything was handled and a worker is stuck in a Fix that never ends; the one run is over;
every record of the bound is written; all Fixes are over.

| Run | Properties | What it shows |
|---|---|---|
| `fanout` | SendNeverBlocks | whenever the dispatcher sends to a worker's channel there is room, however long that worker is busy |
| | HandledInOrder | verdicts of one repo and source are handled in arrival order although dispatcher and worker receive from one channel |
| | ImplementsLatestWins | a verdict is given up only for a newer one of its repo and source that is pending, or because the daemon stops |
| | NobodyWaits | a repo stuck in a Fix delays no other repo's signals, nor the end of a cancelled Run |
| `fixladder_safety` | SelfCausedNotFixed | within memoryWindow no Fix starts for a red CI run of a commit that a Fix of a red commit pushed and the daemon had the SHA of, or on the echo of its own rerun; red dev gates are not spoken of |
| | ClaimIsExact | a clean, delivered Fix is the last of its commit; any other leaves the commit retryable |
| | TakenOnce | a delivery that comes again is not acted on again for half an hour, but after a restart or a flood of others |
| | TakenIsSent | who was told that a run was taken, or seen before, has its signal sent or held, with the channel full too; and the limiter keeps to burst and rate |
| | VerdictIsItsOwn | a push of the daemon is green or red by the runs of its own commit, all over; never by the red run, by someone else's, or while one still runs |
| | TokensServe | however many wait for a mint, who gets a token gets a live one for the configured repos, or for the whole installation when none is on GitHub, and one mint serves all |
| `fleet_safety` | BreachesHold | no leaf is reverted or promoted while its upstream stays in breach; nothing is done while the circuit is open |
| | TroubleIsBounded | Fix and Revert alternate at most FlapMax times per window; one patient-zero Fix per breach episode |
| | ViewsAgree | the index answers as a scan of the log would, but for records appended against the order of their stamps, which are cut off from the old end only; pages, KPIs and router count alike |
| `deploy_safety` | ReleasesWhole | a recorded Promote is part of both branches, and a carry that dev has, prod has had |
| | ProdMovesRightly | only a commit the gate passed on (or the tag carry on top of it) is promoted; a Revert undoes the recorded Promote while it is prod's tip |
| | SlotsHeld | smoke slots are those of deliveries being verified |
| | SpeaksOnEdges | the poller speaks exactly when its verdict changes, blocked checks in between or not |
| | SignalsAreEarned | a verdict's commit is no newer than its probe; the Alertmanager route asks for one Revert per recovery, whatever deliveries overlap |
| `release_again` | NoRevertOfRevert (violated) | a rollback, aligned to dev, is promoted as a no-op and reverted by the next breach |
| `release_shallow` | RevertRestores (violated) | a breach while dev is one commit ahead of prod: the Revert of a shallow clone takes every file off prod |
| `fixrun_safety` | HeldWhileWorking | no slot leaks however a Fix ends, and the shared clone has one Fix at a time; no sweep takes a running Fix's worktree |
| | OutcomeIsTrue | over all attempts, delivered means a push reached the branch, and a push that did is delivered or the Fix ends with an error; success means an agent that ran to its end and is not blocked, and a green gate where it is looked at again |
| `gates_level` | LevelChanged (violated) | a resolved and a firing alert of one repo make a second breach of one sustained breach |
| `console_safety` | AllIsFresh | All returns every record whose Append had returned when it was called |
| | SentOnce | a stream has no gap, overlap or disorder, but for full buffers and records published out of order |
| | NothingUnseen | the console sees every end of a Fix, unless a channel was full; the output it shows has no hole, or the tail that fills it is on its way, but for a Fix that had lines dropped and no snapshot since |
| | EndedStays | a late poll opens no ended card |
| | QueueIsHonest | a row of the PR queue that GitHub answered for was so at some moment of the request, any other is as recorded; its CI state is its worst check |
| `agentrun` | SuccessIsWhole | a run answered as a success ended well and was read to its last byte, whatever killer was about to act |
| | KeepsTail | what is kept is the end of what was printed, whatever sizes it came in |
| | EveryRunEnds | Run and its watchdog end, whatever the CLI does and whoever holds its pipe |
| `sessions_safety` | RecordsServe | a recording holds one Fix's files, each of its own attempt, and no sweep takes it until session.retain after its Fix began, however long that runs; a Fix is told of the last ended Fixes like it, and truly |
| | OnlyGranted | a session opens only what the issuer gave its user within the session's time, whatever tabs, keys and groups do |
| | FetchesApart | the issuer is asked for its keys at most once a minute, whether it answers or not |
| `tokens_scope` | ScopeSuffices (violated) | an installation token lacks permissions of calls the code makes |

Each run but those that refute also checks the types of its module (`TypeOK`), or of each
part of it (`TypesOK`). Properties that are the conjunction of two of one module, or of a
part, say so where they are defined.

### Bounds, and why they are enough

- `fanout`: two repos, two sources, worker channels of two and Signals of two, four
  signals. WorkerCap equals the number of sources, the least the assumption allows, so a
  channel is full as often as it can be; four signals are two of one kind racing the
  drain while two others are kept aside. Proofs remove the bound for the safety part.
- `fixladder_safety`: three commits (one red, two pushed by its Fix: the shortest case in
  which remembering only the last push is wrong), up to four attempts of a run, two ticks
  with a window of one, so that entries expire. `Small` trades commits for attempts and for
  Fixes on record: tip and attempt multiply to four at most, tip and the commits on record add
  up to four at most, and with three commits none is green; the theorems need none of it.
  With it: three deliveries, of which a set of two ids has to forget one, two requests at
  once, a channel of one signal, ids that live for two of three moments, one restart; two
  workflows of a pushed commit, a red one and another push's, four ticks to time out in and
  three polls of the gate; a token of five ticks with a margin of two against seven ticks,
  so that one ends and the next is minted, two callers of the API client and one of git.
- `fleet_safety`: an upstream with two leaves, circuit at three, one flap cycle. Two
  leaves are what it takes for both to name the same upstream at once. With it: three
  records of two workers, in a new database and in one without an index, of two repos of
  which one's name begins with the other's, and four kinds of signals with any outcome.
- `deploy_safety`: one Signals slot (always contended), one smoke slot, two requests, two
  commits, two diagnostics; and graphs of five commits: history, a gated commit, its carry, a
  hotfix or a racing push, and a revert, with one hotfix and one merge at most, and of four
  in a shallow clone, where dev can be one and two commits ahead of prod. `gates_level` needs
  two alerts, `release_again` and `release_shallow` four commits.
- `fixrun_safety`: two Fixes, two repos, two providers, two attempts, and four settings
  that between them have every switch on and off: the shared clone and worktrees, each with
  pull requests and with direct pushes; the gate is looked at again in the second only,
  since `validate` refuses it in pr mode.
- `console_safety`: two appenders (records can be published out of order), one
  reader, one stream, ring and channel of two against four records, so both overflow; two
  Fixes, channels of one, tails of two lines against three lines; two PRs for one slot, and
  check runs in up to two pages.
- `agentrun`: a tail of three bytes, a pipe of seven and eleven bytes printed: pieces
  shorter than, as long as and more than twice as long as the tail, before and after it wraps.
- `sessions_safety`: two Fixes of svc, whose second name in one second is the first name
  of svc-1, and one of svc-1; one collision suffix, then none is left; two attempts of one
  Fix, one Fix to be told of, two ticks with recordings kept for two and Fixes of any length,
  so that a sweep meets old and running ones, and running ones that are old; one kill of the
  daemon. `Small`: one Fix at most outlives the retention, beside one
  other, and none after a kill. Two tabs of one
  browser, two keys, a session, a flow and a minute between fetches against three minutes,
  so that each of them ends; one move between groups.

### Fairness

`fanout` and `agentrun` state liveness. The `LiveSpec` of FanOut makes the dispatcher and
each worker's receive weakly fair - the Go scheduler runs every goroutine that can step, and
a select with a ready case proceeds - and assumes that `handle` returns for one of the two
repos only (`Terminating`): the other may hold its worker for ever, as an hour-long Fix
practically does. Nothing is assumed of pollers, webhooks or cancellation.

The `LiveSpec` of AgentRun lets goroutines that can step do so, and two timers expire: the
context's, which `Run` always bounds, and WaitDelay, which `configureKillGroup` sets.
Neither the CLI nor what it spawned is assumed to end, to print or to close its pipe.

### What the refuting runs found

Four statements of comments do not hold; each is an entry under "findings" with the line
it quotes. (1) A Revert's commit passes the dev gate, is recorded as a Promote and can
then be reverted itself (`dispatch.go:1386`). (2) The Alertmanager route keeps one edge
per repo and no alert identities, so a mixed notification flips it twice
(`github.go:648`). (3) `tokenPermissions` says no code path needs checks or statuses, and
asks only to read Actions (`auth.go:109`, `auth.go:144`); the PR queue lists check runs and the
combined status (`prci.go:71`, `prci.go:97`) and the ladder reruns jobs (`rerun.go:16`).
(4) Depth 2 does not keep a parent for `git revert HEAD` (`manager.go:302`): a Revert fetches
prod and then dev, and the second fetch makes the parents of dev's tip the clone's boundary.
When dev is one commit ahead, prod's tip is that parent; git then takes it for a first commit,
and to revert a first commit is to delete all its files.

Known and not counted as disagreements: in a shallow clone a Promote is refused as not a
fast-forward when dev is two or more commits ahead of prod, although dev contains prod
(`fastforward.go:147`): the same boundary hides it, and it stays so until an operator
steps in; `outputSub.lost` is one flag for all Fixes, so another Fix's snapshot clears it,
and output is shown with a hole nobody marked (NothingUnseen excepts it). A red dev gate
is fixed whoever pushed the commit, since `selfCausedOrStale` is for Source ci only
(`loop.go:527`): the daemon's own push may be fixed again if it fails there. The daemon does
not have the SHA of every commit it caused: not of a push that lands but is answered with an
error, nor of one whose HEAD it cannot read, nor, in the shared clone, of any
(SelfCausedNotFixed is of those it has). A push that lands with an error is reported as not
delivered, though the Fix then ends with an error (OutcomeIsTrue says which). Without
fix_reverify an agent that leaves no verdict line ends clean, although
`verdict.go:34-35` says that the gate re-check is what decides. With an App and no repo on
GitHub tokens are for the whole installation (`auth.go:59`). A Fix that runs for longer
than session.retain may lose its recording (RecordsServe demands it until then). A clean exit
just after the watchdog has decided is reported as a stall; a manual Fix's pushes are not
entered in `ownSHA` (SelfCausedNotFixed speaks of Fixes of commits); a Promote is live before it is
recorded, so one whose alignment fails is off the record; a patient-zero mark may carry
over into the next episode; `HasCommits` compares with a ref that other Fixes of the repo
move (`worktree.go:197`); a recording whose Fix got no worktree is never closed; `seed` in
the console ends no card, so a missed end shows as running. A run that registers when the
others of its commit are over is not waited for (`main.go:889`), and a cancelled run
counts as failed; `validate` refuses reverification in pr mode, so a PR's Fix is judged by
nobody but its checks. A second request of one delivery is answered as seen while the
first still waits for room, and a restart then loses the signal (TakenIsSent speaks of one
process). The promote stage and the last Promote of the pages count failed ones, as do the
numbers of the overview; the KPIs do not, and to the router a failed record still ends the
stretch by which a Fix is judged (ViewsAgree states each difference). A default Argo app
shared by several repos is the first one's only.

## 4. What is proved

| Module | Theorems (property of a run) | Inductive invariant |
|---|---|---|
| `FanOutProofs` | TypeCorrect (TypeOK), DispatcherNeverBlocks (SendNeverBlocks), InOrder (HandledInOrder), FanOutRefines (ImplementsLatestWins) | `IInv` = TypeOK, Shape, OnePerSource, ArrivalOrder |
| `FixLadderProofs` | TypeCorrect, ClaimsReleased, NoFixOfOwnDeeds (SelfCausedNotFixed), ExactClaims (ClaimIsExact), OneRerun | `IInv` = TypeOK, InHand, ClaimReleased, OwnRemembered, RerunRemembered, FixRemembered, LatchedIsFixed, Checked, OnRecord |
| | TokensDoServe (TokensServe) | `TokensIInv` = TokensTypeOK, AppHeld, CacheHolds, MintAlone |
| | VerdictStaysItsOwn (VerdictIsItsOwn) | `ReverifyIInv` = ReverifyTypeOK, InTime, Judged |
| | TakenStaysSent (TakenIsSent), TakenStaysOnce (TakenOnce) | `IntakeIInv` = LimiterOK, IdsOK, DoorOK (the types), WithinRate, TakenGoes, Remembered |
| | LadderTypesCorrect (TypesOK) | those of the parts |
| `FixRunProofs` | TypeCorrect (TypeOK), HeldWhileItWorks (HeldWhileWorking), OutcomeStaysTrue (OutcomeIsTrue) | `IInv` = TypeOK, SlotsAreHeld, OneInClone, LiveTreeStands, DeliveredAgrees, CleanSoFar |
| `AgentRunProofs` | TypeCorrect (TypeOK), SuccessWasRead (SuccessIsWhole), TailIsKept (KeepsTail) | `IInv` = Started, Ended, Settled; `TailIInv` = TypeOK, HoldsLast |
| `FleetProofs` | BreachesAreHeld (BreachesHold), TroubleStaysBounded (TroubleIsBounded) | `IInv` = TypeOK, PastDecide, StandingBreaches, MeantIsMarked, FlapRoom |
| | IndexStaysExact, ViewsAlwaysAgree (ViewsAgree), FleetTypesCorrect (TypesOK) | `ViewsIInv` = ViewsTyped, IndexIsExact, OpenFirst, RoomLeft, TicksStamped; `Dates` |
| `DeployProofs` | SlotsStayHeld (SlotsHeld), SignalsStayEarned (SignalsAreEarned), PollerSpeaksOnEdges (SpeaksOnEdges) | `GatesIInv` = TypeOK, PollerSignal, DeliverySignals, MadeOf, SlotsHeld, OneMemory, EdgesCount |
| | ReleasesStayWhole (ReleasesWhole), ProdAlwaysMovesRightly (ProdMovesRightly) | `ReleaseIInv` = ReleaseTypeOK, Graph, OnBranches, InHand |
| | DeployTypesCorrect (TypesOK) | those of the parts |
| `ConsoleProofs` | FreshReads (AllIsFresh) | StoreOK, CacheComplete, FillComplete, GensBehind, OutIsFresh |
| | AllIsSentOnce (SentOnce) | `HubIInv` = HubOK, Numbered, RingOrdered, Served |
| | NothingStaysUnseen (NothingUnseen), HolesAlwaysMarked, EndedCardsStay (EndedStays) | `LiveIInv` = LiveTypeOK, Phases, EndIsComing; `OutputIInv` = QueueTells, TailsTell, NothingYet, Unbroken |
| | QueueStaysHonest (QueueIsHonest), WorstIsTold (WorstWins) | `QueueIInv` = QueueTypeOK, Asked, Told, Witnessed, AllTold |
| | ConsoleTypesCorrect (TypesOK) | those of the parts |
| `SessionsProofs` | RecordsAlwaysServe (RecordsServe) | `SessionsIInv` = RunsOK, DirsOK, SweepsOK, Apart, Deleted, Owned, Contents, ReaderTyped, FoundIsTrue, ToldIsTrue, DueIsCome, NewestFirst |
| | OnlyGrantedEnter (OnlyGranted), SessionsStayGranted, FetchesStayApart (FetchesApart) | `LoginIInv` = LoginTyped, GrantedNow, TokenGranted, SessionGranted, FetchMarked |
| | SessionsTypesCorrect (TypesOK) | `SessionsIInv`; `LoginTypes` = IssuerTypes, KeyTypes, CookieTypes, TabTypes |

A theorem about a part is stated of that part's specification; a behaviour of a composition
is a behaviour of each part (`LadderParts`, `DeployParts`, `ConsoleParts`, `SessionsParts`,
`FleetParts`).

**FanOut**, from `FanOutAssumption` (a worker's channel has room for one signal per
source: 64 against three in the code). SendNeverBlocks is not inductive: that there is
room follows from the channel, together with what the drain holds back, having at most
one signal per source, none of them of the source in hand (`OnePerSource`); a channel with
WorkerCap signals would then map injectively into the other sources, of which there are
too few (`FreeSlot`, by the pigeonhole principle on finite sets). HandledInOrder needs
`ArrivalOrder`: numbers in Signals are consecutive, and whatever waits is newer than what
was started of its kind, also while the drain moves signals through `keep`. That FanOut
implements LatestWins is proved action by action: what is pending is the set of signals in
Signals, in the channels, held back or in hand (`PoolOf`, `HeldIn`); the drain only moves
signals between these places, and the one it lets go is of the source in hand and, by
`ArrivalOrder`, older.

**FixLadder**, for every number of commits, attempts, ticks and every window, with direct
pushes, pull requests and agents that push by themselves. The properties speak of histories
(what the daemon knows was pushed, requested, fixed); the code has maps that forget. The invariant links them:
whatever is younger than the window is still in its map and at least as young there
(`OwnRemembered`, `RerunRemembered`, `FixRemembered`), nothing is latched that was not
fixed (`LatchedIsFixed`), and a red completion that has passed
`selfCausedOrStale` stays past it until its Fix starts (`Checked`), since only this worker
adds entries for its repo. In the shared clone the daemon learns of no commit that is
pushed, so only the part about reruns says anything there.

**AuditStream**, for any number of appenders, readers, streams and records. A valid cache holds
every record whose Append has dropped the cache (`CacheComplete`), and what a reader is
about to fill in under an unchanged generation does too (`FillComplete`); the generation
only grows (`GensBehind`). For the streams the invariant says at each phase of
`handleEvents` where a record that the client is owed is: in the ring until the replay,
then sent, in the replay, or in the channel behind older ones only (`InRing`, `InHand`);
a subscription that began after the replay was read would break it.

**LiveView**, for any Fixes, lines, tails and channels. An end that was not dropped is on the
card or in the channel (`EndIsComing`). For the output the invariant links each message in
the channel to what is before it, or to a whole tail that comes with or after it
(`Linked`), and the last one to what was printed (`UpToDate`). The attempt to prove the
property as it was first stated failed for a reason: it demanded that a card has no hole
at any time, but a message that arrives behind a loss is appended before the snapshot that
repairs it (`output.go`, `api.go`); what holds is that the tail that fills the hole is
then on its way, and the property and the invariant now say so. Neither speaks of a Fix that
had lines dropped and no snapshot since: its next line brings the snapshot, unless another
Fix's has cleared the mark; nor of an end that was dropped on a full channel.

**Gates**, for any requests, alerts, slots and capacities. SlotsHeld is inductive.
SignalsAreEarned follows from what is known of a signal while it is made (`PollerSignal`,
`DeliverySignals`: a commit that was on the branch by the time of the probe) and, for the
Alertmanager route, from counting decisions against the edge (`EdgesCount`).
SpeaksOnEdges rests on the poller's memory being its last word (`OneMemory`).

**Release**, for histories of any length, in a clone that is shallow or complete. The commits
form an acyclic graph in which ancestors are closed (`Graph`); each commit carries the set
of its ancestors, so no recursion is needed. `OnBranches` and `InHand` say what the worker
may still rely on although people push between any two of its commands: dev keeps every
commit the gate passed on, and what the worker is about to push was gated, or is the carry
on top of it, when it decided.

**FixRun**, for any Fixes, repos, providers, attempts and settings. The slots are exactly
those of the Fixes that are past acquiring them and not yet past releasing them
(`SlotsAreHeld`), so every way out of a Fix has to return them; the worktree of a running
Fix is in the live set (`LiveTreeStands`). OutcomeIsTrue needs the flag and the history
of pushes to agree over all attempts, but for a push answered with an error, after which
the Fix has failed (`DeliveredAgrees`), and what a Fix without error has from its agent and
its gate (`CleanSoFar`).

**Reverify**, for any runs of a push, interval, attempts and time. A verdict is there at the
end only and is of the runs listed last (`Judged`); runs that are over stay over, so what
was true of them when they were listed is true of them at the end. `InTime` bounds the
waits: a poll comes no later than the time and an interval after it.

**Intake**, for any deliveries, handlers, limit, TTL, rate and burst. The limiter's
property is about every stretch of time, so its invariant is too: what passed since *s*
and the tokens that are left are within the burst and what the time since is worth
(`WithinRate`). TakenOnce needs that an id is in the set with the time it was taken, or
was evicted when it had expired, unless the set was at its limit (`Remembered`); that the
eviction loop goes that far and no further is a lemma on the order of the ids
(`EvictedIs`, `RecordIs`), which rests on there being a least number at which it stops.

**AgentRun**, for every size of tail, pipe and output. After Wait has seen the CLI end it
stays ended (`Ended`), and after Wait has returned nobody holds the pipe and all of it was
copied, unless WaitDelay has passed (`Settled`), which makes the answer an error. Before its first
wrap the tail is the bytes in order; after it, byte i of the buffer is as old as its
circular distance from `head` says (`HoldsLast`). That a write of any size leaves this
true, shorter or longer than the ring, filling it for the first time or going round, are
lemmas on the two writes (`RingWriteHolds`, `TailWriteHolds`), and that reading from
`head` puts the bytes back in order is one on what is returned (`KeptIs`).

**Fleet**, from `FleetAssumption` (finitely many repos, limits that are numbers). Between
`breachCount` and `breachingDeps` the lock is free; what saves the verdict is that only a
repo's own worker lowers its flag, and only when a gate passed, so what handle found in
breach is in `breach` at both reads (`StandingBreaches`). FlapBounded is not inductive: the
verdict is given before the action and the record follows it, so room must be kept by the
worker that is in its action (`FlapRoom`); that one more record makes at most one more
alternation, and that an expired one makes none, are lemmas on sequences
(`TransitionsAppend`, `TransitionsTail`).

**AuditViews**, for any repos, workers, signals, providers, page size and bound, from
`ViewsAssumption` (the marker `Nothing` is no record; sizes are numbers). The index is exact
(`IndexIsExact`) because nobody writes before it was built (`OpenFirst`) and both buckets
are written in one transaction. The types need that the router answers with a provider at
all: of the providers that are fit there is a cheapest, and of the cheapest a first
(`PickIsProvider`). ViewsAgree follows from this and from `Dates`: no two records, written
or about to be, have one time, because each stamp is later than the last - in the code
because stamps are in nanoseconds; with equal times `sort.Slice` may put either record
first. The proof needs no induction over the log, because sorting, filtering and cutting
it are defined by where things are: `Sorted` has at place n the member with n - 1 before
it, and a listing of a set along an order is that one and no other (`SortedLists`,
`SortedIs`, by counting); `Pick` is what stands at a set of places.
From these:

- The walk back from `seekPrefixEnd` is the repo's records in reverse, whatever other
  repos' keys are near (`BackIs`); Since is a suffix of them (`SinceIs`), and the whole of
  what is young enough if they are in step (`SinceAgrees`). A page filters before or after
  it sorts to the same end (`TimelineAgrees`, `RowAgrees`).
- Counts agree by bijections between places: of the log and of its records by time
  (`CountIs`, `FeedAgrees`, `OverviewCounts`), of fixes and of the providers they are
  credited to (`Credited`, by `PartsSum`). A revert spoils one fix at most because the fix
  before it is unique (`RevertsSpoil`). KPIs and router judge the fixes of a log alike when
  it is in step and nothing in it failed (`JudgedAlike`); the KPIs sort and drop what failed,
  the router does neither.
- What LastPromote finds by the index, the newest Promote that worked and has its
  promoted_sha, is on the page, or something newer is
  (`PromoteIsShown`).

**Tokens**, assuming that a token lives no shorter than the fifty minutes the daemon
believes in when GitHub tells no end, and that the margin is below them. What is cached is
for the configuration's repos, or for the whole installation when none of them is on GitHub,
and is believed to end no later than it does (`Sound`); the
lock is held by one (`MintAlone`), and while it is, the reason to mint stands, because
only the holder writes the cache.

**Sessions**, for any Fixes, however long they take, and any repos, slugs, times, sweeps and
retention of a second or more. No lock ties a sweep to the
Fixes that run, nor two Fixes to each other; what saves them is that a name carries the
time at which its Fix began (`Named`). So whatever was deleted is older than Retain
(`Deleted`), a directory whose name is free was never another's (`FreeIsNew`) - `Start` tries
its names at once, so a recording of its own second cannot be old by then - and no
sweep finds a recording old before (`SweptIsOld`, `Standing`). That `Mkdir` fails on
a name that is there does the rest: two Fixes never have one directory (`Apart`), each
directory is some Fix's (`Owned`) and holds what that Fix wrote, as far as it has come
(`Contents`). What Recent owes its reader is at every step still to be loaded, found, told,
or gone from disk (`DueIsCome`), and whatever is told is no older than what is left
(`NewestFirst`).

**Login**, for any lifetimes. The three records of a role - what the issuer grants, the
token in a callback, the cookie - are linked by the time each was made (`GrantedNow`,
`TokenGranted`, `SessionGranted`): a cookie ends no later than the two lifetimes after
its role was last granted, so one that is not over is recent. The keys are asked for only
when the last mark is more than a minute old, and every fetch has its mark (`FetchMarked`).

**PRQueue**, for any number of PRs, lookups at once and pages. While the request is under
way every row is witnessed as it is on GitHub (`Witnessed`), so what a lookup reads is
among what is witnessed (`Told`). WorstWins needs no induction: with every page answered
and within the limit `ReadOf` is all of them (`AllRead`).

The histories in the modules (variables marked *history*) are never read by a guard.

Only model-checked: all liveness (NobodyWaits, EveryRunEnds), which the prover does not
reason about, as it does not of ENABLED. Every other property of the passing runs, 37 of 39,
is a theorem. The one operator whose value for every input would need induction over data
in this prover, a fold, is avoided where a theorem depends on it: sums are the sizes of
disjoint unions.

## 5. What is not modelled

Configuration and its validation, command line, demo, MCP server, one-shot mode and probes:
they run before the daemon's loop, or beside it without sharing state (PROJECT.json names
each with its reason). Within modelled components: a verdict of Source ci that is polled, of an
external gate (`main.go:591`), which has a commit but no run, is no signal of FixLadder; prompt and evidence text, verdict and
cost parsing, that a signature proves what it signs, YAML editing, bbolt itself; the
per-repo git lock and the cloning behind it; job logs; the lists of sessions that console
and command line show; pages of files and settings.

## 6. Plan

Done, in this order: FanOut with LatestWins and proofs; FixLadder and proofs; Release;
Fleet; Gates; FixRun; AuditStream and proofs; LiveView; AgentRun and proof; Sessions;
AuditViews; PRQueue; Login; Reverify; Tokens; Intake; proofs of Fleet, Tokens, Login and
PRQueue; the refinement of LatestWins; proofs of FixRun, Gates, Release, the streams of
AuditStream, LiveView, Reverify and Intake; the compositions; the tail of AgentRun; proofs
of Sessions, the types of Login, the index of AuditViews and its views. Next:

1. `Clones`: the per-repo lock, `EnsureCloned`'s cache of what the remote has, repair, and
   worktrees sharing one clone (`repos/manager.go`, `worktree.go`).
2. The tag carry as a function over values files (`promote/values.go`).
3. Start-up and shutdown of the daemon (`cmd/xdlc-agent/main.go`), and which configurations
   `validate` lets through.
