------------------------------- MODULE Gates -------------------------------
(***************************************************************************)
(* The feeders of Signals, for one repository: the poller of one gate, and *)
(* the HTTP handlers - Alertmanager, Argo CD, the API - each delivery in a *)
(* goroutine of its own.  Poller and Alertmanager are edge-triggered, each *)
(* by a state of its own; the edge is recorded under a lock and the signal *)
(* sent after it.  Argo CD makes the dev-smoke gate run, in one of a few   *)
(* slots.  At the other end the repo's worker keeps the breach flag.       *)
(***************************************************************************)
EXTENDS Naturals, Sequences, FiniteSets, Functions

CONSTANTS
  Requests,    \* HTTP requests; each is served once
  Alerts,      \* Alertmanager's alerts that carry the repo's label
  Source,      \* the polled gate: "dev-gate", pinned to a commit, or "prod-health"
  Reasons,     \* diagnostics of a gate that cannot run
  SignalsCap,  \* capacity of Orchestrator.Signals
  MaxChecks,   \* Server.MaxConcurrentChecks
  MaxTip       \* bound of the model: commits ever on the dev branch

ASSUME GatesAssumption ==
  /\ IsFiniteSet(Requests) /\ IsFiniteSet(Alerts)
  /\ Source \in {"dev-gate", "prod-health"}
  /\ {SignalsCap, MaxChecks, MaxTip} \subseteq Nat \ {0}

NoSHA == 0
SHAs == 1 .. MaxTip
Kinds == {"pass", "fail", "breach", "blocked"}
\* seen is history: dev's tip when the probe the verdict comes from started
Signal == [source : {"ci", "dev-gate", "prod-health"}, kind : Kinds,
           sha : SHAs \cup {NoSHA}, seen : SHAs \cup {NoSHA}]
Unprobed(source, kind) ==
  [source |-> source, kind |-> kind, sha |-> NoSHA, seen |-> NoSHA]
NoSignal == Unprobed(Source, "blocked")

VARIABLES
  tip,      \* the dev branch's tip
  alert,    \* alert[x]: what Alertmanager knows of an alert
  signals,  \* Orchestrator.Signals
  breach,   \* Orchestrator.breach of the repo
  ppc,      \* where checkOne is
  psig,     \* the signal it is making
  alive,    \* is the tick's context alive?
  last,     \* Poller.last: the kind and SHA last taken as an edge
  episode,  \* Poller.blocked: the reason last reported, if it still stands
  recent,   \* ... and is that within BlockedRepeatWindow?
  found,    \* history: the last verdict of the polled gate
  told,     \* history: the last verdict the poller decided to send
  rpc,      \* rpc[d]: where the handler of request d is
  todo,     \* todo[d]: what its payload still says of alerts
  rsig,     \* rsig[d]: the signal it is making
  slots,    \* smokeSem: slots taken
  prodEdge, \* Server.prodEdge of the repo
  breaches, \* history: breach signals the Alertmanager route decided to send
  resolves, \* history: recoveries it decided to send
  well      \* history: no alert fired at some moment since the last breach

env == <<tip, alert>>
memory == <<last, episode, recent>>
past == <<found, told>>
poller == <<ppc, psig, alive, memory, past>>
edges == <<prodEdge, breaches, resolves, well>>
handlers == <<rpc, todo, rsig, slots, edges>>
vars == <<env, signals, breach, poller, handlers>>

NoVerdict == <<"none", NoSHA>>
Verdict == {NoVerdict} \cup ({"pass", "fail", "breach"} \X (SHAs \cup {NoSHA}))
NoReason == "none"

\* The type of every variable, and no more smoke checks than slots (smokeSem).
TypeOK ==
  /\ tip \in SHAs
  /\ alert \in [Alerts -> {"quiet", "firing", "resolved"}]
  /\ signals \in Seq(Signal) /\ Len(signals) <= SignalsCap
  /\ breach \in BOOLEAN
  /\ ppc \in {"idle", "sha", "probe", "check", "send"}
  /\ psig \in Signal
  /\ alive \in BOOLEAN
  /\ {last, found, told} \subseteq Verdict
  /\ episode \in Reasons \cup {NoReason}
  /\ recent \in BOOLEAN
  /\ rpc \in [Requests -> {"new", "alerts", "sha", "probe", "check", "emit", "done"}]
  /\ todo \in [Requests -> Seq({"pass", "breach"})]
  /\ rsig \in [Requests -> Signal]
  /\ slots \in 0 .. MaxChecks
  /\ prodEdge \in {"none", "pass", "breach"}
  /\ breaches \in Nat /\ resolves \in Nat
  /\ well \in BOOLEAN

Init ==
  /\ tip = 1
  /\ alert = [x \in Alerts |-> "quiet"]
  /\ signals = <<>>
  /\ breach = FALSE
  /\ ppc = "idle" /\ psig = NoSignal /\ alive = FALSE
  /\ last = NoVerdict /\ found = NoVerdict /\ told = NoVerdict
  /\ episode = NoReason /\ recent = FALSE
  /\ rpc = [d \in Requests |-> "new"]
  /\ todo = [d \in Requests |-> <<>>]
  /\ rsig = [d \in Requests |-> NoSignal]
  /\ slots = 0
  /\ prodEdge = "none"
  /\ breaches = 0 /\ resolves = 0 /\ well = TRUE

-----------------------------------------------------------------------------
(* The branch, Alertmanager, the channel and the worker *)

Push ==
  /\ tip < MaxTip
  /\ tip' = tip + 1
  /\ UNCHANGED <<alert, signals, breach, poller, handlers>>

Fire(x) ==
  /\ alert[x] # "firing"
  /\ alert' = [alert EXCEPT ![x] = "firing"]
  /\ UNCHANGED <<tip, signals, breach, poller, handlers>>

Resolve(x) ==
  /\ alert[x] = "firing"
  /\ alert' = [alert EXCEPT ![x] = "resolved"]
  /\ well' = (well \/ \A y \in Alerts : alert'[y] # "firing")
  /\ UNCHANGED <<tip, signals, breach, poller, rpc, todo, rsig, slots, prodEdge,
                 breaches, resolves>>

Put(s) ==
  /\ Len(signals) < SignalsCap
  /\ signals' = Append(signals, s)

\* The worker handles the oldest signal: updateBreach.
Handle ==
  /\ signals # <<>>
  /\ signals' = Tail(signals)
  /\ breach' = IF Head(signals).source # "prod-health" THEN breach
               ELSE IF Head(signals).kind = "breach" THEN TRUE
               ELSE IF Head(signals).kind = "pass" THEN FALSE ELSE breach
  /\ UNCHANGED <<env, poller, handlers>>

-----------------------------------------------------------------------------
(* Poller.tick and checkOne *)

Pinned == Source = "dev-gate"

\* checkOne returns without a signal.
Return == ppc' = "idle" /\ psig' = NoSignal

Tick ==
  /\ ppc = "idle"
  /\ ppc' = IF Pinned THEN "sha" ELSE "probe"
  /\ alive' = TRUE
  /\ UNCHANGED <<env, signals, breach, psig, memory, past, handlers>>

\* The tick's deadline passes, or the daemon stops.
Deadline ==
  /\ ppc # "idle"
  /\ alive
  /\ alive' = FALSE
  /\ UNCHANGED <<env, signals, breach, ppc, psig, memory, past, handlers>>

\* The commit is read before the check starts; without it there is no check.
ReadSHA ==
  /\ ppc = "sha"
  /\ \/ psig' = [psig EXCEPT !.sha = tip] /\ ppc' = "probe"
     \/ Return
  /\ UNCHANGED <<env, signals, breach, alive, memory, past, handlers>>

\* Mutant of Probe: the commit is read when the check is over.
ProbeFirst ==
  /\ ppc = "probe"
  /\ psig' \in {[psig EXCEPT !.seen = t, !.sha = IF Pinned THEN tip ELSE NoSHA] :
                  t \in psig.sha .. tip}
  /\ ppc' = "check"
  /\ UNCHANGED <<env, signals, breach, alive, memory, past, handlers>>

\* Gate.Check starts.
Probe ==
  /\ ppc = "probe"
  /\ psig' = [psig EXCEPT !.seen = tip]
  /\ ppc' = "check"
  /\ UNCHANGED <<env, signals, breach, alive, memory, past, handlers>>

\* Mutant of IsEdge: the commit is no part of the edge.
IsEdgeKind(k) == last[1] # k

IsEdge(k) == last # <<k, psig.sha>>

\* Check returns that the gate passes, or not: clearBlocked, then edge.
Checked(k) ==
  /\ ppc = "check"
  /\ episode' = NoReason /\ recent' = FALSE
  /\ found' = <<k, psig.sha>>
  /\ IF IsEdge(k)
     THEN /\ last' = <<k, psig.sha>> /\ told' = <<k, psig.sha>>
          /\ psig' = [psig EXCEPT !.kind = k]
          /\ ppc' = "send"
     ELSE Return /\ UNCHANGED <<last, told>>
  /\ UNCHANGED <<env, signals, breach, alive, handlers>>

\* blockedEpisode: is this failure news?
News(reason) == episode = NoReason \/ (episode # reason /\ ~recent)

\* Mutant of Blocked: a check that cannot run is an edge like any other.
BlockedEdge(reason) ==
  /\ ppc = "check"
  /\ alive /\ News(reason)
  /\ episode' = reason /\ recent' = TRUE
  /\ last' = NoVerdict
  /\ ppc' = "send"
  /\ UNCHANGED <<env, signals, breach, psig, alive, past, handlers>>

\* Check fails while its context is alive: the gate could not run.
Blocked(reason) ==
  /\ ppc = "check"
  /\ alive
  /\ IF News(reason)
     THEN episode' = reason /\ recent' = TRUE /\ ppc' = "send" /\ UNCHANGED psig
     ELSE Return /\ UNCHANGED <<episode, recent>>
  /\ UNCHANGED <<env, signals, breach, alive, last, past, handlers>>

\* Check fails because its context is done.
TimedOut ==
  /\ ppc = "check"
  /\ ~alive
  /\ Return
  /\ UNCHANGED <<env, signals, breach, alive, memory, past, handlers>>

\* send's select: the channel has room, or the context is done.
Sent ==
  /\ ppc = "send"
  /\ \/ Put(psig)
     \/ ~alive /\ UNCHANGED signals
  /\ Return
  /\ UNCHANGED <<env, breach, alive, memory, past, handlers>>

WindowPasses ==
  /\ recent
  /\ recent' = FALSE
  /\ UNCHANGED <<env, signals, breach, ppc, psig, alive, last, episode, past,
                 handlers>>

-----------------------------------------------------------------------------
(* handleAlertmanager *)

\* What Alertmanager can say now: of some of its alerts that are not quiet,
\* in some order, whether they fire or are resolved.
Payloads ==
  {[i \in DOMAIN q |-> IF alert[q[i]] = "firing" THEN "breach" ELSE "pass"] :
     q \in UNION {Injection(1 .. Cardinality(S), S) :
                    S \in SUBSET {x \in Alerts : alert[x] # "quiet"} \ {{}}}}

Notify(d) ==
  /\ rpc[d] = "new"
  /\ \E p \in Payloads : todo' = [todo EXCEPT ![d] = p]
  /\ rpc' = [rpc EXCEPT ![d] = "alerts"]
  /\ UNCHANGED <<env, signals, breach, poller, rsig, slots, edges>>

\* Mutant of AlertEdge: the worker's flag, set when a signal is handled,
\* stands in for the handlers' own state.
AlertEdgeOfFlag(k) == breach # (k = "breach")

AlertEdge(k) == prodEdge # k

\* prodHealthEdge, under its lock, of the next alert of the payload.
NextAlert(d) ==
  /\ rpc[d] = "alerts" /\ todo[d] # <<>>
  /\ todo' = [todo EXCEPT ![d] = Tail(@)]
  /\ LET k == Head(todo[d]) IN
     IF AlertEdge(k)
     THEN /\ prodEdge' = k
          /\ rsig' = [rsig EXCEPT ![d] = Unprobed("prod-health", k)]
          /\ rpc' = [rpc EXCEPT ![d] = "emit"]
          /\ breaches' = breaches + IF k = "breach" THEN 1 ELSE 0
          /\ resolves' = resolves + IF k = "pass" THEN 1 ELSE 0
          /\ well' = IF k = "breach" THEN \A x \in Alerts : alert[x] # "firing"
                     ELSE well
     ELSE UNCHANGED <<rpc, rsig, edges>>
  /\ UNCHANGED <<env, signals, breach, poller, slots>>

-----------------------------------------------------------------------------
(* handleArgoCD and handleAction *)

\* A notification is checked if a slot is free, else refused.
Sync(d) ==
  /\ rpc[d] = "new"
  /\ IF slots < MaxChecks
     THEN /\ slots' = slots + 1
          /\ rpc' = [rpc EXCEPT ![d] = "sha"]
          /\ rsig' = [rsig EXCEPT ![d].source = "dev-gate"]
     ELSE /\ rpc' = [rpc EXCEPT ![d] = "done"]
          /\ UNCHANGED <<slots, rsig>>
  /\ UNCHANGED <<env, signals, breach, poller, todo, edges>>

HasSlot(d) ==
  rpc[d] \in {"sha", "probe", "check"} \/ (rpc[d] = "emit" /\ rsig[d].seen # NoSHA)

\* Mutants of Release: the slot is kept; a slot is given back by everyone.
ReleaseNever(d) == UNCHANGED slots
ReleaseAll(d) == slots' = slots - 1

\* defer release(), for a handler that has a slot
Release(d) == slots' = IF HasSlot(d) THEN slots - 1 ELSE slots

\* ResolveSHA, which may fail
SyncSHA(d) ==
  /\ rpc[d] = "sha"
  /\ \/ /\ rsig' = [rsig EXCEPT ![d].sha = tip]
        /\ rpc' = [rpc EXCEPT ![d] = "probe"]
        /\ UNCHANGED slots
     \/ /\ rpc' = [rpc EXCEPT ![d] = "done"]
        /\ Release(d)
        /\ rsig' = [rsig EXCEPT ![d] = NoSignal]
  /\ UNCHANGED <<env, signals, breach, poller, todo, edges>>

SyncProbe(d) ==
  /\ rpc[d] = "probe"
  /\ rsig' = [rsig EXCEPT ![d].seen = tip]
  /\ rpc' = [rpc EXCEPT ![d] = "check"]
  /\ UNCHANGED <<env, signals, breach, poller, todo, slots, edges>>

\* CheckSmoke passes, fails or could not run: each is emitted, on no edge.
SyncChecked(d, k) ==
  /\ rpc[d] = "check"
  /\ rsig' = [rsig EXCEPT ![d].kind = k]
  /\ rpc' = [rpc EXCEPT ![d] = "emit"]
  /\ UNCHANGED <<env, signals, breach, poller, todo, slots, edges>>

\* signalForManualAction: an operator's fix, promote or revert is a signal like
\* a gate's, with no commit and on no edge.
ManualSignals ==
  {Unprobed("ci", "fail"), Unprobed("dev-gate", "pass"), Unprobed("prod-health", "breach")}

Manual(d) ==
  /\ rpc[d] = "new"
  /\ rpc' = [rpc EXCEPT ![d] = "emit"]
  /\ \E s \in ManualSignals : rsig' = [rsig EXCEPT ![d] = s]
  /\ UNCHANGED <<env, signals, breach, poller, todo, slots, edges>>

\* emit, or Enqueue: a plain send.  The handler returns, or goes on to the
\* next alert.
Emit(d) ==
  /\ rpc[d] = "emit"
  /\ Put(rsig[d])
  /\ Release(d)
  /\ rpc' = [rpc EXCEPT ![d] = IF todo[d] = <<>> THEN "done" ELSE "alerts"]
  /\ rsig' = [rsig EXCEPT ![d] = NoSignal]
  /\ UNCHANGED <<env, breach, poller, todo, edges>>

\* Every alert of the payload is done with.
Answer(d) ==
  /\ rpc[d] = "alerts" /\ todo[d] = <<>>
  /\ rpc' = [rpc EXCEPT ![d] = "done"]
  /\ UNCHANGED <<env, signals, breach, poller, todo, rsig, slots, edges>>

-----------------------------------------------------------------------------
Next ==
  \/ Push \/ Handle
  \/ \E x \in Alerts : Fire(x) \/ Resolve(x)
  \/ Tick \/ Deadline \/ ReadSHA \/ Probe \/ TimedOut \/ Sent \/ WindowPasses
  \/ \E k \in {"pass", IF Source = "prod-health" THEN "breach" ELSE "fail"} : Checked(k)
  \/ \E reason \in Reasons : Blocked(reason)
  \/ \E d \in Requests :
       \/ Notify(d) \/ NextAlert(d) \/ Answer(d) \/ Manual(d)
       \/ Sync(d) \/ SyncSHA(d) \/ SyncProbe(d) \/ Emit(d)
       \/ \E k \in {"pass", "fail", "blocked"} : SyncChecked(d, k)

Spec == Init /\ [][Next]_vars

-----------------------------------------------------------------------------
(* Properties *)

\* A verdict of the dev gate is about its commit or a later one: the commit a
\* Promote is pinned to was on the branch when the probe it passed began, so
\* a commit that lands during the probe never inherits the verdict (the
\* comments in checkOne and handleArgoCD).
MadeOf(s) == s.source = "dev-gate" /\ s.seen # NoSHA => s.sha # NoSHA /\ s.sha <= s.seen
PinnedBeforeProbe ==
  /\ MadeOf(psig)
  /\ \A d \in Requests : MadeOf(rsig[d])
  /\ \A i \in DOMAIN signals : MadeOf(signals[i])

\* The slots taken are the deliveries being verified: no way out of the handler
\* - refused, no commit, emitted - leaks one, or gives back another's.
SlotsHeld == slots = Cardinality({d \in Requests : HasSlot(d)})

\* The poller speaks exactly when its verdict changes.  It never reports one twice in a
\* row, not even when checks that could not run, and were reported, lie between: a
\* sustained breach would revert its own revert (blockedEpisode's comment).  And when it
\* rests, the last it decided to send is the latest found: a second commit that passes
\* is never taken for the first (edge's comment).
SpeaksOnEdges ==
  [][ /\ ppc = "check" /\ ppc' = "send" /\ psig'.kind # "blocked"
           => <<psig'.kind, psig'.sha>> # told
      /\ ppc' = "idle" => told' = found']_vars

\* The Alertmanager route decides for a breach - a Revert - again only after it
\* has decided for a recovery, whatever deliveries overlap and however far
\* behind the worker is (prodHealthEdge's comment).
OneBreachPerRecovery == breaches <= resolves + 1

\* A breach is decided for again only if, since the last one, there was a
\* moment when no alert of the repo fired: prod-health is a level, and the
\* question prodHealthEdge asks is whether the level has changed.
LevelChanged == [][breaches' > breaches => well]_vars

\* What a signal says was so when it is decided for: the gate's verdict is of the commit
\* it names, and a breach is of prod as it was not after the last one.
SignalsAreEarned == PinnedBeforeProbe /\ OneBreachPerRecovery
=============================================================================
