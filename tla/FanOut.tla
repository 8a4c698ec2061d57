------------------------------- MODULE FanOut -------------------------------
(***************************************************************************)
(* Orchestrator.Run: one dispatcher goroutine reads Signals and fans out   *)
(* to one worker goroutine per repo, each behind its own bounded channel.  *)
(* Before it queues a signal the dispatcher drains that channel of pending *)
(* signals of the same Source ("latest wins") one receive at a time, while *)
(* the worker keeps receiving from the other end.  Gate pollers, webhooks  *)
(* and the API feed Signals; so does a worker, when handle queues a        *)
(* patient-zero Fix for an upstream repo.                                  *)
(***************************************************************************)
EXTENDS Naturals, Sequences, FiniteSets, Functions

CONSTANTS
  Repos,       \* repositories of the fleet
  Sources,     \* where a signal comes from: ci, dev-gate, prod-health
  CI,          \* the Source of a patient-zero signal
  SignalsCap,  \* capacity of Orchestrator.Signals (64 in the code)
  WorkerCap,   \* capacity of a worker's channel (64 in the code)
  MaxSignals,  \* bound of the model: signals ever accepted on Signals
  NoSignal     \* a worker, or the dispatcher, with no signal in hand

\* A signal: what it says is abstracted to its arrival number, which names it
\* and orders it after every signal accepted before it.
Signal == [id : Nat \ {0}, repo : Repos, source : Sources]

ASSUME FanOutAssumption ==
  /\ IsFiniteSet(Sources)
  /\ CI \in Sources
  /\ SignalsCap \in Nat \ {0}
  /\ WorkerCap \in Nat \ {0}
  /\ Cardinality(Sources) <= WorkerCap
  /\ MaxSignals \in Nat
  /\ NoSignal \notin Signal

VARIABLES
  accepted,    \* how many signals the Signals channel has accepted
  signals,     \* Orchestrator.Signals
  queue,       \* queue[r]: the channel of repo r's worker
  busy,        \* busy[r]: the signal r's worker is handling
  owed,        \* owed[r]: upstreams r's worker has yet to offer a patient-zero Fix
  pc,          \* where the dispatcher is in Run and drainSameSource
  hand,        \* the signal the dispatcher has received and not queued yet
  keep,        \* drainSameSource's keep slice
  cancelled,   \* ctx is done
  handled,     \* history: signals a worker has finished handling
  superseded,  \* history: signals dropped by drainSameSource
  abandoned    \* history: the signal Run returned with, unqueued

vars == <<accepted, signals, queue, busy, owed, pc, hand, keep, cancelled,
          handled, superseded, abandoned>>

Pc == {"select", "drain", "requeue", "send", "closed", "returned"}

TypeOK ==
  /\ accepted \in Nat
  /\ signals \in Seq(Signal) /\ Len(signals) <= SignalsCap
  /\ queue \in [Repos -> Seq(Signal)]
  /\ \A r \in Repos : Len(queue[r]) <= WorkerCap
  /\ busy \in [Repos -> Signal \cup {NoSignal}]
  /\ owed \in [Repos -> SUBSET Repos]
  /\ pc \in Pc
  /\ hand \in Signal \cup {NoSignal}
  /\ keep \in Seq(Signal)
  /\ cancelled \in BOOLEAN
  /\ handled \subseteq Signal
  /\ superseded \subseteq Signal
  /\ abandoned \subseteq Signal

Init ==
  /\ accepted = 0
  /\ signals = <<>>
  /\ queue = [r \in Repos |-> <<>>]
  /\ busy = [r \in Repos |-> NoSignal]
  /\ owed = [r \in Repos |-> {}]
  /\ pc = "select"
  /\ hand = NoSignal
  /\ keep = <<>>
  /\ cancelled = FALSE
  /\ handled = {}
  /\ superseded = {}
  /\ abandoned = {}

-----------------------------------------------------------------------------
(* The feeders of Signals *)

\* Mutant of Accept: an unbounded queue in place of the channel.
AcceptUnbounded(r, s) ==
  /\ accepted < MaxSignals
  /\ accepted' = accepted + 1
  /\ signals' = Append(signals, [id |-> accepted + 1, repo |-> r, source |-> s])

\* A signal for repo r reaches the channel, which must have room for it.
Accept(r, s) ==
  /\ Len(signals) < SignalsCap
  /\ accepted < MaxSignals
  /\ accepted' = accepted + 1
  /\ signals' = Append(signals, [id |-> accepted + 1, repo |-> r, source |-> s])

\* A poller, a webhook or the API sends a signal; it blocks while Signals is full.
Emit(r, s) ==
  /\ Accept(r, s)
  /\ UNCHANGED <<queue, busy, owed, pc, hand, keep, cancelled,
                 handled, superseded, abandoned>>

-----------------------------------------------------------------------------
(* The dispatcher goroutine: Run and drainSameSource *)

\* Mutant of Receive: the newest signal is received first.
ReceiveNewest ==
  /\ pc = "select"
  /\ signals # <<>>
  /\ hand' = signals[Len(signals)]
  /\ signals' = SubSeq(signals, 1, Len(signals) - 1)
  /\ pc' = "drain"
  /\ UNCHANGED <<accepted, queue, busy, owed, keep, cancelled,
                 handled, superseded, abandoned>>

\* case s := <-o.Signals
Receive ==
  /\ pc = "select"
  /\ signals # <<>>
  /\ hand' = Head(signals)
  /\ signals' = Tail(signals)
  /\ pc' = "drain"
  /\ UNCHANGED <<accepted, queue, busy, owed, keep, cancelled,
                 handled, superseded, abandoned>>

\* Mutant of DrainOne: the Source test is gone, everything is re-queued.
DrainOneKeepsAll ==
  /\ pc = "drain"
  /\ queue[hand.repo] # <<>>
  /\ keep' = Append(keep, Head(queue[hand.repo]))
  /\ queue' = [queue EXCEPT ![hand.repo] = Tail(@)]
  /\ UNCHANGED <<accepted, signals, busy, owed, pc, hand, cancelled,
                 handled, superseded, abandoned>>

\* Mutant of DrainOne: the Source test is gone, everything pending is dropped.
DrainOneDropsAll ==
  /\ pc = "drain"
  /\ queue[hand.repo] # <<>>
  /\ superseded' = superseded \cup {Head(queue[hand.repo])}
  /\ queue' = [queue EXCEPT ![hand.repo] = Tail(@)]
  /\ UNCHANGED <<accepted, signals, busy, owed, pc, hand, keep, cancelled,
                 handled, abandoned>>

\* case old := <-ch: a same-Source signal is dropped, any other is kept.
DrainOne ==
  /\ pc = "drain"
  /\ queue[hand.repo] # <<>>
  /\ LET old == Head(queue[hand.repo]) IN
       \/ /\ old.source = hand.source
          /\ superseded' = superseded \cup {old}
          /\ UNCHANGED keep
       \/ /\ old.source # hand.source
          /\ keep' = Append(keep, old)
          /\ UNCHANGED superseded
  /\ queue' = [queue EXCEPT ![hand.repo] = Tail(@)]
  /\ UNCHANGED <<accepted, signals, busy, owed, pc, hand, cancelled,
                 handled, abandoned>>

\* default: the channel is empty for now.
DrainDone ==
  /\ pc = "drain"
  /\ queue[hand.repo] = <<>>
  /\ pc' = "requeue"
  /\ UNCHANGED <<accepted, signals, queue, busy, owed, hand, keep, cancelled,
                 handled, superseded, abandoned>>

\* for _, k := range keep { ch <- k }: a blocking send, no ctx.Done case.
Requeue ==
  /\ pc = "requeue"
  /\ keep # <<>>
  /\ Len(queue[hand.repo]) < WorkerCap
  /\ queue' = [queue EXCEPT ![hand.repo] = Append(@, Head(keep))]
  /\ keep' = Tail(keep)
  /\ UNCHANGED <<accepted, signals, busy, owed, pc, hand, cancelled,
                 handled, superseded, abandoned>>

\* Mutant of RequeueDone: what was held back is not sent back.
RequeueForgets ==
  /\ pc = "requeue"
  /\ keep' = <<>>
  /\ pc' = "send"
  /\ UNCHANGED <<accepted, signals, queue, busy, owed, hand, cancelled,
                 handled, superseded, abandoned>>

RequeueDone ==
  /\ pc = "requeue"
  /\ keep = <<>>
  /\ pc' = "send"
  /\ UNCHANGED <<accepted, signals, queue, busy, owed, hand, keep, cancelled,
                 handled, superseded, abandoned>>

\* case ch <- s
Send ==
  /\ pc = "send"
  /\ Len(queue[hand.repo]) < WorkerCap
  /\ queue' = [queue EXCEPT ![hand.repo] = Append(@, hand)]
  /\ hand' = NoSignal
  /\ pc' = "select"
  /\ UNCHANGED <<accepted, signals, busy, owed, keep, cancelled,
                 handled, superseded, abandoned>>

\* case <-ctx.Done(), in either select: Run closes every worker's channel.
\* From the second one the signal in hand goes nowhere.
Exit ==
  /\ cancelled
  /\ pc \in {"select", "send"}
  /\ pc' = "closed"
  /\ hand' = NoSignal
  /\ abandoned' = IF pc = "send" THEN abandoned \cup {hand} ELSE abandoned
  /\ UNCHANGED <<accepted, signals, queue, busy, owed, keep, cancelled,
                 handled, superseded>>

\* wg.Wait: every worker has emptied its closed channel and quit.
Return ==
  /\ pc = "closed"
  /\ \A r \in Repos : queue[r] = <<>> /\ busy[r] = NoSignal
  /\ pc' = "returned"
  /\ UNCHANGED <<accepted, signals, queue, busy, owed, hand, keep, cancelled,
                 handled, superseded, abandoned>>

-----------------------------------------------------------------------------
(* The worker goroutine of repo r *)

\* for s := range ch: handle starts.  If s turns out to be suppressed for its
\* root cause, handle ends by offering a Fix to each upstream it names.
Take(r) ==
  /\ busy[r] = NoSignal
  /\ queue[r] # <<>>
  /\ busy' = [busy EXCEPT ![r] = Head(queue[r])]
  /\ queue' = [queue EXCEPT ![r] = Tail(@)]
  /\ \E ups \in SUBSET (Repos \ {r}) : owed' = [owed EXCEPT ![r] = ups]
  /\ UNCHANGED <<accepted, signals, pc, hand, keep, cancelled,
                 handled, superseded, abandoned>>

\* Mutant of Offer: a plain send, without the default case.
OfferBlocks(r) ==
  /\ \E up \in owed[r] :
       /\ owed' = [owed EXCEPT ![r] = @ \ {up}]
       /\ \/ Accept(up, CI)
          \/ /\ accepted >= MaxSignals
             /\ UNCHANGED <<accepted, signals>>
  /\ UNCHANGED <<queue, busy, pc, hand, keep, cancelled,
                 handled, superseded, abandoned>>

\* enqueuePatientZero's select: the send is taken while Signals has room, and
\* dropped otherwise (or once the model's bound is spent).
Offer(r) ==
  /\ \E up \in owed[r] :
       /\ owed' = [owed EXCEPT ![r] = @ \ {up}]
       /\ \/ Accept(up, CI)
          \/ /\ Len(signals) = SignalsCap \/ accepted >= MaxSignals
             /\ UNCHANGED <<accepted, signals>>
  /\ UNCHANGED <<queue, busy, pc, hand, keep, cancelled,
                 handled, superseded, abandoned>>

\* handle returns
Finish(r) ==
  /\ busy[r] # NoSignal
  /\ owed[r] = {}
  /\ handled' = handled \cup {busy[r]}
  /\ busy' = [busy EXCEPT ![r] = NoSignal]
  /\ UNCHANGED <<accepted, signals, queue, owed, pc, hand, keep, cancelled,
                 superseded, abandoned>>

-----------------------------------------------------------------------------

\* SIGTERM cancels the daemon's context.
Cancel ==
  /\ ~cancelled
  /\ cancelled' = TRUE
  /\ UNCHANGED <<accepted, signals, queue, busy, owed, pc, hand, keep,
                 handled, superseded, abandoned>>

Dispatcher ==
  Receive \/ DrainOne \/ DrainDone \/ Requeue \/ RequeueDone \/ Send \/ Exit \/ Return

Next ==
  \/ \E r \in Repos, s \in Sources : Emit(r, s)
  \/ Dispatcher
  \/ \E r \in Repos : Take(r) \/ Offer(r) \/ Finish(r)
  \/ Cancel

Safety == Init /\ [][Next]_vars

(* The Go scheduler runs every goroutine that can step, so the dispatcher  *)
(* and a worker's receive are weakly fair.  That handle returns is assumed *)
(* only of the repos in Terminating: a Fix may hold its worker for hours.  *)
Fairness(Terminating) ==
  /\ WF_vars(Dispatcher)
  /\ \A r \in Repos : WF_vars(Take(r))
  /\ \A r \in Terminating : WF_vars(Offer(r)) /\ WF_vars(Finish(r))

-----------------------------------------------------------------------------
(* Properties *)

\* The signals of repo r that Run has received and not finished with.
Pending(r) ==
  {x \in Range(queue[r]) \cup Range(keep) \cup ({hand} \ {NoSignal}) : x.repo = r}

\* Invariant: whenever the dispatcher is about to send to a worker's channel
\* there is room, however long that worker has been busy.  Latest-wins keeps
\* one signal per Source, so a repo stuck in a Fix never blocks the others
\* (loop.go:206-214, drainSameSource's blocking re-queue at 233-235).
SendNeverBlocks ==
  pc \in {"requeue", "send"} => Len(queue[hand.repo]) < WorkerCap

\* Action property: of one repo and Source, signals are handled in the order
\* they arrived, so a stale verdict is never acted on after a newer one.
HandledInOrder ==
  [][\A r \in Repos, x \in handled :
        busy'[r] # busy[r] /\ busy'[r] # NoSignal
        /\ x.repo = r /\ x.source = busy'[r].source => x.id < busy'[r].id]_vars

\* Liveness: once cancelled, Run closes the workers' channels, whatever it was
\* waiting for, and every worker in Terminating handles what it has and quits.
\* A worker's send to Signals, which nobody reads any more, must not block it.
\* When every handle returns, nothing is left that Return waits for.
ShutdownDrains(Terminating) ==
  cancelled ~> /\ pc \in {"closed", "returned"}
               /\ \A r \in Terminating : queue[r] = <<>> /\ busy[r] = NoSignal

\* Liveness: an accepted signal of a repo in Terminating is handled or
\* superseded, unless the daemon is stopped while it is still in Signals or in
\* Run's hand: what already is in a worker's channel is handled even then.  A
\* repo stuck in a Fix delays no other.
Settled(n) == \E x \in handled \cup superseded : x.id = n

Stranded(n) == cancelled /\ \E x \in Range(signals) \cup abandoned : x.id = n

Awaited(n, rs) == \E x \in Range(signals) : x.id = n /\ x.repo \in rs

SignalsSettle(Terminating) ==
  \A n \in 1..MaxSignals : Awaited(n, Terminating) ~> (Settled(n) \/ Stranded(n))

-----------------------------------------------------------------------------
(* The inductive invariant behind SendNeverBlocks and HandledInOrder       *)

\* Where the dispatcher's locals are in use, and whose signals each channel holds.
Shape ==
  /\ hand # NoSignal <=> pc \in {"drain", "requeue", "send"}
  /\ pc \notin {"drain", "requeue"} => keep = <<>>
  /\ \A r \in Repos : \A i \in 1..Len(queue[r]) : queue[r][i].repo = r
  /\ \A r \in Repos : busy[r] # NoSignal => busy[r].repo = r
  /\ \A i \in 1..Len(keep) : keep[i].repo = hand.repo

\* A channel, and what drainSameSource holds back from it, have one signal per
\* Source; once drained, none of the Source in hand.
OnePerSource ==
  /\ \A r \in Repos : \A i, j \in 1..Len(queue[r]) :
       i # j => queue[r][i].source # queue[r][j].source
  /\ \A i, j \in 1..Len(keep) : i # j => keep[i].source # keep[j].source
  /\ \A i \in 1..Len(keep) :
       /\ keep[i].source # hand.source
       /\ \A j \in 1..Len(queue[hand.repo]) : queue[hand.repo][j].source # keep[i].source
  /\ pc \in {"requeue", "send"} =>
       \A j \in 1..Len(queue[hand.repo]) : queue[hand.repo][j].source # hand.source

\* Arrival numbers: Signals holds the latest ones in order, and what waits for
\* a worker is newer than what a worker has had of the same repo and Source.
Received == accepted - Len(signals)

Started == handled \cup ({busy[r] : r \in Repos} \ {NoSignal})

Older(x, y) == x.repo = y.repo /\ x.source = y.source => x.id < y.id

ArrivalOrder ==
  /\ Len(signals) <= accepted
  /\ \A i \in 1..Len(signals) : signals[i].id = Received + i
  /\ \A x \in Started : x.id <= Received
  /\ \A r \in Repos : \A i \in 1..Len(queue[r]) : 
       /\ queue[r][i].id <= Received
       /\ \A x \in Started : Older(x, queue[r][i])
       /\ hand # NoSignal => Older(queue[r][i], hand)
  /\ \A i \in 1..Len(keep) : 
       /\ keep[i].id <= Received
       /\ \A x \in Started : Older(x, keep[i])
  /\ hand # NoSignal =>
       /\ hand.id <= Received
       /\ \A x \in Started : Older(x, hand)

IInv == TypeOK /\ Shape /\ OnePerSource /\ ArrivalOrder

-----------------------------------------------------------------------------
(* Refinement: the pool of pending signals is what Signals, the dispatcher *)
(* and the workers' channels hold.                                         *)
Pool == Range(signals) \cup UNION {Pending(r) : r \in Repos}

LW == INSTANCE LatestWins WITH
        arrived <- accepted, pending <- Pool, running <- busy, stopping <- cancelled

\* Property: FanOut implements LatestWins; every channel operation is a step of
\* the abstract pool or leaves it alone.
ImplementsLatestWins == LW!Spec
=============================================================================
