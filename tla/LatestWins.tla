----------------------------- MODULE LatestWins -----------------------------
(***************************************************************************)
(* What the orchestrator's fan-out promises, without its channels and      *)
(* goroutines: a pool of pending signals, one signal of each repo handled  *)
(* at a time, signals of one repo and Source started in arrival order, and *)
(* none given up unless a newer one of its kind is pending or the daemon   *)
(* stops.  FanOut implements it.                                           *)
(***************************************************************************)
EXTENDS Naturals

CONSTANTS Repos, Sources, NoSignal

VARIABLES
  arrived,   \* how many signals have arrived
  pending,   \* signals that arrived and are neither started nor given up
  running,   \* running[r]: the signal of repo r being handled
  stopping   \* the daemon has been told to stop

absVars == <<arrived, pending, running, stopping>>

Newer(x, y) == x.repo = y.repo /\ x.source = y.source /\ x.id > y.id

Init ==
  /\ arrived = 0
  /\ pending = {}
  /\ running = [r \in Repos |-> NoSignal]
  /\ stopping = FALSE

New(r, s) == [id |-> arrived + 1, repo |-> r, source |-> s]

Arrive(r, s) ==
  /\ pending' = pending \cup {New(r, s)}
  /\ arrived' = arrived + 1
  /\ UNCHANGED <<running, stopping>>

\* A pending signal is given up for a newer one, which is pending.
Supersede(x) ==
  /\ \E y \in pending : Newer(y, x)
  /\ pending' = pending \ {x}
  /\ UNCHANGED <<arrived, running, stopping>>

\* A repo that is idle starts a signal that has no older one of its kind.
Start(x) ==
  /\ running[x.repo] = NoSignal
  /\ \A y \in pending : ~Newer(x, y)
  /\ running' = [running EXCEPT ![x.repo] = x]
  /\ pending' = pending \ {x}
  /\ UNCHANGED <<arrived, stopping>>

Complete(r) ==
  /\ running[r] # NoSignal
  /\ running' = [running EXCEPT ![r] = NoSignal]
  /\ UNCHANGED <<arrived, pending, stopping>>

Stop ==
  /\ stopping' = TRUE
  /\ UNCHANGED <<arrived, pending, running>>

\* A stopping daemon may give up a pending signal.
Abandon(x) ==
  /\ stopping
  /\ pending' = pending \ {x}
  /\ UNCHANGED <<arrived, running, stopping>>

Next ==
  \/ \E r \in Repos, s \in Sources : Arrive(r, s)
  \/ \E x \in pending : Supersede(x) \/ Start(x) \/ Abandon(x)
  \/ \E r \in Repos : Complete(r)
  \/ Stop

Spec == Init /\ [][Next]_absVars
=============================================================================
