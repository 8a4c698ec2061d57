-------------------------- MODULE FixLadderProofs --------------------------
(***************************************************************************)
(* Proofs about the parts of MCFixLadder, for all values of the constants. *)
(* The ladder: the daemon's three maps never forget what is younger than   *)
(* memoryWindow, however their inserts prune them, and therefore no Fix    *)
(* starts for a CI run of the daemon's own push, or for the echo of its    *)
(* own rerun, nor for a commit it has already fixed.                       *)
(* The tokens: nobody gets one that is dead or of other repos.  The gate   *)
(* asked again: its verdict is of the push it is asked about.  The door:   *)
(* what is taken is sent, and once.  Last, what each part says of itself   *)
(* holds of them together.                                                 *)
(***************************************************************************)
EXTENDS MCFixLadder, SequenceTheorems, FiniteSetTheorems, WellFoundedInduction, TLAPS

\* Of some numbers there is a least one.
LEMMA LeastExists ==
  ASSUME NEW S, S \subseteq Nat, S # {} PROVE \E j \in S : \A i \in S : i >= j
  <1>1. PICK j \in S : \A i \in S : ~(<<i, j>> \in OpToRel(<, Nat))
        BY NatLessThanWellFounded, WFMin
  <1>2. \A i \in S : ~(i < j)
    <2> TAKE i \in S
    <2>1. <<i, j>> \in Nat \X Nat /\ <<i, j>>[1] = i /\ <<i, j>>[2] = j
          OBVIOUS
    <2> QED
        BY <1>1, <2>1 DEF OpToRel
  <1> QED
      BY <1>2

-----------------------------------------------------------------------------
(* The maps *)

\* What Put, the insert into one of the daemon's maps, returns
LEMMA PutFacts ==
  ASSUME NEW m, NEW k, NEW v
  PROVE  /\ DOMAIN Put(m, k, v) = DOMAIN m \cup {k}
         /\ Put(m, k, v)[k] = v
         /\ \A x \in DOMAIN m : x # k => Put(m, k, v)[x] = m[x]
  BY DEF Put

\* What pruning keeps: it is a restriction, and what is fresh survives it.
LEMMA PrunedFacts ==
  /\ DOMAIN PrunedReran \subseteq DOMAIN reran
  /\ \A u \in DOMAIN PrunedReran : PrunedReran[u] = reran[u]
  /\ \A u \in DOMAIN reran : Fresh(reran[u].at) => u \in DOMAIN PrunedReran
  /\ DOMAIN PrunedOwnSHA \subseteq DOMAIN ownSHA
  /\ \A c \in DOMAIN PrunedOwnSHA : PrunedOwnSHA[c] = ownSHA[c]
  /\ \A c \in DOMAIN ownSHA : Fresh(ownSHA[c]) => c \in DOMAIN PrunedOwnSHA
  /\ DOMAIN PrunedFixSHA \subseteq DOMAIN fixSHA
  /\ \A c \in DOMAIN PrunedFixSHA : PrunedFixSHA[c] = fixSHA[c]
  /\ \A c \in DOMAIN fixSHA : fixSHA[c].inflight \/ Fresh(fixSHA[c].at)
                                => c \in DOMAIN PrunedFixSHA
  BY DEF PrunedReran, PrunedOwnSHA, PrunedFixSHA, Restrict

\* Pruning and inserting keep the maps' types.
LEMMA MapTypes ==
  ASSUME TypeOK
  PROVE  /\ DOMAIN PrunedReran \subseteq Run
         /\ PrunedReran \in [DOMAIN PrunedReran -> [attempt : Nat, at : Nat]]
         /\ DOMAIN PrunedOwnSHA \subseteq Commit
         /\ PrunedOwnSHA \in [DOMAIN PrunedOwnSHA -> Nat]
         /\ DOMAIN PrunedFixSHA \subseteq Commit
         /\ PrunedFixSHA \in [DOMAIN PrunedFixSHA ->
                               [inflight : BOOLEAN, ok : BOOLEAN, at : Nat]]
  BY DEF TypeOK, PrunedReran, PrunedOwnSHA, PrunedFixSHA, Restrict

LEMMA PutReran ==
  ASSUME NEW m, DOMAIN m \subseteq Run, m \in [DOMAIN m -> [attempt : Nat, at : Nat]],
         NEW k \in Run, NEW v \in [attempt : Nat, at : Nat]
  PROVE  /\ DOMAIN Put(m, k, v) \subseteq Run
         /\ Put(m, k, v) \in [DOMAIN Put(m, k, v) -> [attempt : Nat, at : Nat]]
  BY DEF Put

LEMMA PutFixSHA ==
  ASSUME NEW m, DOMAIN m \subseteq Commit,
         m \in [DOMAIN m -> [inflight : BOOLEAN, ok : BOOLEAN, at : Nat]],
         NEW k \in Commit, NEW v \in [inflight : BOOLEAN, ok : BOOLEAN, at : Nat]
  PROVE  /\ DOMAIN Put(m, k, v) \subseteq Commit
         /\ Put(m, k, v) \in [DOMAIN Put(m, k, v) ->
                               [inflight : BOOLEAN, ok : BOOLEAN, at : Nat]]
  BY DEF Put

\* What has expired stays expired: the clock does not go back.
LEMMA ClockMonotone ==
  ASSUME TypeOK, [Next]_vars
  PROVE  now' \in Nat /\ now <= now'
  <1>1. CASE Tick
        BY <1>1 DEF Tick, TypeOK
  <1>2. CASE UNCHANGED now
        BY <1>2 DEF TypeOK
  <1>3. Tick \/ UNCHANGED now
        BY DEF Next, Environment, Worker, vars, world, PruneElsewhere,
           HumanPush, HumanRerun, Complete, Skip, Take, TakeManual, TakeGateFail,
           Ladder, RequestRerun, RerunGreen, RerunNotGreen, ClaimRefused, Claim,
           FixPush, Finish
  <1> QED
      BY <1>1, <1>2, <1>3

-----------------------------------------------------------------------------
(* Type correctness *)

\* The commit a signal is about
LEMMA ShaIs ==
  /\ \A s \in Completion : ShaOf(s) = s.run.sha /\ ShaOf(s) \in Commit
  /\ \A s \in GateFail : s \notin Completion /\ ShaOf(s) \in Commit
  <1>1. ASSUME NEW s \in GateFail PROVE s \notin Completion
    <2>1. DOMAIN s = {"sha"}
          BY DEF GateFail
    <2>2. \A d \in Completion : "run" \in DOMAIN d
          BY DEF Completion
    <2> QED
        BY <2>1, <2>2
  <1> QED
      BY <1>1 DEF ShaOf, Completion, Run, GateFail

LEMMA InitTypeOK == Init => TypeOK
  <1> SUFFICES ASSUME Init PROVE TypeOK
      OBVIOUS
  <1>1. 1 \in Commit /\ 1 \in 0 .. MaxAttempts /\ 0 \in 0 .. MaxAttempts
        BY FixLadderAssumption DEF Commit
  <1>2. github \in [Run -> [attempt : 0 .. MaxAttempts,
                           state : {"none", "running", "red", "green"}]]
        BY <1>1 DEF Init, Started, Absent
  <1>3. DOMAIN Nothing = {} /\ \A V : Nothing \in [{} -> V]
        BY DEF Nothing
  <1> QED
      BY <1>1, <1>2, <1>3 DEF Init, TypeOK

\* An absent entry reads as Go's zero value, which has the entries' type.
LEMMA EntryType ==
  ASSUME TypeOK, NEW c \in Commit
  PROVE  Entry(fixSHA, c) \in [inflight : BOOLEAN, ok : BOOLEAN, at : Nat]
  BY DEF TypeOK, Entry, Unclaimed

\* A push starts runs of the right type.
LEMMA AdvanceType ==
  ASSUME TypeOK, Advance
  PROVE  /\ tip' \in Commit /\ tip' = tip + 1
         /\ github' \in [Run -> [attempt : 0 .. MaxAttempts,
                                 state : {"none", "running", "red", "green"}]]
  BY FixLadderAssumption DEF TypeOK, Advance, Started, Commit

LEMMA RestartType ==
  ASSUME TypeOK, NEW u \in Run, Restart(u)
  PROVE  /\ github' \in [Run -> [attempt : 0 .. MaxAttempts,
                                 state : {"none", "running", "red", "green"}]]
         /\ github'[u].attempt = github[u].attempt + 1
         /\ github[u].attempt + 1 \in 1 .. MaxAttempts
         /\ \A v \in Run : v # u => github'[v] = github[v]
  BY FixLadderAssumption DEF TypeOK, Restart

\* The dev gate's commit is one that was the tip.
LEMMA GateOfTip ==
  ASSUME TypeOK, NEW c \in 1 .. tip PROVE [sha |-> c] \in GateFail
  BY FixLadderAssumption DEF TypeOK, Commit, GateFail

LEMMA StepTypeOK == TypeOK /\ InHand /\ [Next]_vars => TypeOK'
  <1> SUFFICES ASSUME TypeOK, InHand, [Next]_vars PROVE TypeOK'
      OBVIOUS
  <1> USE FixLadderAssumption
  <1>1. CASE Tick
        BY <1>1 DEF Tick, TypeOK, memory, fixing, hist
  <1>2. CASE PruneElsewhere
        BY <1>2, MapTypes DEF PruneElsewhere, TypeOK, world, fixing, hist
  <1>3. CASE HumanPush
        BY <1>3, AdvanceType DEF HumanPush, TypeOK, memory, fixing, hist
  <1>4. ASSUME NEW u \in Run, HumanRerun(u) PROVE TypeOK'
        BY <1>4, RestartType DEF HumanRerun, TypeOK, memory, fixing, hist
  <1>5. ASSUME NEW u \in Run, NEW c \in {"red", "green"}, Complete(u, c) PROVE TypeOK'
        BY <1>5 DEF Complete, TypeOK, memory, fixing, hist
  <1>6. ASSUME NEW d \in deliveries, Skip(d) \/ Take(d) PROVE TypeOK'
        BY <1>6 DEF Skip, Take, TypeOK, world, memory, fixing, hist
  <1>7. CASE TakeManual
        BY <1>7 DEF TakeManual, TypeOK, world, memory, hist
  <1>15. ASSUME NEW c \in 1 .. tip, TakeGateFail(c) PROVE TypeOK'
    <2>1. [sha |-> c] \in GateFail
          BY GateOfTip
    <2> QED
        BY <1>15, <2>1 DEF TakeGateFail, TypeOK, world, memory, fixing, hist
  <1>8. CASE Ladder
    <2>1. sig.run \in Run /\ EchoAttempt \in Nat
          BY <1>8 DEF Ladder, InHand, Completion, EchoAttempt
    <2>2. CASE reran' = Put(PrunedReran, sig.run, [attempt |-> EchoAttempt, at |-> now])
      <3>1. [attempt |-> EchoAttempt, at |-> now] \in [attempt : Nat, at : Nat]
            BY <2>1 DEF TypeOK
      <3>2. /\ DOMAIN reran' \subseteq Run
            /\ reran' \in [DOMAIN reran' -> [attempt : Nat, at : Nat]]
            BY <2>1, <2>2, <3>1, MapTypes, PutReran
      <3> QED
          BY <1>8, <3>2 DEF Ladder, TypeOK, world, fixing, hist
    <2>3. CASE UNCHANGED reran
          BY <1>8, <2>3 DEF Ladder, TypeOK, world, fixing, hist
    <2> QED
        BY <1>8, <2>2, <2>3 DEF Ladder
  <1>9. CASE RequestRerun
    <2>1. sig.run \in Run
          BY <1>9 DEF RequestRerun, InHand, Completion
    <2> QED
        BY <1>9, <2>1, RestartType
           DEF RequestRerun, TypeOK, memory, fixing
  <1>10. CASE RerunGreen \/ RerunNotGreen \/ ClaimRefused
    <2>1. /\ UNCHANGED <<world, memory, fixing, hist, deliveries>>
          /\ pc' \in {"idle", "claim"} /\ sig' \in {sig, NoSignal}
          BY <1>10 DEF RerunGreen, RerunNotGreen, ClaimRefused
    <2>2. sig' \in Completion \cup GateFail \cup {Manual, NoSignal}
          BY <2>1 DEF TypeOK
    <2>3. pc' \in {"idle", "ladder", "rerun", "wait", "claim", "fix"}
          BY <2>1
    <2>4. UNCHANGED <<now, tip, github, deliveries, reran, ownSHA, fixSHA, base, named,
                      delivered, cut, requested, owned, fixes>>
          BY <2>1 DEF world, memory, fixing, hist
    <2>5. /\ DOMAIN reran' \subseteq Run
          /\ reran' \in [DOMAIN reran' -> [attempt : Nat, at : Nat]]
          /\ DOMAIN ownSHA' \subseteq Commit /\ ownSHA' \in [DOMAIN ownSHA' -> Nat]
          /\ DOMAIN fixSHA' \subseteq Commit
          /\ fixSHA' \in [DOMAIN fixSHA' -> [inflight : BOOLEAN, ok : BOOLEAN, at : Nat]]
          BY <2>4 DEF TypeOK
    <2> QED
        BY <2>2, <2>3, <2>4, <2>5 DEF TypeOK
  <1>11. CASE Claim
    <2>1. ShaOf(sig) \in Commit
          BY <1>11, ShaIs DEF Claim, InHand
    <2>2. [Entry(fixSHA, ShaOf(sig)) EXCEPT !.inflight = TRUE, !.at = now]
            \in [inflight : BOOLEAN, ok : BOOLEAN, at : Nat]
      <3>1. now \in Nat
            BY DEF TypeOK
      <3>2. Entry(fixSHA, ShaOf(sig)) \in [inflight : BOOLEAN, ok : BOOLEAN, at : Nat]
            BY <2>1, EntryType
      <3> QED
          BY <3>1, <3>2
    <2>3. /\ DOMAIN fixSHA' \subseteq Commit
          /\ fixSHA' \in [DOMAIN fixSHA' -> [inflight : BOOLEAN, ok : BOOLEAN, at : Nat]]
          BY <1>11, <2>1, <2>2, MapTypes, PutFixSHA DEF Claim
    <2> QED
        BY <1>11, <2>3 DEF Claim, TypeOK, world, hist
  <1>12. CASE FixPush
    <2>1. /\ tip' \in Commit /\ base' \in Commit
          /\ github' \in [Run -> [attempt : 0 .. MaxAttempts,
                                  state : {"none", "running", "red", "green"}]]
      <3>1. CASE PRMode /\ UNCHANGED <<tip, github, base>>
            BY <3>1 DEF TypeOK
      <3>2. CASE Advance /\ base' = tip + 1
            BY <3>2, AdvanceType
      <3> QED
          BY <1>12, <3>1, <3>2 DEF FixPush
    <2>2. named' \subseteq Commit /\ delivered' \in BOOLEAN /\ cut' \in BOOLEAN
      <3>1. named' \in {named, named \cup {base'}}
            BY <1>12 DEF FixPush
      <3>2. delivered' \in {delivered, TRUE} /\ cut' \in {cut, TRUE}
            BY <1>12 DEF FixPush
      <3> QED
          BY <2>1, <3>1, <3>2 DEF TypeOK
    <2>3. UNCHANGED <<now, deliveries, memory, pc, sig, hist>>
          BY <1>12 DEF FixPush
    <2> QED
        BY <2>1, <2>2, <2>3 DEF TypeOK, memory, hist
  <1>13. ASSUME NEW err \in BOOLEAN, Finish(err) PROVE TypeOK'
    <2>1. CASE sig = Manual
          BY <1>13, <2>1 DEF Finish, TypeOK, world
    <2>2. CASE sig # Manual
      <3>1. ShaOf(sig) \in Commit
            BY <1>13, <2>2, ShaIs DEF Finish, TypeOK, InHand
      <3>2. [inflight |-> FALSE, ok |-> Entry(fixSHA, ShaOf(sig)).ok \/ Latches(err),
             at |-> now] \in [inflight : BOOLEAN, ok : BOOLEAN, at : Nat]
            BY DEF TypeOK
      <3>3. /\ DOMAIN ownSHA' \subseteq Commit
            /\ ownSHA' \in [DOMAIN ownSHA' -> Nat]
            BY <1>13, <2>2, PrunedFacts DEF Finish, TypeOK, PushedSHAs
      <3>4. owned' \subseteq [sha : Commit, at : Nat]
        <4>1. owned' = owned \cup [sha : named, at : {now}]
              BY <1>13, <2>2 DEF Finish
        <4> QED
            BY <4>1 DEF TypeOK
      <3>5. fixes' \subseteq [sha : Commit, at : Nat]
        <4>1. fixes' \subseteq fixes \cup [sha : {ShaOf(sig)}, at : {now}]
              BY <1>13, <2>2 DEF Finish
        <4> QED
            BY <3>1, <4>1 DEF TypeOK
      <3>6. /\ DOMAIN fixSHA' \subseteq Commit
            /\ fixSHA' \in [DOMAIN fixSHA' -> [inflight : BOOLEAN, ok : BOOLEAN, at : Nat]]
        <4>1. fixSHA' = Put(fixSHA, ShaOf(sig),
                [inflight |-> FALSE, ok |-> Entry(fixSHA, ShaOf(sig)).ok \/ Latches(err),
                 at |-> now])
              BY <1>13, <2>2 DEF Finish
        <4> QED
            BY <3>1, <3>2, <4>1, PutFixSHA DEF TypeOK
      <3> QED
          BY <1>13, <3>3, <3>4, <3>5, <3>6 DEF Finish, TypeOK, world
    <2> QED
        BY <2>1, <2>2
  <1>14. CASE UNCHANGED vars
         BY <1>14 DEF vars, TypeOK, world, memory, fixing, hist
  <1> QED
      BY <1>1, <1>2, <1>3, <1>4, <1>5, <1>6, <1>7, <1>8, <1>9, <1>10, <1>11, <1>12,
         <1>13, <1>14, <1>15 DEF Next, Environment, Worker

-----------------------------------------------------------------------------
(* The signal in hand *)

\* A run's attempts only grow.
LEMMA AttemptsGrow ==
  ASSUME TypeOK, InHand, [Next]_vars
  PROVE  \A u \in Run : github[u].attempt <= github'[u].attempt
  <1> SUFFICES ASSUME NEW u \in Run PROVE github[u].attempt <= github'[u].attempt
      OBVIOUS
  <1>1. CASE Advance
    <2>1. u.sha \in Commit /\ tip \in Nat
          BY DEF Run, TypeOK, Commit
    <2>2. CASE u.sha = tip + 1
          BY <1>1, <2>1, <2>2 DEF Advance, Started, InHand, Absent, Commit
    <2>3. CASE u.sha # tip + 1
          BY <1>1, <2>3 DEF Advance, Started, TypeOK
    <2> QED
        BY <2>2, <2>3
  <1>2. ASSUME NEW v \in Run, Restart(v) PROVE github[u].attempt <= github'[u].attempt
    <2>1. github[u].attempt \in Nat
          BY DEF TypeOK
    <2>2. github'[u].attempt \in {github[u].attempt, github[u].attempt + 1}
          BY <1>2, RestartType
    <2> QED
        BY <2>1, <2>2
  <1>3. ASSUME NEW v \in Run, NEW c \in {"red", "green"}, Complete(v, c)
        PROVE  github[u].attempt <= github'[u].attempt
    <2>1. github' = [github EXCEPT ![v].state = c]
          BY <1>3 DEF Complete
    <2>2. github[u].attempt \in Nat /\ github'[u].attempt = github[u].attempt
          BY <2>1 DEF TypeOK
    <2> QED
        BY <2>2
  <1>4. CASE UNCHANGED github
        BY <1>4 DEF TypeOK
  <1>5. ASSUME RequestRerun PROVE sig.run \in Run /\ Restart(sig.run)
        BY <1>5 DEF RequestRerun, InHand, Completion
  <1>6. \/ Advance \/ UNCHANGED github
        \/ \E v \in Run : Restart(v)
        \/ \E v \in Run, c \in {"red", "green"} : Complete(v, c)
        BY <1>5 DEF Next, Environment, Worker, vars, world, Tick, PruneElsewhere,
           HumanPush, HumanRerun, Skip, Take, TakeManual, TakeGateFail, Ladder,
           RerunGreen, RerunNotGreen, ClaimRefused, Claim, FixPush, Finish
  <1> QED
      BY <1>1, <1>2, <1>3, <1>4, <1>6

\* Commits not pushed yet have no runs, before and after a step.
LEMMA NoRunsAhead ==
  ASSUME TypeOK, InHand, [Next]_vars
  PROVE  \A u \in Run : u.sha > tip' => github'[u] = Absent
  <1> SUFFICES ASSUME NEW u \in Run, u.sha > tip' PROVE github'[u] = Absent
      OBVIOUS
  <1>0. u.sha \in Nat /\ tip \in Nat
        BY DEF Run, TypeOK, Commit
  <1>1. CASE Advance
        BY <1>0, <1>1 DEF Advance, Started, InHand
  <1>2. ASSUME NEW v \in Run, Restart(v), UNCHANGED tip PROVE github'[u] = Absent
    <2>1. github[u] = Absent
          BY <1>2 DEF InHand
    <2>2. v # u
          BY <1>2, <2>1 DEF Restart, Absent
    <2> QED
        BY <1>2, <2>1, <2>2, RestartType
  <1>3. ASSUME NEW v \in Run, NEW c \in {"red", "green"}, Complete(v, c)
        PROVE  github'[u] = Absent
    <2>1. github[u] = Absent
          BY <1>3 DEF InHand, Complete
    <2>2. v # u
          BY <1>3, <2>1 DEF Complete, Absent
    <2> QED
        BY <1>3, <2>1, <2>2 DEF Complete, TypeOK
  <1>4. CASE UNCHANGED <<tip, github>>
        BY <1>4 DEF InHand
  <1>5. ASSUME RequestRerun PROVE sig.run \in Run /\ Restart(sig.run) /\ UNCHANGED tip
        BY <1>5 DEF RequestRerun, InHand, Completion
  <1>6. \/ Advance \/ UNCHANGED <<tip, github>>
        \/ \E v \in Run : Restart(v) /\ UNCHANGED tip
        \/ \E v \in Run, c \in {"red", "green"} : Complete(v, c)
        BY <1>5 DEF Next, Environment, Worker, vars, world, Tick, PruneElsewhere,
           HumanPush, HumanRerun, Skip, Take, TakeManual, TakeGateFail, Ladder,
           RerunGreen, RerunNotGreen, ClaimRefused, Claim, FixPush, Finish
  <1> QED
      BY <1>1, <1>2, <1>3, <1>4, <1>6

\* Where the worker's signal comes from, in a step that changes it
LEMMA SignalStep ==
  ASSUME TypeOK, InHand, [Next]_vars
  PROVE  \/ UNCHANGED sig /\ (pc = "idle" <=> pc' = "idle") /\
              (pc' \in {"ladder", "rerun", "wait"} => pc \in {"ladder", "rerun", "wait"}) /\
              (pc' = "claim" => pc \in {"ladder", "rerun", "wait", "claim"})
         \/ sig' \in GateFail /\ pc' = "claim"
         \/ sig' = NoSignal /\ pc' = "idle"
         \/ sig' = Manual /\ pc' = "fix"
         \/ sig' \in deliveries /\ pc' = "ladder" /\ UNCHANGED github
  <1>1. CASE UNCHANGED <<pc, sig>>
        BY <1>1
  <1>2. ASSUME NEW d \in deliveries, Take(d)
        PROVE  sig' \in deliveries /\ pc' = "ladder" /\ UNCHANGED github
        BY <1>2 DEF Take, world
  <1>3. CASE TakeManual \/ RerunGreen \/ ClaimRefused \/ \E err \in BOOLEAN : Finish(err)
        BY <1>3 DEF TakeManual, RerunGreen, ClaimRefused, Finish
  <1>4. CASE Ladder
        BY <1>4 DEF Ladder
  <1>6. ASSUME NEW c \in 1 .. tip, TakeGateFail(c) PROVE sig' \in GateFail /\ pc' = "claim"
    <2>1. [sha |-> c] \in GateFail
          BY GateOfTip
    <2> QED
        BY <1>6, <2>1 DEF TakeGateFail
  <1>5. CASE RequestRerun \/ RerunNotGreen \/ Claim
        BY <1>5 DEF RequestRerun, RerunNotGreen, Claim
  <1> QED
      BY <1>1, <1>2, <1>3, <1>4, <1>5, <1>6
         DEF Next, Environment, Worker, vars, Tick, PruneElsewhere, HumanPush,
             HumanRerun, Complete, Skip, FixPush

LEMMA StepInHand == TypeOK /\ InHand /\ [Next]_vars => InHand'
  <1> SUFFICES ASSUME TypeOK, InHand, [Next]_vars PROVE InHand'
      OBVIOUS
  <1>1. \A d \in deliveries' : d \in Completion /\ d.attempt <= github'[d.run].attempt
    <2> SUFFICES ASSUME NEW d \in deliveries' PROVE d \in Completion /\ d.attempt <= github'[d.run].attempt
        OBVIOUS
    <2>1. d \in Completion
          BY StepTypeOK DEF TypeOK
    <2>2. CASE d \in deliveries
      <3>1. d.attempt <= github[d.run].attempt /\ d.run \in Run
            BY <2>1, <2>2 DEF InHand, Completion
      <3>2. github[d.run].attempt <= github'[d.run].attempt
            BY <3>1, AttemptsGrow
      <3>3. /\ d.attempt \in Int /\ github[d.run].attempt \in Int
            /\ github'[d.run].attempt \in Int
            BY <2>1, <3>1, StepTypeOK DEF TypeOK, Completion
      <3> QED
          BY <2>1, <3>1, <3>2, <3>3
    <2>3. CASE d \notin deliveries
      <3>1. PICK u \in Run, c \in {"red", "green"} : Complete(u, c)
            BY <2>3 DEF Next, Environment, Worker, vars, Tick, PruneElsewhere, HumanPush,
               HumanRerun, Skip, Take, TakeManual, TakeGateFail, Ladder, RequestRerun, RerunGreen,
               RerunNotGreen, ClaimRefused, Claim, FixPush, Finish
      <3>2. d.run = u /\ d.attempt = github[u].attempt
            BY <2>3, <3>1 DEF Complete
      <3>3. github'[u].attempt = github[u].attempt
            BY <3>1 DEF Complete, TypeOK
      <3> QED
          BY <2>1, <3>2, <3>3 DEF TypeOK
    <2> QED
        BY <2>2, <2>3
  <1>2. \A u \in Run : u.sha > tip' => github'[u] = Absent
        BY NoRunsAhead
  <1>3. CASE UNCHANGED sig /\ (pc = "idle" <=> pc' = "idle") /\
               (pc' \in {"ladder", "rerun", "wait"} => pc \in {"ladder", "rerun", "wait"}) /\
               (pc' = "claim" => pc \in {"ladder", "rerun", "wait", "claim"})
    <2>1. ASSUME sig \in Completion PROVE sig.attempt <= github'[sig.run].attempt
      <3>1. sig.attempt <= github[sig.run].attempt /\ sig.run \in Run
            BY <2>1 DEF InHand, Completion
      <3>2. github[sig.run].attempt <= github'[sig.run].attempt
            BY <3>1, AttemptsGrow
      <3>3. /\ sig.attempt \in Int /\ github[sig.run].attempt \in Int
            /\ github'[sig.run].attempt \in Int
            BY <2>1, <3>1, StepTypeOK DEF TypeOK, Completion
      <3> QED
          BY <3>1, <3>2, <3>3
    <2> QED
        BY <1>1, <1>2, <1>3, <2>1 DEF InHand
  <1>4. CASE sig' = NoSignal /\ pc' = "idle"
        BY <1>1, <1>2, <1>4, FixLadderAssumption DEF InHand
  <1>5. CASE sig' = Manual /\ pc' = "fix"
        BY <1>1, <1>2, <1>5, FixLadderAssumption DEF InHand
  <1>6. CASE sig' \in deliveries /\ pc' = "ladder" /\ UNCHANGED github
        BY <1>1, <1>2, <1>6, FixLadderAssumption DEF InHand, TypeOK
  <1>7. CASE sig' \in GateFail /\ pc' = "claim"
        BY <1>1, <1>2, <1>7, ShaIs, FixLadderAssumption DEF InHand
  <1> QED
      BY <1>3, <1>4, <1>5, <1>6, <1>7, SignalStep

-----------------------------------------------------------------------------
(* Claims *)

\* Steps that touch neither the fixSHA map nor a Fix in progress
LEMMA QuietFix ==
  ASSUME [Next]_vars
  PROVE  \/ PruneElsewhere \/ TakeManual \/ Claim
         \/ \E err \in BOOLEAN : Finish(err)
         \/ UNCHANGED fixSHA /\ pc # "fix" /\ pc' # "fix"
         \/ UNCHANGED <<fixSHA, pc, sig>>
  BY DEF Next, Environment, Worker, vars, memory, Tick, HumanPush, HumanRerun, Complete,
         Skip, Take, TakeGateFail, Ladder, RequestRerun, RerunGreen, RerunNotGreen, ClaimRefused, FixPush

LEMMA StepClaimReleased ==
  TypeOK /\ InHand /\ ClaimReleased /\ [Next]_vars => ClaimReleased'
  <1> SUFFICES ASSUME TypeOK, InHand, ClaimReleased, [Next]_vars, NEW c \in Commit
               PROVE  Entry(fixSHA, c)'.inflight
                        <=> pc' = "fix" /\ sig' # Manual /\ ShaOf(sig') = c
      BY DEF ClaimReleased
  <1>1. Entry(fixSHA, c).inflight <=> pc = "fix" /\ sig # Manual /\ ShaOf(sig) = c
        BY DEF ClaimReleased
  <1>2. CASE PruneElsewhere
    <2>1. CASE UNCHANGED fixSHA
          BY <1>1, <1>2, <2>1 DEF PruneElsewhere, Entry
    <2>2. CASE fixSHA' = PrunedFixSHA
      <3>1. CASE c \in DOMAIN PrunedFixSHA
            BY <1>1, <1>2, <2>2, <3>1, PrunedFacts DEF PruneElsewhere, Entry
      <3>2. CASE c \notin DOMAIN PrunedFixSHA
        <4>1. ~Entry(fixSHA, c).inflight
              BY <3>2, PrunedFacts DEF Entry, Unclaimed
        <4>2. ~Entry(fixSHA, c)'.inflight
              BY <2>2, <3>2 DEF Entry, Unclaimed
        <4> QED
            BY <1>1, <1>2, <4>1, <4>2 DEF PruneElsewhere
      <3> QED
          BY <3>1, <3>2
    <2> QED
        BY <1>2, <2>1, <2>2 DEF PruneElsewhere
  <1>3. CASE TakeManual
        BY <1>1, <1>3 DEF TakeManual, memory, Entry
  <1>4. CASE Claim
    <2> DEFINE v == [Entry(fixSHA, ShaOf(sig)) EXCEPT !.inflight = TRUE, !.at = now]
    <2>1. fixSHA' = Put(PrunedFixSHA, ShaOf(sig), v)
          BY <1>4 DEF Claim
    <2>2. sig # Manual /\ sig' = sig /\ pc' = "fix" /\ pc = "claim" /\ ShaOf(sig) \in Commit
          BY <1>4, ShaIs, FixLadderAssumption DEF Claim, InHand
    <2>3. v.inflight
          BY <2>2, EntryType
    <2>4. CASE ShaOf(sig) = c
      <3>1. c \in DOMAIN fixSHA' /\ fixSHA'[c] = v
            BY <2>1, <2>4 DEF Put
      <3> QED
          BY <2>2, <2>3, <2>4, <3>1 DEF Entry
    <2>5. CASE ShaOf(sig) # c
      <3>1. ~Entry(fixSHA, c).inflight
            BY <1>1, <2>2
      <3>2. CASE c \in DOMAIN PrunedFixSHA
        <4>1. c \in DOMAIN fixSHA' /\ fixSHA'[c] = PrunedFixSHA[c]
              BY <2>1, <2>5, <3>2 DEF Put
        <4> QED
            BY <2>2, <2>5, <3>1, <3>2, <4>1, PrunedFacts DEF Entry
      <3>3. CASE c \notin DOMAIN PrunedFixSHA
        <4>1. c \notin DOMAIN fixSHA'
              BY <2>1, <2>5, <3>3 DEF Put
        <4> QED
            BY <2>2, <2>5, <4>1 DEF Entry, Unclaimed
      <3> QED
          BY <3>2, <3>3
    <2> QED
        BY <2>4, <2>5
  <1>5. ASSUME NEW err \in BOOLEAN, Finish(err)
        PROVE  Entry(fixSHA, c)'.inflight
                 <=> pc' = "fix" /\ sig' # Manual /\ ShaOf(sig') = c
    <2>1. CASE sig = Manual
          BY <1>1, <1>5, <2>1 DEF Finish, Entry
    <2>2. CASE sig # Manual
      <3> DEFINE v == [inflight |-> FALSE, ok |-> Entry(fixSHA, ShaOf(sig)).ok \/ Latches(err),
                       at |-> now]
      <3>1. fixSHA' = Put(fixSHA, ShaOf(sig), v)
            BY <1>5, <2>2 DEF Finish
      <3>2. CASE ShaOf(sig) = c
        <4>1. c \in DOMAIN fixSHA' /\ fixSHA'[c] = v
              BY <3>1, <3>2 DEF Put
        <4> QED
            BY <1>5, <4>1 DEF Entry, Finish
      <3>3. CASE ShaOf(sig) # c
        <4>1. ~Entry(fixSHA, c).inflight
              BY <1>1, <3>3
        <4>2. (c \in DOMAIN fixSHA' <=> c \in DOMAIN fixSHA)
              /\ (c \in DOMAIN fixSHA => fixSHA'[c] = fixSHA[c])
              BY <3>1, <3>3 DEF Put
        <4> QED
            BY <1>5, <4>1, <4>2 DEF Entry, Finish
      <3> QED
          BY <3>2, <3>3
    <2> QED
        BY <2>1, <2>2
  <1>6. CASE UNCHANGED fixSHA /\ pc # "fix" /\ pc' # "fix"
        BY <1>1, <1>6 DEF Entry
  <1>7. CASE UNCHANGED <<fixSHA, pc, sig>>
        BY <1>1, <1>7 DEF Entry
  <1> QED
      BY <1>2, <1>3, <1>4, <1>5, <1>6, <1>7, QuietFix

-----------------------------------------------------------------------------
(* The memory covers its window *)

\* What a record needs to survive: an entry at least as young as it is fresh.
LEMMA YoungerIsFresh ==
  ASSUME now \in Nat, NEW s \in Nat, NEW t \in Nat, s <= t, ~Expired(s)
  PROVE  Fresh(t)
  BY FixLadderAssumption DEF Expired, Fresh

LEMMA ExpiredStays ==
  ASSUME TypeOK, [Next]_vars, NEW s \in Nat, Expired(s)
  PROVE  Expired(s)'
  BY ClockMonotone, FixLadderAssumption DEF Expired, TypeOK

LEMMA StepOwnRemembered == TypeOK /\ OwnRemembered /\ [Next]_vars => OwnRemembered'
  <1> SUFFICES ASSUME TypeOK, OwnRemembered, [Next]_vars, NEW o \in owned'
               PROVE  /\ o.at <= now'
                      /\ \/ Expired(o.at)'
                         \/ (o.sha \in DOMAIN ownSHA' /\ o.at <= ownSHA'[o.sha])
      BY DEF OwnRemembered
  <1> DEFINE Known(m) == o.sha \in DOMAIN m /\ o.at <= m[o.sha]
  <1>1. CASE o \in owned
    <2>1. o.at \in Nat /\ o.sha \in Commit /\ o.at <= now /\ o.at <= now'
          BY <1>1, ClockMonotone DEF TypeOK, OwnRemembered
    <2>2. CASE Expired(o.at)
          BY <2>1, <2>2, ExpiredStays
    <2>3. CASE ~Expired(o.at)
      <3>1. Known(ownSHA) /\ ownSHA[o.sha] \in Nat
            BY <1>1, <2>3 DEF OwnRemembered, TypeOK
      <3>2. Fresh(ownSHA[o.sha])
            BY <2>1, <2>3, <3>1, YoungerIsFresh DEF TypeOK
      <3>3. Known(PrunedOwnSHA)
            BY <3>1, <3>2, PrunedFacts
      <3>4. ASSUME NEW err \in BOOLEAN, Finish(err) PROVE Known(ownSHA')
        <4>1. CASE UNCHANGED ownSHA
              BY <3>1, <4>1
        <4>2. CASE ownSHA' = [c \in DOMAIN PrunedOwnSHA \cup PushedSHAs |->
                                IF c \in PushedSHAs THEN now ELSE ownSHA[c]]
              BY <2>1, <3>1, <3>3, <4>2
        <4> QED
            BY <3>4, <4>1, <4>2 DEF Finish
      <3>5. CASE ownSHA' \in {ownSHA, PrunedOwnSHA}
            BY <2>1, <3>1, <3>3, <3>5
      <3>6. ownSHA' \in {ownSHA, PrunedOwnSHA} \/ \E err \in BOOLEAN : Finish(err)
            BY DEF Next, Environment, Worker, vars, memory, Tick, PruneElsewhere, HumanPush,
               HumanRerun, Complete, Skip, Take, TakeManual, TakeGateFail, Ladder, RequestRerun, RerunGreen,
               RerunNotGreen, ClaimRefused, Claim, FixPush
      <3> QED
          BY <2>1, <3>4, <3>5, <3>6
    <2> QED
        BY <2>1, <2>2, <2>3
  <1>2. CASE o \notin owned
    <2>1. PICK err \in BOOLEAN : Finish(err)
          BY <1>2 DEF Next, Environment, Worker, vars, hist, Tick, PruneElsewhere, HumanPush,
             HumanRerun, Complete, Skip, Take, TakeManual, TakeGateFail, Ladder, RequestRerun, RerunGreen,
             RerunNotGreen, ClaimRefused, Claim, FixPush
    <2>2. sig # Manual /\ o.sha \in PushedSHAs /\ o.at = now /\ o.at <= now'
          BY <1>2, <2>1 DEF Finish, TypeOK, world, PushedSHAs
    <2>3. ownSHA' = [c \in DOMAIN PrunedOwnSHA \cup PushedSHAs |->
                       IF c \in PushedSHAs THEN now ELSE ownSHA[c]]
          BY <2>1, <2>2 DEF Finish
    <2> QED
        BY <2>2, <2>3 DEF TypeOK
  <1> QED
      BY <1>1, <1>2

\* A commit latched ok stays latched while it is fresh.
LEMMA StepFixRemembered ==
  TypeOK /\ InHand /\ FixRemembered /\ [Next]_vars => FixRemembered'
  <1> SUFFICES ASSUME TypeOK, InHand, FixRemembered, [Next]_vars, NEW f \in fixes'
               PROVE  /\ f.at <= now'
                      /\ \/ Expired(f.at)'
                         \/ /\ f.sha \in DOMAIN fixSHA'
                            /\ fixSHA'[f.sha].ok
                            /\ f.at <= fixSHA'[f.sha].at
      BY DEF FixRemembered
  <1> DEFINE Known(m) == f.sha \in DOMAIN m /\ m[f.sha].ok /\ f.at <= m[f.sha].at
  <1>1. CASE f \in fixes
    <2>1. f.at \in Nat /\ f.sha \in Commit /\ f.at <= now /\ f.at <= now'
          BY <1>1, ClockMonotone DEF TypeOK, FixRemembered
    <2>2. CASE Expired(f.at)
          BY <2>1, <2>2, ExpiredStays
    <2>3. CASE ~Expired(f.at)
      <3>1. Known(fixSHA) /\ fixSHA[f.sha] \in [inflight : BOOLEAN, ok : BOOLEAN, at : Nat]
            BY <1>1, <2>3 DEF FixRemembered, TypeOK
      <3>2. Fresh(fixSHA[f.sha].at)
            BY <2>1, <2>3, <3>1, YoungerIsFresh DEF TypeOK
      <3>3. Known(PrunedFixSHA)
            BY <3>1, <3>2, PrunedFacts
      <3>4. CASE Claim
        <4>1. ShaOf(sig) # f.sha
              BY <3>1, <3>4 DEF Claim, Claimed
        <4>2. /\ DOMAIN fixSHA' = DOMAIN PrunedFixSHA \cup {ShaOf(sig)}
              /\ fixSHA'[f.sha] = PrunedFixSHA[f.sha]
              BY <3>3, <3>4, <4>1 DEF Claim, Put
        <4> QED
            BY <2>1, <3>3, <4>2
      <3>5. ASSUME NEW err \in BOOLEAN, Finish(err) PROVE Known(fixSHA')
        <4>1. CASE UNCHANGED fixSHA
              BY <3>1, <4>1
        <4> DEFINE v == [inflight |-> FALSE,
                         ok |-> Entry(fixSHA, ShaOf(sig)).ok \/ Latches(err), at |-> now]
        <4>2. CASE fixSHA' = Put(fixSHA, ShaOf(sig), v) /\ ShaOf(sig) = f.sha
          <5>1. Entry(fixSHA, ShaOf(sig)).ok
                BY <3>1, <4>2 DEF Entry
          <5>2. f.sha \in DOMAIN fixSHA' /\ fixSHA'[f.sha] = v
                BY <4>2 DEF Put
          <5>3. v.ok /\ v.at = now
                BY <5>1
          <5> QED
              BY <2>1, <5>2, <5>3
        <4>3. CASE fixSHA' = Put(fixSHA, ShaOf(sig), v) /\ ShaOf(sig) # f.sha
              BY <3>1, <4>3 DEF Put
        <4> QED
            BY <3>5, <4>1, <4>2, <4>3 DEF Finish
      <3>6. CASE fixSHA' \in {fixSHA, PrunedFixSHA}
            BY <2>1, <3>1, <3>3, <3>6
      <3>7. fixSHA' \in {fixSHA, PrunedFixSHA} \/ Claim \/ \E err \in BOOLEAN : Finish(err)
            BY DEF Next, Environment, Worker, vars, memory, Tick, PruneElsewhere, HumanPush,
               HumanRerun, Complete, Skip, Take, TakeManual, TakeGateFail, Ladder, RequestRerun, RerunGreen,
               RerunNotGreen, ClaimRefused, FixPush
      <3> QED
          BY <2>1, <3>4, <3>5, <3>6, <3>7
    <2> QED
        BY <2>1, <2>2, <2>3
  <1>2. CASE f \notin fixes
    <2>1. PICK err \in BOOLEAN : Finish(err)
          BY <1>2 DEF Next, Environment, Worker, vars, hist, Tick, PruneElsewhere, HumanPush,
             HumanRerun, Complete, Skip, Take, TakeManual, TakeGateFail, Ladder, RequestRerun, RerunGreen,
             RerunNotGreen, ClaimRefused, Claim, FixPush
    <2>2. sig # Manual /\ Delivered /\ ~err /\ f.sha = ShaOf(sig) /\ f.at = now /\ f.at <= now'
          BY <1>2, <2>1 DEF Finish, TypeOK, world
    <2> DEFINE v == [inflight |-> FALSE,
                     ok |-> Entry(fixSHA, ShaOf(sig)).ok \/ Latches(err), at |-> now]
    <2>3. Latches(err)
          BY <2>2 DEF Latches
    <2>4. fixSHA' = Put(fixSHA, ShaOf(sig), v)
          BY <2>1, <2>2 DEF Finish
    <2>5. f.sha \in DOMAIN fixSHA' /\ fixSHA'[f.sha] = v
          BY <2>2, <2>4 DEF Put
    <2>6. v.ok /\ v.at = now
          BY <2>3
    <2> QED
        BY <2>2, <2>5, <2>6 DEF TypeOK
  <1> QED
      BY <1>1, <1>2

\* Only a clean, delivered Fix latches its commit, and its record stays.
LEMMA StepLatchedIsFixed ==
  TypeOK /\ InHand /\ LatchedIsFixed /\ [Next]_vars => LatchedIsFixed'
  <1> SUFFICES ASSUME TypeOK, InHand, LatchedIsFixed, [Next]_vars,
                      NEW c \in DOMAIN fixSHA', fixSHA'[c].ok
               PROVE  \E f \in fixes' : f.sha = c
      BY DEF LatchedIsFixed
  <1>1. fixes \subseteq fixes'
        BY DEF Next, Environment, Worker, vars, hist, Tick, PruneElsewhere, HumanPush,
           HumanRerun, Complete, Skip, Take, TakeManual, TakeGateFail, Ladder, RequestRerun, RerunGreen,
           RerunNotGreen, ClaimRefused, Claim, FixPush, Finish
  <1>2. CASE c \in DOMAIN fixSHA /\ fixSHA[c].ok
        BY <1>1, <1>2 DEF LatchedIsFixed
  <1>3. CASE fixSHA' \in {fixSHA, PrunedFixSHA}
        BY <1>2, <1>3, PrunedFacts
  <1>4. CASE Claim
    <2> DEFINE k == ShaOf(sig)
               v == [Entry(fixSHA, k) EXCEPT !.inflight = TRUE, !.at = now]
    <2>1. k \in Commit
          BY <1>4, ShaIs DEF Claim, InHand
    <2>2. Entry(fixSHA, k) \in [inflight : BOOLEAN, ok : BOOLEAN, at : Nat]
          BY <2>1, EntryType
    <2>3. ~Entry(fixSHA, k).ok
      <3>1. CASE k \in DOMAIN fixSHA
        <4>1. ~fixSHA[k].ok
              BY <1>4, <3>1 DEF Claim, Claimed
        <4> QED
            BY <3>1, <4>1 DEF Entry
      <3>2. CASE k \notin DOMAIN fixSHA
            BY <3>2 DEF Entry, Unclaimed
      <3> QED
          BY <3>1, <3>2
    <2>4. ~v.ok
          BY <2>2, <2>3
    <2>5. fixSHA' = Put(PrunedFixSHA, k, v)
          BY <1>4 DEF Claim
    <2>6. c # k
      <3>1. fixSHA'[k] = v
            BY <2>5 DEF Put
      <3> QED
          BY <2>4, <3>1
    <2>7. c \in DOMAIN PrunedFixSHA /\ PrunedFixSHA[c].ok
      <3>1. DOMAIN fixSHA' = DOMAIN PrunedFixSHA \cup {k}
            BY <2>5 DEF Put
      <3>2. fixSHA'[c] = PrunedFixSHA[c]
            BY <2>5, <2>6 DEF Put
      <3> QED
          BY <2>6, <3>1, <3>2
    <2> QED
        BY <1>2, <2>7, PrunedFacts
  <1>5. ASSUME NEW err \in BOOLEAN, Finish(err), sig # Manual
        PROVE  \E f \in fixes' : f.sha = c
    <2> DEFINE v == [inflight |-> FALSE,
                     ok |-> Entry(fixSHA, ShaOf(sig)).ok \/ Latches(err), at |-> now]
    <2>1. fixSHA' = Put(fixSHA, ShaOf(sig), v)
          BY <1>5 DEF Finish
    <2>2. CASE c # ShaOf(sig)
      <3>1. DOMAIN fixSHA' = DOMAIN fixSHA \cup {ShaOf(sig)}
            BY <2>1 DEF Put
      <3>2. fixSHA'[c] = fixSHA[c]
            BY <2>1, <2>2 DEF Put
      <3> QED
          BY <1>2, <2>2, <3>1, <3>2
    <2>3. CASE c = ShaOf(sig)
      <3>0. fixSHA'[c] = v
            BY <2>1, <2>3 DEF Put
      <3>1. v.ok
            BY <3>0
      <3>2. CASE Entry(fixSHA, ShaOf(sig)).ok
        <4>1. c \in DOMAIN fixSHA /\ fixSHA[c].ok
              BY <2>3, <3>2 DEF Entry, Unclaimed
        <4> QED
            BY <1>2, <4>1
      <3>3. CASE Latches(err)
        <4>1. Delivered /\ ~err
              BY <3>3 DEF Latches
        <4> DEFINE f == [sha |-> ShaOf(sig), at |-> now]
        <4>2. f \in fixes'
              BY <1>5, <4>1 DEF Finish
        <4>3. f.sha = c
              BY <2>3, <4>1
        <4> QED
            BY <4>2, <4>3
      <3> QED
          BY <3>1, <3>2, <3>3
    <2> QED
        BY <2>2, <2>3
  <1>6. \/ fixSHA' \in {fixSHA, PrunedFixSHA} \/ Claim
        \/ \E err \in BOOLEAN : Finish(err) /\ sig # Manual
        BY DEF Next, Environment, Worker, vars, memory, Tick, PruneElsewhere, HumanPush,
           HumanRerun, Complete, Skip, Take, TakeManual, TakeGateFail, Ladder, RequestRerun, RerunGreen,
           RerunNotGreen, ClaimRefused, FixPush, Finish
  <1> QED
      BY <1>3, <1>4, <1>5, <1>6

\* A rerun on record is not forgotten, and no later entry takes its place.
LEMMA StepRerunRemembered ==
  TypeOK /\ InHand /\ RerunRemembered /\ OnRecord /\ [Next]_vars => RerunRemembered'
  <1> SUFFICES ASSUME TypeOK, InHand, RerunRemembered, OnRecord, [Next]_vars,
                      NEW q \in requested'
               PROVE  \/ Expired(q.at)'
                      \/ /\ q.run \in DOMAIN reran'
                         /\ q.at <= reran'[q.run].at
                         /\ reran'[q.run].attempt <= q.attempt
      BY DEF RerunRemembered
  <1> DEFINE Known(m) == /\ q.run \in DOMAIN m
                         /\ q.at <= m[q.run].at
                         /\ m[q.run].attempt <= q.attempt
  <1>1. CASE q \in requested
    <2>1. q.at \in Nat /\ q.run \in Run
          BY <1>1 DEF TypeOK
    <2>2. CASE Expired(q.at)
          BY <2>1, <2>2, ExpiredStays
    <2>3. CASE ~Expired(q.at)
      <3>1. Known(reran) /\ reran[q.run] \in [attempt : Nat, at : Nat]
            BY <1>1, <2>3 DEF RerunRemembered, TypeOK
      <3>2. Fresh(reran[q.run].at)
            BY <2>1, <2>3, <3>1, YoungerIsFresh DEF TypeOK
      <3>3. Known(PrunedReran)
            BY <3>1, <3>2, PrunedFacts
      <3>4. CASE Ladder
        <4>1. CASE UNCHANGED reran
              BY <3>1, <4>1
        <4>2. CASE Rerunnable /\ reran' = Put(PrunedReran, sig.run,
                                   [attempt |-> EchoAttempt, at |-> now])
          <5>1. sig.run # q.run
                BY <3>1, <4>2 DEF Rerunnable
          <5> QED
              BY <3>3, <4>2, <5>1 DEF Put
        <4> QED
            BY <3>4, <4>1, <4>2 DEF Ladder
      <3>5. CASE reran' \in {reran, PrunedReran}
            BY <3>1, <3>3, <3>5
      <3>6. reran' \in {reran, PrunedReran} \/ Ladder
            BY DEF Next, Environment, Worker, vars, memory, Tick, PruneElsewhere, HumanPush,
               HumanRerun, Complete, Skip, Take, TakeManual, TakeGateFail, RequestRerun, RerunGreen,
               RerunNotGreen, ClaimRefused, Claim, FixPush, Finish
      <3> QED
          BY <3>4, <3>5, <3>6
    <2> QED
        BY <2>2, <2>3
  <1>2. CASE q \notin requested
    <2>1. RequestRerun
          BY <1>2 DEF Next, Environment, Worker, vars, hist, Tick, PruneElsewhere, HumanPush,
             HumanRerun, Complete, Skip, Take, TakeManual, TakeGateFail, Ladder, RerunGreen,
             RerunNotGreen, ClaimRefused, Claim, FixPush, Finish
    <2>2. /\ q.run = sig.run /\ q.attempt = github[sig.run].attempt + 1 /\ q.at = now
          /\ UNCHANGED reran
          BY <1>2, <2>1 DEF RequestRerun, memory
    <2>3. /\ sig.run \in DOMAIN reran
          /\ reran[sig.run] = [attempt |-> sig.attempt + 1, at |-> now]
          BY <2>1 DEF OnRecord, RequestRerun, EchoAttempt
    <2>4. /\ sig.attempt <= github[sig.run].attempt
          /\ sig.attempt \in Int /\ github[sig.run].attempt \in Int
          BY <2>1 DEF InHand, RequestRerun, Completion, TypeOK
    <2> QED
        BY <2>2, <2>3, <2>4 DEF TypeOK
  <1> QED
      BY <1>1, <1>2

-----------------------------------------------------------------------------
(* The checks stay good *)

\* The history grows only while the worker is busy with the signal it is about.
LEMMA HistoryStep ==
  ASSUME [Next]_vars
  PROVE  /\ owned' = owned \/ pc' = "idle"
         /\ requested' = requested \/ RequestRerun
  BY DEF Next, Environment, Worker, vars, hist, Tick, PruneElsewhere, HumanPush,
         HumanRerun, Complete, Skip, Take, TakeManual, TakeGateFail, Ladder, RequestRerun, RerunGreen,
         RerunNotGreen, ClaimRefused, Claim, FixPush, Finish

LEMMA StepChecked ==
  /\ TypeOK /\ InHand /\ OwnRemembered /\ RerunRemembered /\ OnRecord /\ Checked
  /\ [Next]_vars
  => Checked'
  <1> SUFFICES ASSUME TypeOK, InHand, OwnRemembered, RerunRemembered, Checked, [Next]_vars,
                      pc' \in {"ladder", "rerun", "wait", "claim"}, sig' \in Completion
               PROVE  /\ \A o \in owned' : o.sha = sig'.run.sha => Expired(o.at)'
                      /\ \A q \in requested' :
                           q.run = sig'.run /\ sig'.attempt >= q.attempt => Expired(q.at)'
      BY DEF Checked
  <1>0. owned' = owned /\ \A o \in owned : o.at \in Nat
        BY HistoryStep DEF TypeOK
  <1>1. CASE UNCHANGED sig /\ pc \in {"ladder", "rerun", "wait", "claim"}
    <2>1. \A o \in owned' : o.sha = sig'.run.sha => Expired(o.at)'
          BY <1>0, <1>1, ExpiredStays DEF Checked
    <2>2. ASSUME NEW q \in requested', q.run = sig'.run, sig'.attempt >= q.attempt
          PROVE  Expired(q.at)'
      <3>1. CASE q \in requested
        <4>1. Expired(q.at) /\ q.at \in Nat
              BY <1>1, <2>2, <3>1 DEF Checked, TypeOK
        <4> QED
            BY <4>1, ExpiredStays
      <3>2. CASE q \notin requested
        <4>1. q.attempt = github[sig.run].attempt + 1 /\ q.run = sig.run
              BY <3>2, HistoryStep DEF RequestRerun
        <4>2. /\ sig.attempt <= github[sig.run].attempt
              /\ sig.attempt \in Int /\ github[sig.run].attempt \in Int
              BY <1>1 DEF InHand, Completion, TypeOK
        <4> QED
            BY <1>1, <2>2, <4>1, <4>2
      <3> QED
          BY <3>1, <3>2
    <2> QED
        BY <2>1, <2>2
  <1>2. ASSUME NEW d \in deliveries, Take(d), sig' = d, UNCHANGED <<requested, now>>
        PROVE  /\ \A o \in owned' : o.sha = sig'.run.sha => Expired(o.at)'
               /\ \A q \in requested' :
                    q.run = sig'.run /\ sig'.attempt >= q.attempt => Expired(q.at)'
    <2>1. ASSUME NEW o \in owned', o.sha = d.run.sha PROVE Expired(o.at)'
          BY <1>0, <1>2, <2>1, ExpiredStays DEF Take, OwnPush, OwnRemembered
    <2>2. ASSUME NEW q \in requested', q.run = d.run, d.attempt >= q.attempt
          PROVE  Expired(q.at)'
      <3>1. CASE Expired(q.at)
            BY <1>2, <2>2, <3>1, ExpiredStays DEF TypeOK
      <3>2. CASE ~Expired(q.at)
        <4>1. q.run \in DOMAIN reran /\ reran[q.run].attempt <= q.attempt
              BY <1>2, <2>2, <3>2 DEF RerunRemembered
        <4>2. d.attempt < reran[q.run].attempt
              BY <1>2, <2>2, <4>1 DEF Take, RerunEcho, TypeOK, Completion
        <4>3. /\ d.attempt \in Int /\ q.attempt \in Int
              /\ reran[q.run].attempt \in Int
              BY <1>2, <2>2, <4>1 DEF TypeOK, Completion
        <4> QED
            BY <2>2, <4>1, <4>2, <4>3
      <3> QED
          BY <3>1, <3>2
    <2> QED
        BY <1>2, <2>1, <2>2
  <1>3. ASSUME NEW c \in 1 .. tip PROVE ~TakeGateFail(c)
    <2>1. [sha |-> c] \in GateFail
          BY GateOfTip
    <2> QED
        BY <2>1, ShaIs DEF TakeGateFail
  <1>4. \/ UNCHANGED sig /\ pc \in {"ladder", "rerun", "wait", "claim"}
        \/ \E d \in deliveries : Take(d) /\ sig' = d /\ UNCHANGED <<requested, now>>
        BY <1>3 DEF Next, Environment, Worker, vars, world, hist, Tick, PruneElsewhere, HumanPush,
           HumanRerun, Complete, Skip, Take, TakeManual, Ladder, RequestRerun, RerunGreen,
           RerunNotGreen, ClaimRefused, Claim, FixPush, Finish
  <1> QED
      BY <1>1, <1>2, <1>4

LEMMA StepOnRecord ==
  TypeOK /\ InHand /\ RerunRemembered /\ OnRecord /\ [Next]_vars => OnRecord'
  <1> SUFFICES ASSUME TypeOK, InHand, RerunRemembered, OnRecord, [Next]_vars, pc' = "rerun"
               PROVE  /\ sig'.run \in DOMAIN reran'
                      /\ reran'[sig'.run] = [attempt |-> sig'.attempt + 1, at |-> now']
                      /\ \A q \in requested' : q.run = sig'.run => Expired(q.at)'
      BY DEF OnRecord, EchoAttempt
  <1>1. CASE pc = "rerun" /\ UNCHANGED <<reran, sig, now, requested>>
        BY <1>1 DEF OnRecord, EchoAttempt, Expired
  <1>2. CASE PruneElsewhere
    <2>1. /\ pc = "rerun" /\ UNCHANGED <<sig, now, requested>>
          /\ reran' \in {reran, PrunedReran}
          BY <1>2 DEF PruneElsewhere, world, hist
    <2>2. /\ sig.run \in DOMAIN reran
          /\ reran[sig.run] = [attempt |-> sig.attempt + 1, at |-> now]
          BY <2>1 DEF OnRecord, EchoAttempt
    <2>3. Fresh(reran[sig.run].at)
          BY <2>2, FixLadderAssumption DEF Fresh, Expired, TypeOK
    <2>4. sig.run \in DOMAIN PrunedReran /\ PrunedReran[sig.run] = reran[sig.run]
          BY <2>2, <2>3, PrunedFacts
    <2> QED
        BY <2>1, <2>2, <2>4 DEF OnRecord, Expired
  <1>3. CASE Ladder
    <2>1. /\ sig.run \notin DOMAIN reran
          /\ reran' = Put(PrunedReran, sig.run, [attempt |-> sig.attempt + 1, at |-> now])
          /\ UNCHANGED <<sig, now, requested>>
          BY <1>3 DEF Ladder, Rerunnable, EchoAttempt, world, hist
    <2>2. \A q \in requested : q.run = sig.run => Expired(q.at)
          BY <2>1 DEF RerunRemembered
    <2> QED
        BY <2>1, <2>2 DEF Put, Expired
  <1>4. \/ pc = "rerun" /\ UNCHANGED <<reran, sig, now, requested>>
        \/ PruneElsewhere \/ Ladder
        BY DEF Next, Environment, Worker, vars, world, memory, hist, Tick, HumanPush,
           HumanRerun, Complete, Skip, Take, TakeManual, TakeGateFail, RequestRerun, RerunGreen,
           RerunNotGreen, ClaimRefused, Claim, FixPush, Finish
  <1> QED
      BY <1>1, <1>2, <1>3, <1>4

-----------------------------------------------------------------------------
(* Theorems *)

LEMMA InitIInv == Init => IInv
  <1> SUFFICES ASSUME Init PROVE IInv
      OBVIOUS
  <1>1. TypeOK
        BY InitTypeOK
  <1>2. InHand
    <2>1. \A u \in Run : u.sha > tip => github[u] = Absent
          BY DEF Init, Started, Run, Commit
    <2>2. sig = NoSignal /\ pc = "idle" /\ deliveries = {}
          BY DEF Init
    <2> QED
        BY <2>1, <2>2, FixLadderAssumption DEF InHand
  <1>3. ClaimReleased
    <2>1. \A c \in Commit : Entry(fixSHA, c) = Unclaimed
          BY DEF Init, Entry, Nothing
    <2> QED
        BY <2>1 DEF Init, ClaimReleased, Unclaimed
  <1>4. /\ OwnRemembered /\ RerunRemembered /\ FixRemembered /\ LatchedIsFixed
        /\ Checked /\ OnRecord
        BY DEF Init, OwnRemembered, RerunRemembered, FixRemembered, LatchedIsFixed, Checked,
               OnRecord, Nothing
  <1> QED
      BY <1>1, <1>2, <1>3, <1>4 DEF IInv

\* The inductive invariant: the maps cover their window, whoever prunes them.
THEOREM Invariance == Spec => []IInv
  <1>1. IInv /\ [Next]_vars => IInv'
        BY StepTypeOK, StepInHand, StepClaimReleased, StepOwnRemembered,
           StepRerunRemembered, StepFixRemembered, StepLatchedIsFixed, StepChecked,
           StepOnRecord DEF IInv
  <1> QED
      BY <1>1, InitIInv, PTL DEF Spec

\* Every variable keeps its type, whoever does the pushing.
THEOREM TypeCorrect == Spec => []TypeOK
  <1>1. TypeOK /\ InHand /\ [Next]_vars => TypeOK' /\ InHand'
        BY StepTypeOK, StepInHand
  <1>2. Init => TypeOK /\ InHand
        BY InitIInv DEF IInv
  <1> QED
      BY <1>1, <1>2, PTL DEF Spec

\* Who starts a Fix for a commit: Claim, for the signal in hand
LEMMA StartsIsClaim ==
  ASSUME TypeOK, InHand, [Next]_vars, Starts
  PROVE  Claim /\ pc = "claim" /\ sig' = sig
  BY DEF Starts, Next, Environment, Worker, vars, Tick, PruneElsewhere, HumanPush,
         HumanRerun, Complete, Skip, Take, TakeManual, TakeGateFail, Ladder, RequestRerun, RerunGreen,
         RerunNotGreen, ClaimRefused, Claim, FixPush, Finish

\* No Fix starts for a CI run of a commit the daemon knows that it pushed while fixing
\* a red commit, nor for the completion of a rerun it requested (selfCausedOrStale,
\* finishFixSHA, tryCIRerun).
THEOREM NoFixOfOwnDeeds == Spec => SelfCausedNotFixed
  <1> DEFINE Others == /\ \A o \in owned : o.sha = sig.run.sha => Expired(o.at)
                       /\ \A q \in requested :
                            q.run = sig.run /\ sig.attempt >= q.attempt => Expired(q.at)
  <1>1. ASSUME IInv, [Next]_vars, Starts, sig \in Completion PROVE Others
        BY <1>1, StartsIsClaim DEF IInv, Checked
  <1>2. IInv /\ [Next]_vars => [Starts /\ sig \in Completion => Others]_vars
        BY <1>1
  <1> QED
      BY <1>2, Invariance, PTL DEF Spec, SelfCausedNotFixed

\* No run is rerun twice within the window (tryCIRerun).
THEOREM OneRerun == Spec => RerunOnce
  <1>1. ASSUME IInv, [Next]_vars, NEW p \in requested, NEW q \in requested' \ requested,
               p.run = q.run
        PROVE  Expired(p.at)
    <2>1. RequestRerun
          BY <1>1, HistoryStep
    <2>2. q.run = sig.run /\ pc = "rerun"
          BY <1>1, <2>1 DEF RequestRerun
    <2> QED
        BY <1>1, <2>2 DEF IInv, OnRecord
  <1>2. IInv /\ [Next]_vars =>
          [\A p \in requested, q \in requested' \ requested :
             p.run = q.run => Expired(p.at)]_vars
        BY <1>1
  <1> QED
      BY <1>2, Invariance, PTL DEF Spec, RerunOnce

\* Who gives a signal up before its Fix: ClaimRefused
LEMMA RefusedIsClaimed ==
  ASSUME TypeOK, InHand, [Next]_vars, pc = "claim", pc' = "idle"
  PROVE  Claimed(ShaOf(sig))
  BY DEF Next, Environment, Worker, vars, Tick, PruneElsewhere, HumanPush,
         HumanRerun, Complete, Skip, Take, TakeManual, TakeGateFail, Ladder, RequestRerun, RerunGreen,
         RerunNotGreen, ClaimRefused, Claim, FixPush, Finish, world, memory, fixing, hist

\* No Fix starts on a commit a clean, delivered Fix has dealt with, and no claim is
\* refused for any other (claimFixSHA, finishFixSHA).
THEOREM ExactClaims == Spec => ClaimIsExact
  <1> DEFINE Clean == {f \in fixes : f.sha = ShaOf(sig)}
  <1>1. ASSUME IInv, [Next]_vars, Starts, NEW f \in Clean
        PROVE  Expired(f.at)
    <2>1. ~Claimed(ShaOf(sig))
          BY <1>1, StartsIsClaim DEF IInv, Claim
    <2> QED
        BY <1>1, <2>1 DEF IInv, FixRemembered, Claimed
  <1>2. ASSUME IInv, [Next]_vars, pc = "claim", pc' = "idle"
        PROVE  Clean # {}
    <2>1. Claimed(ShaOf(sig))
          BY <1>2, RefusedIsClaimed DEF IInv
    <2>2. ShaOf(sig) \in Commit
          BY <1>2, ShaIs DEF IInv, InHand
    <2>3. ~Entry(fixSHA, ShaOf(sig)).inflight
          BY <1>2, <2>2 DEF IInv, ClaimReleased
    <2>4. ShaOf(sig) \in DOMAIN fixSHA /\ fixSHA[ShaOf(sig)].ok
          BY <2>1, <2>3 DEF Claimed, Entry
    <2>5. \E f \in fixes : f.sha = ShaOf(sig)
          BY <1>2, <2>4 DEF IInv, LatchedIsFixed
    <2> QED
        BY <2>5
  <1>3. IInv /\ [Next]_vars =>
          [/\ Starts => \A f \in Clean : Expired(f.at)
           /\ pc = "claim" /\ pc' = "idle" => Clean # {}]_vars
        BY <1>1, <1>2
  <1> QED
      BY <1>3, Invariance, PTL DEF Spec, ClaimIsExact

\* A claim is in flight exactly during its Fix (claimFixSHA, finishFixSHA).
THEOREM ClaimsReleased == Spec => []ClaimReleased
  <1>1. IInv => ClaimReleased
        BY DEF IInv
  <1> QED
      BY <1>1, Invariance, PTL

-----------------------------------------------------------------------------
(* Tokens *)

\* What GitHub has minted for this configuration, and is not believed to live longer
Sound(t) == t # NoToken =>
  t \in Token /\ t.exp <= t.dies /\ t.repos = Reach(ScopeRepos(conf.repos))

\* Nobody asks for an App's token without an App.
AppHeld ==
  \/ Provider(conf) = "app"
  \/ /\ cached = NoToken /\ reused = NoToken
     /\ \A c \in Callers : tpc[c] \in {"idle", "call"}

\* The cached token is the last one, and has the time it was minted with.
CacheHolds ==
  /\ Sound(cached) /\ Sound(reused)
  /\ IF cached = NoToken THEN minted = -Life ELSE cached.exp >= minted + Assumed

\* Whoever mints holds the lock, and the reason to mint stands.
MintAlone == \A c \in Callers : tpc[c] = "mint" =>
  ~Unexpired /\ \A d \in Callers : tpc[d] = "mint" => d = c

TokensIInv == TokensTypeOK /\ AppHeld /\ CacheHolds /\ MintAlone

\* The repos that a token is to reach: those configured; with none configured GitHub
\* gives the whole installation.
InScope(repos) ==
  /\ conf.repos # {} => repos = {r.name : r \in conf.repos}
  /\ conf.repos = {} => repos = Installed

\* A step of some caller, or the clock's
Steps(c) == Ask(c) \/ Served(c) \/ Lock(c) \/ Minted(c) \/ MintFails(c) \/ Call(c)

-----------------------------------------------------------------------------
\* The lifetimes are numbers, in their order.
LEMMA Lifetimes ==
  /\ Margin \in Nat /\ Early \in Nat /\ Assumed \in Nat /\ MaxTicks \in Nat
  /\ Life \in Nat /\ Life > 0 /\ Margin <= Assumed /\ Assumed <= Life
  BY TokensAssumption

\* What the types say of the time and the configuration
LEMMA TimeIsNat ==
  ASSUME TokensTypeOK
  PROVE  clock \in Nat /\ clock <= MaxTicks /\ minted \in Int /\ conf \in Confs
  <1>1. clock \in 0 .. MaxTicks /\ minted \in -Life .. clock /\ conf \in Confs
        BY DEF TokensTypeOK
  <1> QED
      BY <1>1, Lifetimes

\* An App that the daemon starts with is installed for one owner, and its tokens reach
\* the repos of that owner, or the whole installation when the configuration has none.
LEMMA AppScope ==
  ASSUME conf \in Confs, Provider(conf) = "app"
  PROVE  /\ InScope(Reach(ScopeRepos(conf.repos)))
         /\ Reach(ScopeRepos(conf.repos)) \in SUBSET Installed
         /\ Cardinality(Owners(conf.repos)) <= 1
  <1>1. ScopeRepos(conf.repos) # NoToken
        BY DEF Provider
  <1>2. ~(Cardinality(Owners(conf.repos)) > 1)
        BY <1>1 DEF ScopeRepos
  <1>3. conf.repos \in SUBSET Repo
        BY TokensAssumption DEF Confs
  <1>4. Cardinality(Owners(conf.repos)) \in Nat
    <2>1. Owners(conf.repos) \in SUBSET {"acme", "zed"}
          BY <1>3 DEF Owners, Repo
    <2>2. IsFiniteSet({"acme", "zed"})
      <3>1. IsFiniteSet({"acme"}) /\ {"acme", "zed"} = {"acme"} \cup {"zed"}
            BY FS_Singleton
      <3> QED
          BY <3>1, FS_AddElement
    <2> QED
        BY <2>1, <2>2, FS_Subset, FS_CardinalityType
  <1>5. ScopeRepos(conf.repos) = {r.name : r \in conf.repos}
        BY <1>2 DEF ScopeRepos
  <1>6. {r.name : r \in conf.repos} \in SUBSET Installed
        BY <1>3 DEF Repo, Installed
  <1>7. Reach(ScopeRepos(conf.repos)) \in SUBSET Installed
        BY <1>5, <1>6 DEF Reach
  <1>8. conf.repos = {} <=> {r.name : r \in conf.repos} = {}
        OBVIOUS
  <1>9. InScope(Reach(ScopeRepos(conf.repos)))
        BY <1>5, <1>8 DEF InScope, Reach
  <1> QED
      BY <1>2, <1>4, <1>7, <1>9

\* What GitHub answers is such a token.
LEMMA MintedSound ==
  ASSUME TokensTypeOK, Provider(conf) = "app", NEW exp \in {clock + Life, clock + Assumed}
  PROVE  LET t == [exp |-> exp, dies |-> clock + Life, repos |-> Reach(ScopeRepos(conf.repos))]
         IN  /\ t \in Token /\ t # NoToken /\ Sound(t)
             /\ t.exp >= clock + Assumed /\ t.dies > clock
  <1> DEFINE t == [exp |-> exp, dies |-> clock + Life, repos |-> Reach(ScopeRepos(conf.repos))]
  <1>1. clock \in Nat /\ conf \in Confs
        BY TimeIsNat
  <1>2. exp \in Nat /\ clock + Life \in Nat /\ exp <= clock + Life /\ exp >= clock + Assumed
        BY <1>1, Lifetimes
  <1>3. Reach(ScopeRepos(conf.repos)) \in SUBSET Installed
        BY <1>1, AppScope
  <1>4. t \in Token
        BY <1>2, <1>3 DEF Token
  <1>5. t # NoToken
        BY <1>4, TokensAssumption
  <1>6. clock + Life > clock
        BY <1>1, Lifetimes
  <1> QED
      BY <1>2, <1>4, <1>5, <1>6 DEF Sound

-----------------------------------------------------------------------------
(* The steps *)

\* What a step does to the callers' places and tokens
LEMMA Places ==
  ASSUME TokensTypeOK, NEW c \in Callers
  PROVE  /\ \A t : Use(c, t) => /\ tpc'[c] = "call" /\ token'[c] = t
                                /\ \A d \in Callers \ {c} : tpc'[d] = tpc[d] /\ token'[d] = token[d]
         /\ \A to : tpc' = [tpc EXCEPT ![c] = to] =>
              tpc'[c] = to /\ \A d \in Callers \ {c} : tpc'[d] = tpc[d]
  BY DEF Use, TokensTypeOK

\* Every step keeps the types.
LEMMA TypeStep ==
  ASSUME TokensIInv, [TokensNext]_tokensVars
  PROVE  TokensTypeOK'
  <1> DEFINE Types == {"idle", "locked out", "mint", "call"}
  <1>1. TokensTypeOK /\ AppHeld
        BY DEF TokensIInv
  <1>2. clock \in Nat /\ clock <= MaxTicks /\ MaxTicks \in Nat /\ Life \in Nat
        BY <1>1, TimeIsNat, Lifetimes
  <1>3. ASSUME NEW c \in Callers, NEW t \in Token \cup {NoToken}, Use(c, t)
        PROVE  tpc' \in [Callers -> Types] /\ token' \in [Callers -> Token \cup {NoToken}]
        BY <1>1, <1>3 DEF Use, TokensTypeOK
  <1>4. ASSUME NEW c \in Callers, NEW to \in Types, tpc' = [tpc EXCEPT ![c] = to]
        PROVE  tpc' \in [Callers -> Types]
        BY <1>1, <1>4 DEF TokensTypeOK
  <1>5. ASSUME UNCHANGED <<clock, conf, cached, minted, refused>>,
               reused' \in Token \cup {NoToken}, tpc' \in [Callers -> Types],
               token' \in [Callers -> Token \cup {NoToken}]
        PROVE  TokensTypeOK'
        BY <1>1, <1>5 DEF TokensTypeOK
  <1>6. /\ cached \in Token \cup {NoToken} /\ reused \in Token \cup {NoToken}
        /\ tpc \in [Callers -> Types] /\ token \in [Callers -> Token \cup {NoToken}]
        /\ minted \in -Life .. clock /\ refused \in DOMAIN Needs \cup {NoToken}
        BY <1>1 DEF TokensTypeOK
  <1>7. CASE UNCHANGED tokensVars
        BY <1>1, <1>7 DEF tokensVars, calls, TokensTypeOK
  <1>8. CASE TickToken
    <2>1. UNCHANGED <<conf, cached, reused, tpc, token, minted, refused>>
          BY <1>8 DEF TickToken, calls
    <2>2. clock' = clock + 1 /\ clock + 1 <= MaxTicks /\ minted' = minted
          BY <1>2, <1>8 DEF TickToken
    <2>3. minted \in -Life .. clock
          BY <1>6
    <2>4. clock' \in 0 .. MaxTicks /\ minted' \in -Life .. clock'
          BY <1>2, <2>2, <2>3
    <2> QED
        BY <1>1, <2>1, <2>4 DEF TokensTypeOK
  <1>9. ASSUME NEW c \in Callers, Ask(c)
        PROVE  TokensTypeOK'
    <2>1. UNCHANGED <<clock, conf, cached, reused, minted, refused>>
          BY <1>9 DEF Ask
    <2>2. CASE Use(c, NoToken) \/ Use(c, reused)
          BY <1>3, <1>5, <1>6, <2>1, <2>2
    <2>3. CASE tpc' = [tpc EXCEPT ![c] = "locked out"] /\ UNCHANGED token
          BY <1>4, <1>5, <1>6, <2>1, <2>3
    <2> QED
        BY <1>9, <2>2, <2>3 DEF Ask
  <1>10. ASSUME NEW c \in Callers, Served(c)
         PROVE  TokensTypeOK'
    <2>1. UNCHANGED <<clock, conf, cached, reused, minted, refused>> /\ Use(c, reused)
          BY <1>10 DEF Served
    <2> QED
        BY <1>3, <1>5, <1>6, <2>1
  <1>11. ASSUME NEW c \in Callers, Lock(c)
         PROVE  TokensTypeOK'
    <2>1. UNCHANGED <<clock, conf, cached, minted, refused>>
          BY <1>11 DEF Lock
    <2>2. CASE Use(c, cached) /\ Kept(c, cached)
          BY <1>3, <1>5, <1>6, <2>1, <2>2 DEF Kept
    <2>3. CASE tpc' = [tpc EXCEPT ![c] = "mint"] /\ UNCHANGED <<token, reused>>
          BY <1>4, <1>5, <1>6, <2>1, <2>3
    <2> QED
        BY <1>11, <2>2, <2>3 DEF Lock
  <1>12. ASSUME NEW c \in Callers, Minted(c)
         PROVE  TokensTypeOK'
    <2>1. Provider(conf) = "app"
          BY <1>1, <1>12 DEF Minted, AppHeld
    <2> PICK exp \in {clock + Life, clock + Assumed} :
          LET t == [exp |-> exp, dies |-> clock + Life, repos |-> Reach(ScopeRepos(conf.repos))]
          IN  cached' = t /\ Use(c, t) /\ Kept(c, t)
        BY <1>12 DEF Minted
    <2>2. PICK t \in Token : cached' = t /\ Use(c, t) /\ Kept(c, t)
          BY <1>1, <2>1, MintedSound
    <2>3. reused' \in Token \cup {NoToken}
          BY <1>6, <2>2 DEF Kept
    <2>4. tpc' \in [Callers -> Types] /\ token' \in [Callers -> Token \cup {NoToken}]
          BY <1>3, <2>2
    <2>5. minted' = clock /\ UNCHANGED <<clock, conf, refused>>
          BY <1>12 DEF Minted
    <2>6. minted' \in -Life .. clock'
          BY <1>2, <2>5
    <2> QED
        BY <1>1, <2>2, <2>3, <2>4, <2>5, <2>6 DEF TokensTypeOK
  <1>13. ASSUME NEW c \in Callers, MintFails(c)
         PROVE  TokensTypeOK'
    <2>1. UNCHANGED <<clock, conf, cached, reused, minted, refused>>
          BY <1>13 DEF MintFails
    <2>2. CASE Use(c, NoToken)
          BY <1>3, <1>5, <1>6, <2>1, <2>2
    <2>3. CASE tpc' = [tpc EXCEPT ![c] = "idle"] /\ UNCHANGED token
          BY <1>4, <1>5, <1>6, <2>1, <2>3
    <2> QED
        BY <1>13, <2>2, <2>3 DEF MintFails
  <1>14. ASSUME NEW c \in Callers, Call(c)
         PROVE  TokensTypeOK'
    <2>1. refused' \in DOMAIN Needs \cup {NoToken}
          BY <1>14 DEF Call, OpsOf, GitOps, ApiOps, Needs
    <2>2. /\ UNCHANGED <<clock, conf, cached, reused, minted>>
          /\ tpc' = [tpc EXCEPT ![c] = "idle"] /\ token' = [token EXCEPT ![c] = NoToken]
          BY <1>14 DEF Call
    <2>3. tpc' \in [Callers -> Types] /\ token' \in [Callers -> Token \cup {NoToken}]
          BY <1>4, <1>6, <2>2
    <2> QED
        BY <1>1, <2>1, <2>2, <2>3 DEF TokensTypeOK
  <1> QED
      BY <1>7, <1>8, <1>9, <1>10, <1>11, <1>12, <1>13, <1>14 DEF TokensNext

\* Only a daemon with an App goes to the App.
LEMMA AppStep ==
  ASSUME TokensIInv, [TokensNext]_tokensVars
  PROVE  AppHeld'
  <1>1. TokensTypeOK /\ AppHeld
        BY DEF TokensIInv
  <1>2. UNCHANGED conf
        BY DEF TokensNext, tokensVars, calls, TickToken, Ask, Served, Lock, Minted, MintFails, Call
  <1>3. CASE Provider(conf) = "app"
        BY <1>2, <1>3 DEF AppHeld, Provider
  <1>4. CASE Provider(conf) # "app"
    <2>1. /\ cached = NoToken /\ reused = NoToken
          /\ \A c \in Callers : tpc[c] \in {"idle", "call"}
          BY <1>1, <1>4 DEF AppHeld
    <2>2. CASE UNCHANGED tokensVars \/ TickToken
          BY <2>1, <2>2 DEF tokensVars, calls, TickToken, AppHeld
    <2>3. ASSUME NEW c \in Callers, Steps(c)
          PROVE  AppHeld'
      <3>1. Ask(c) \/ Call(c)
            BY <2>1, <2>3 DEF Steps, Served, Lock, Minted, MintFails
      <3>2. UNCHANGED <<cached, reused>>
            BY <3>1 DEF Ask, Call
      <3>3. Use(c, NoToken) \/ tpc' = [tpc EXCEPT ![c] = "idle"]
            BY <1>4, <3>1 DEF Ask, Call
      <3>4. \A d \in Callers : tpc'[d] \in {"idle", "call"}
            BY <1>1, <2>1, <3>3, Places
      <3> QED
          BY <2>1, <3>2, <3>4 DEF AppHeld
    <2> QED
        BY <2>2, <2>3 DEF TokensNext, Steps
  <1> QED
      BY <1>3, <1>4

\* The token that is kept is the last one minted, and a sound one.
LEMMA CacheStep ==
  ASSUME TokensIInv, [TokensNext]_tokensVars
  PROVE  CacheHolds'
  <1>1. TokensTypeOK /\ AppHeld /\ CacheHolds
        BY DEF TokensIInv
  <1>2. UNCHANGED conf
        BY DEF TokensNext, tokensVars, calls, TickToken, Ask, Served, Lock, Minted, MintFails, Call
  <1>3. Reach(ScopeRepos(conf.repos))' = Reach(ScopeRepos(conf.repos))
        BY <1>2
  <1>4. ASSUME UNCHANGED <<cached, minted>>, reused' \in {reused, cached}
        PROVE  CacheHolds'
    <2>1. Sound(cached)' /\ Sound(reused)'
          BY <1>1, <1>3, <1>4 DEF CacheHolds, Sound
    <2> QED
        BY <1>1, <1>4, <2>1 DEF CacheHolds
  <1>5. CASE UNCHANGED tokensVars \/ TickToken
        BY <1>4, <1>5 DEF tokensVars, TickToken
  <1>6. ASSUME NEW c \in Callers, Ask(c) \/ Served(c) \/ Lock(c) \/ MintFails(c) \/ Call(c)
        PROVE  CacheHolds'
        BY <1>4, <1>6 DEF Ask, Served, Lock, MintFails, Call, Kept
  <1>7. ASSUME NEW c \in Callers, Minted(c)
        PROVE  CacheHolds'
    <2>1. Provider(conf) = "app"
          BY <1>1, <1>7 DEF Minted, AppHeld
    <2> PICK exp \in {clock + Life, clock + Assumed} :
          LET t == [exp |-> exp, dies |-> clock + Life, repos |-> Reach(ScopeRepos(conf.repos))]
          IN  cached' = t /\ Use(c, t) /\ Kept(c, t)
        BY <1>7 DEF Minted
    <2>2. PICK t \in Token : /\ cached' = t /\ Kept(c, t)
                             /\ t # NoToken /\ Sound(t) /\ t.exp >= clock + Assumed
          BY <1>1, <2>1, MintedSound
    <2>3. reused' \in {reused, t} /\ minted' = clock
          BY <1>7, <2>2 DEF Kept, Minted
    <2>4. Sound(cached)' /\ Sound(reused)'
          BY <1>1, <1>3, <2>2, <2>3 DEF CacheHolds, Sound
    <2> QED
        BY <2>2, <2>3, <2>4 DEF CacheHolds
  <1> QED
      BY <1>5, <1>6, <1>7 DEF TokensNext

\* The lock is for one, and time only wears the cached token out.
LEMMA MintStep ==
  ASSUME TokensIInv, [TokensNext]_tokensVars
  PROVE  MintAlone'
  <1>1. TokensTypeOK /\ MintAlone
        BY DEF TokensIInv
  <1>2. clock \in Nat /\ Margin \in Nat /\ (cached # NoToken => cached.exp \in Nat)
        BY <1>1, TimeIsNat, Lifetimes DEF TokensTypeOK, Token
  <1>3. ASSUME UNCHANGED cached, clock' \in {clock, clock + 1}, ~Unexpired
        PROVE  ~Unexpired'
        BY <1>2, <1>3 DEF Unexpired, Good
  <1>4. ASSUME UNCHANGED cached, clock' \in {clock, clock + 1},
               \A d \in Callers : tpc'[d] = "mint" => tpc[d] = "mint"
        PROVE  MintAlone'
        BY <1>1, <1>3, <1>4 DEF MintAlone
  <1>5. CASE UNCHANGED tokensVars \/ TickToken
        BY <1>4, <1>5 DEF tokensVars, calls, TickToken
  <1>6. ASSUME NEW c \in Callers, Ask(c) \/ Served(c) \/ MintFails(c) \/ Call(c)
        PROVE  MintAlone'
    <2>1. UNCHANGED <<clock, cached>>
          BY <1>6 DEF Ask, Served, MintFails, Call
    <2>2. (\E t : Use(c, t)) \/ \E to \in {"idle", "locked out"} : tpc' = [tpc EXCEPT ![c] = to]
          BY <1>6 DEF Ask, Served, MintFails, Call
    <2>3. \A d \in Callers : tpc'[d] = "mint" => tpc[d] = "mint"
          BY <1>1, <2>2, Places
    <2> QED
        BY <1>4, <2>1, <2>3
  <1>7. ASSUME NEW c \in Callers, Lock(c)
        PROVE  MintAlone'
    <2>1. UNCHANGED <<clock, cached>> /\ \A d \in Callers : tpc[d] # "mint"
          BY <1>7 DEF Lock, Locked
    <2>2. CASE Use(c, cached)
          BY <1>1, <1>4, <2>1, <2>2, Places
    <2>3. CASE ~Unexpired /\ tpc' = [tpc EXCEPT ![c] = "mint"]
      <3>1. ~Unexpired'
            BY <1>3, <2>1, <2>3
      <3>2. \A d \in Callers \ {c} : tpc'[d] # "mint"
            BY <1>1, <2>1, <2>3, Places
      <3> QED
          BY <3>1, <3>2 DEF MintAlone
    <2> QED
        BY <1>7, <2>2, <2>3 DEF Lock
  <1>8. ASSUME NEW c \in Callers, Minted(c)
        PROVE  MintAlone'
    <2>1. tpc[c] = "mint" /\ \E t : Use(c, t)
          BY <1>8 DEF Minted
    <2>2. \A d \in Callers : tpc'[d] # "mint"
          BY <1>1, <2>1, Places DEF MintAlone
    <2> QED
        BY <2>2 DEF MintAlone
  <1> QED
      BY <1>5, <1>6, <1>7, <1>8 DEF TokensNext

-----------------------------------------------------------------------------
(* The theorems *)

\* Nobody has asked yet.
LEMMA TokensInitially ==
  ASSUME TokensInit
  PROVE  TokensIInv
  <1>1. TokensTypeOK
        BY Lifetimes DEF TokensInit, TokensTypeOK
  <1>2. AppHeld /\ CacheHolds /\ MintAlone
        BY DEF TokensInit, AppHeld, CacheHolds, MintAlone, Sound
  <1> QED
      BY <1>1, <1>2 DEF TokensIInv

\* The invariant of the tokens holds in every state.
THEOREM TokensInvariance == TokensSpec => []TokensIInv
  <1>1. TokensInit => TokensIInv
        BY TokensInitially
  <1>2. TokensIInv /\ [TokensNext]_tokensVars => TokensIInv'
        BY TypeStep, AppStep, CacheStep, MintStep DEF TokensIInv
  <1> QED
      BY <1>1, <1>2, PTL DEF TokensSpec

\* Whoever gets an App's token from the cache, the API client or a mint of its own gets
\* a live one, for the repos of the configuration if it has any on GitHub and else for
\* the whole installation, and the App is asked for another only when the last is about
\* to end, whatever number of callers find it ended at once.
THEOREM TokensDoServe == TokensSpec => TokensServe
  <1> DEFINE Got(c) == token[c] = NoToken /\ token'[c] # NoToken =>
               /\ clock < token'[c].dies
               /\ InScope(token'[c].repos)
               /\ Cardinality(Owners(conf.repos)) <= 1
             Apart == minted' # minted => minted' - minted >= Assumed - Margin
  <1>1. ASSUME TokensIInv, TokensNext
        PROVE  (\A c \in Callers : Got(c)) /\ Apart
    <2>1. TokensTypeOK /\ AppHeld /\ CacheHolds /\ MintAlone
          BY <1>1 DEF TokensIInv
    <2>2. clock \in Nat /\ minted \in Int /\ conf \in Confs
          BY <2>1, TimeIsNat
    <2>3. ASSUME NEW t, NEW m \in Nat, Sound(t), Good(t, m), Provider(conf) = "app"
          PROVE  /\ clock < t.dies /\ InScope(t.repos)
                 /\ Cardinality(Owners(conf.repos)) <= 1
      <3>1. t \in Token /\ t.exp <= t.dies /\ t.repos = Reach(ScopeRepos(conf.repos))
            BY <2>3 DEF Sound, Good
      <3>2. clock < t.exp - m /\ t.exp \in Nat /\ t.dies \in Nat
            BY <2>3, <3>1 DEF Good, Token
      <3> QED
          BY <2>2, <2>3, <3>1, <3>2, AppScope
    <2>4. ASSUME NEW c \in Callers, NEW t, Use(c, t), Got(c)
          PROVE  \A d \in Callers : Got(d)
          BY <2>1, <2>4, Places
    <2>5. CASE TickToken
          BY <2>5 DEF TickToken, calls
    <2>6. ASSUME NEW c \in Callers, NEW t, NEW m \in Nat, Use(c, t),
                 t = NoToken \/ (Sound(t) /\ Good(t, m) /\ Provider(conf) = "app")
          PROVE  \A d \in Callers : Got(d)
      <3>1. token'[c] = t
            BY <2>1, <2>6, Places
      <3>2. Got(c)
            BY <2>3, <2>6, <3>1
      <3> QED
          BY <2>4, <2>6, <3>2
    <2>7. ASSUME NEW c \in Callers, Ask(c) \/ Served(c) \/ Lock(c) \/ MintFails(c)
          PROVE  (\A d \in Callers : Got(d)) /\ Apart
      <3>1. UNCHANGED minted
            BY <2>7 DEF Ask, Served, Lock, MintFails
      <3>2. CASE UNCHANGED token
            BY <3>1, <3>2
      <3>3. \/ UNCHANGED token \/ Use(c, NoToken)
            \/ Use(c, reused) /\ Good(reused, Early)
            \/ Use(c, cached) /\ Good(cached, Margin)
            BY <2>7 DEF Ask, Served, Lock, MintFails, Unexpired
      <3>4. Good(reused, Early) \/ Good(cached, Margin) => Provider(conf) = "app"
            BY <2>1 DEF Good, AppHeld
      <3> QED
          BY <2>1, <2>6, <3>1, <3>2, <3>3, <3>4, Lifetimes DEF CacheHolds
    <2>8. ASSUME NEW c \in Callers, Minted(c)
          PROVE  (\A d \in Callers : Got(d)) /\ Apart
      <3>1. Provider(conf) = "app" /\ tpc[c] = "mint" /\ minted' = clock
            BY <2>1, <2>8 DEF Minted, AppHeld
      <3>2. PICK exp \in {clock + Life, clock + Assumed} :
              LET t == [exp |-> exp, dies |-> clock + Life, repos |-> Reach(ScopeRepos(conf.repos))]
              IN  cached' = t /\ Use(c, t) /\ Kept(c, t)
            BY <2>8 DEF Minted
      <3>3. PICK t \in Token : t # NoToken /\ Sound(t) /\ t.dies > clock /\ Use(c, t)
            BY <2>1, <3>1, <3>2, MintedSound
      <3>4. Got(c)
        <4>1. token'[c] = t /\ t.repos = Reach(ScopeRepos(conf.repos))
              BY <2>1, <3>3, Places DEF Sound
        <4>2. clock < t.dies
              BY <2>2, <3>3 DEF Token
        <4> QED
            BY <2>2, <3>1, <4>1, <4>2, AppScope
      <3>5. Apart
        <4>1. ~Unexpired
              BY <2>1, <3>1 DEF MintAlone
        <4>2. CASE cached = NoToken
          <5>1. minted = -Life
                BY <2>1, <4>2 DEF CacheHolds
          <5> QED
              BY <2>2, <3>1, <5>1, Lifetimes
        <4>3. CASE cached # NoToken
          <5>1. cached.exp >= minted + Assumed /\ cached.exp \in Nat
                BY <2>1, <4>3 DEF CacheHolds, TokensTypeOK, Token
          <5>2. clock >= cached.exp - Margin
                BY <2>2, <4>1, <4>3, <5>1, Lifetimes DEF Unexpired, Good
          <5> QED
              BY <2>2, <3>1, <5>1, <5>2, Lifetimes
        <4> QED
            BY <4>2, <4>3
      <3> QED
          BY <2>4, <3>3, <3>4, <3>5
    <2>9. ASSUME NEW c \in Callers, Call(c)
          PROVE  (\A d \in Callers : Got(d)) /\ Apart
      <3>1. UNCHANGED minted /\ token' = [token EXCEPT ![c] = NoToken]
            BY <2>9 DEF Call
      <3>2. \A d \in Callers : token'[d] \in {token[d], NoToken}
            BY <2>1, <3>1 DEF TokensTypeOK
      <3> QED
          BY <3>1, <3>2
    <2> QED
        BY <1>1, <2>5, <2>7, <2>8, <2>9 DEF TokensNext
  <1>2. TokensIInv /\ [TokensNext]_tokensVars => [(\A c \in Callers : Got(c)) /\ Apart]_tokensVars
        BY <1>1
  <1>3. [(\A c \in Callers : Got(c)) /\ Apart]_tokensVars =>
          [/\ \A c \in Callers : token[c] = NoToken /\ token'[c] # NoToken =>
                /\ clock < token'[c].dies
                /\ conf.repos # {} => token'[c].repos = {r.name : r \in conf.repos}
                /\ conf.repos = {} => token'[c].repos = Installed
                /\ Cardinality(Owners(conf.repos)) <= 1
           /\ Apart]_tokensVars
        BY DEF InScope
  <1> QED
      BY <1>2, <1>3, TokensInvariance, PTL DEF TokensSpec, TokensServe

-----------------------------------------------------------------------------
(* Reverify *)

\* Where reverifyGate is in its time: a pushed Fix's poll comes no later than its time
\* and an interval after it; a gate's poll comes when all intervals before it are over.
InTime ==
  /\ vpc = "idle" => elapsed = 0 /\ due = 0 /\ polls = 0
  /\ vpc = "wait" => elapsed <= due
  /\ Owned => /\ elapsed <= RunTimeout + Interval
              /\ vpc = "wait" => due <= RunTimeout + Interval
  /\ ~Owned => /\ vpc = "poll" => polls < Attempts /\ elapsed = polls * Interval
               /\ vpc = "wait" => polls < Attempts /\ due = polls * Interval
               /\ vpc = "done" => elapsed <= (Attempts - 1) * Interval

\* A verdict is there at the end only, and is of the runs listed last.
Judged ==
  /\ verdict # NoVerdict <=> vpc = "done"
  /\ verdict # NoVerdict /\ Owned =>
       /\ verdict \in {"green", "red"} =>
            last # {} /\ (\A r \in last : r \in RunsOfPush /\ standing[r] # "running")
       /\ verdict = "green" => \A r \in last : Passed(r)
       /\ verdict = "red" => evidence \in last /\ ~Passed(evidence)
       /\ verdict = "no run" => last = {} /\ elapsed > NoRunAfter
       /\ verdict = "late" => elapsed > RunTimeout
       /\ verdict \notin {"still", "skipped", "no gate"}

ReverifyIInv == ReverifyTypeOK /\ InTime /\ Judged

\* The names of verdicts, and the conclusions of runs.
LEMMA Answers ==
  /\ RunTimeout \in Nat /\ NoRunAfter \in Nat /\ Interval \in Nat
  /\ Attempts \in Nat /\ Attempts > 0
  /\ NoVerdict \notin Verdicts /\ NoVerdict \notin Runs
  /\ "running" \notin Conclusions /\ "failure" \in Conclusions
  /\ Red \in Runs /\ Other \in Runs /\ RunsOfPush \subseteq Runs
  BY ReverifyAssumption DEF Concluded, Runs

\* The intervals before a poll are those before the last one at most.
LEMMA Intervals ==
  ASSUME NEW k \in Nat, k < Attempts
  PROVE  /\ k * Interval \in Nat /\ k * Interval <= (Attempts - 1) * Interval
         /\ (k + 1) * Interval = k * Interval + Interval
  <1>1. Interval \in Nat /\ Attempts \in Nat /\ k <= Attempts - 1
        BY Answers
  <1>2. \A a, b, n \in Nat : a <= b => a * n <= b * n
        OBVIOUS
  <1>3. \A a, n \in Nat : a * n \in Nat /\ (a + 1) * n = a * n + n
        OBVIOUS
  <1> QED
      BY <1>1, <1>2, <1>3

\* The newest of some runs on the branch is one of them.
LEMMA NewestIs ==
  ASSUME ReverifyTypeOK, NEW rs, rs \subseteq Range(runs), rs # {}
  PROVE  Newest(rs) \in rs /\ Newest(rs) \in Runs
  <1> DEFINE D == {i \in DOMAIN runs : runs[i] \in rs}
  <1>1. runs \in Seq(Runs) /\ DOMAIN runs = 1 .. Len(runs) /\ Len(runs) \in Nat
    <2>1. runs \in Seq(Runs)
          BY DEF ReverifyTypeOK
    <2> QED
        BY <2>1
  <1>2. D \subseteq Nat /\ D # {}
    <2>1. PICK r \in rs : r \in Range(runs)
          OBVIOUS
    <2>2. PICK i \in DOMAIN runs : runs[i] = r
          BY <2>1 DEF Range
    <2> QED
        BY <1>1, <2>1, <2>2
  <1>3. PICK i \in D : \A j \in D : j >= i
        BY <1>2, LeastExists
  <1>4. \A j \in 1 .. i - 1 : runs[j] \notin rs
        BY <1>1, <1>3
  <1>5. \E i_1 \in DOMAIN runs : runs[i_1] \in rs /\ \A j \in 1 .. i_1 - 1 : runs[j] \notin rs
        BY <1>4
  <1> QED
      BY <1>1, <1>5 DEF Newest

\* At first nothing was asked.
LEMMA ReverifyInitially == ReverifyInit => ReverifyIInv
  <1> SUFFICES ASSUME ReverifyInit PROVE ReverifyIInv
      OBVIOUS
  <1>1. runs \in Seq(Runs) /\ runs # <<>> /\ IsInjective(runs)
    <2>1. runs = <<Red>>
          BY DEF ReverifyInit
    <2>2. \A a, b \in DOMAIN <<Red>> : a = b
          OBVIOUS
    <2> QED
        BY <2>1, <2>2, Answers DEF IsInjective
  <1>2. standing \in [Runs -> Conclusions \cup {"running"}]
        BY Answers DEF ReverifyInit
  <1>3. /\ elapsed = 0 /\ due = 0 /\ polls = 0 /\ vpc = "idle"
        /\ last = {} /\ verdict = NoVerdict /\ evidence = NoVerdict
        BY DEF ReverifyInit
  <1>4. ReverifyTypeOK
    <2>1. elapsed \in Nat /\ due \in 0 .. elapsed + Interval /\ polls \in 0 .. Attempts
          BY <1>3, Answers
    <2> QED
        BY <2>1, <1>1, <1>2, <1>3, Zenon DEF ReverifyInit, ReverifyTypeOK
  <1>5. InTime /\ Judged
        BY <1>3, Answers DEF InTime, Judged
  <1> QED
      BY <1>4, <1>5 DEF ReverifyIInv

\* Every step keeps it: a verdict is of runs that are over, and runs that are over stay so;
\* every wait ends within the time.
LEMMA ReverifyStep == ReverifyIInv /\ [ReverifyNext]_reverifyVars => ReverifyIInv'
  <1> SUFFICES ASSUME ReverifyIInv, [ReverifyNext]_reverifyVars PROVE ReverifyIInv'
      OBVIOUS
  <1>0. ReverifyTypeOK /\ InTime /\ Judged
        BY DEF ReverifyIInv
  <1>t. /\ elapsed \in Nat /\ due \in Nat /\ due <= elapsed + Interval
        /\ polls \in Nat /\ polls <= Attempts /\ Interval \in Nat
        /\ RunTimeout \in Nat /\ NoRunAfter \in Nat /\ Attempts \in Nat /\ Attempts > 0
    <2>1. elapsed \in Nat /\ due \in 0 .. elapsed + Interval /\ polls \in 0 .. Attempts
          BY <1>0 DEF ReverifyTypeOK
    <2> QED
        BY <2>1, Answers
  <1>q. /\ source \in {"ci", "dev-gate", "prod-health"} /\ pushedSHA \in BOOLEAN
        /\ runs \in Seq(Runs) /\ runs # <<>> /\ IsInjective(runs)
        /\ standing \in [Runs -> Conclusions \cup {"running"}]
        /\ smoke \in {"pass", "fail", "no gate"}
        BY <1>0 DEF ReverifyTypeOK
  <1>r. /\ runs \in Seq(Runs) /\ DOMAIN runs = 1 .. Len(runs) /\ Len(runs) \in Nat
        /\ 1 \in DOMAIN runs
    <2>1. runs \in Seq(Runs) /\ runs # <<>>
          BY <1>q
    <2> QED
        BY <2>1
  <1>v. /\ vpc \in {"idle", "poll", "wait", "done"} /\ last \subseteq Range(runs)
        /\ verdict \in Verdicts \cup {NoVerdict} /\ evidence \in Runs \cup {NoVerdict}
        BY <1>0 DEF ReverifyTypeOK
  <1>l. Range(runs) \subseteq Runs /\ last \subseteq Runs
        BY <1>r, <1>v DEF Range
  <1>1. CASE Another \/ Retry
    <2>1. Anew
          BY <1>1 DEF Another, Retry
    <2>2. /\ elapsed' = 0 /\ due' = 0 /\ polls' = 0 /\ vpc' = "idle"
          /\ last' = {} /\ verdict' = NoVerdict /\ evidence' = NoVerdict
          /\ UNCHANGED <<asked, smoke>>
          BY <2>1 DEF Anew
    <2>3. runs' \in Seq(Runs) /\ runs' # <<>> /\ IsInjective(runs')
      <3>1. CASE Retry
            BY <3>1, <1>q DEF Retry
      <3>2. CASE Another
        <4>1. runs' = <<Red>>
              BY <3>2 DEF Another
        <4>2. \A a, b \in DOMAIN <<Red>> : a = b
              OBVIOUS
        <4> QED
            BY <4>1, <4>2, Answers DEF IsInjective
      <3> QED
          BY <1>1, <3>1, <3>2
    <2>4. standing' \in [Runs -> Conclusions \cup {"running"}]
          BY <1>1, <1>q, Answers DEF Another, Retry
    <2>5. elapsed' \in Nat /\ due' \in 0 .. elapsed' + Interval /\ polls' \in 0 .. Attempts
          BY <2>2, <1>t
    <2>6. ReverifyTypeOK'
          BY <2>2, <2>3, <2>4, <2>5, <1>q, Zenon DEF ReverifyTypeOK, asked
    <2>7. InTime' /\ Judged'
          BY <2>2, <1>t DEF InTime, Judged
    <2> QED
        BY <2>6, <2>7 DEF ReverifyIInv
  <1>2. CASE TickPoll
    <2>1. /\ vpc = "wait" /\ elapsed < due /\ elapsed' = elapsed + 1
          /\ UNCHANGED <<asked, outside, vpc, due, polls, last, verdict, evidence>>
          BY <1>2 DEF TickPoll
    <2>2. elapsed' \in Nat /\ due' \in 0 .. elapsed' + Interval /\ polls' \in 0 .. Attempts
          BY <2>1, <1>t
    <2>3. ReverifyTypeOK'
          BY <2>1, <2>2, <1>q, <1>v, Zenon DEF ReverifyTypeOK, asked, outside
    <2>4. Owned' <=> Owned
          BY <2>1 DEF asked, Owned
    <2>5. InTime'
          BY <2>1, <2>4, <1>0, <1>t DEF InTime
    <2>6. Judged'
          BY <2>1, <1>0 DEF Judged
    <2> QED
        BY <2>3, <2>5, <2>6 DEF ReverifyIInv
  <1>3. CASE Probe
    <2>1. /\ smoke' \in {"pass", "fail"}
          /\ UNCHANGED <<elapsed, asked, runs, standing, vpc, due, polls, last, verdict, evidence>>
          BY <1>3 DEF Probe
    <2>2. elapsed' \in Nat /\ due' \in 0 .. elapsed' + Interval /\ polls' \in 0 .. Attempts
          BY <2>1, <1>t
    <2>3. ReverifyTypeOK'
          BY <2>1, <2>2, <1>q, <1>v, Zenon DEF ReverifyTypeOK, asked
    <2>4. (Owned' <=> Owned) /\ \A r \in Runs : Passed(r)' <=> Passed(r)
          BY <2>1 DEF asked, Owned, Passed
    <2>5. InTime'
          BY <2>1, <2>4, <1>0 DEF InTime
    <2>6. Judged'
          BY <2>1, <2>4, <1>0, <1>l DEF Judged
    <2> QED
        BY <2>3, <2>5, <2>6 DEF ReverifyIInv
  <1>4. CASE \E r \in Runs : Appear(r)
    <2>1. PICK r \in Runs : Appear(r)
          BY <1>4
    <2>2. /\ r \notin Range(runs) /\ runs' = <<r>> \o runs
          /\ UNCHANGED <<elapsed, asked, standing, smoke, vpc, due, polls, last, verdict, evidence>>
          BY <2>1 DEF Appear
    <2>3. /\ runs' \in Seq(Runs) /\ runs' # <<>> /\ IsInjective(runs')
          /\ Range(runs) \subseteq Range(runs')
      <3>1. /\ runs' \in Seq(Runs) /\ DOMAIN runs' = 1 .. Len(runs) + 1 /\ Len(runs) \in Nat
            /\ \A k \in 1 .. Len(runs) + 1 : runs'[k] = IF k = 1 THEN r ELSE runs[k - 1]
            BY <2>2, <1>r
      <3>3. \A k \in 1 .. Len(runs) : runs[k] # r
            BY <2>2, <1>r DEF Range
      <3>4. \A j, k \in 1 .. Len(runs) : runs[j] = runs[k] => j = k
            BY <1>q, <1>r DEF IsInjective
      <3>5. \A j, k \in 1 .. Len(runs) + 1 : runs'[j] = runs'[k] => j = k
        <4> TAKE j, k \in 1 .. Len(runs) + 1
        <4>0. \A i \in 1 .. Len(runs) + 1 : i # 1 =>
                i - 1 \in 1 .. Len(runs) /\ runs'[i] = runs[i - 1] /\ runs'[i] # r
              BY <3>1, <3>3
        <4>1. CASE j = 1 \/ k = 1
          <5>1. runs'[1] = r
                BY <3>1
          <5> QED
              BY <4>0, <4>1, <5>1
        <4>2. CASE j # 1 /\ k # 1
          <5>1. runs'[j] = runs'[k] => j - 1 = k - 1
                BY <4>0, <4>2, <3>4
          <5> QED
              BY <5>1
        <4> QED
            BY <4>1, <4>2
      <3>6. \A k \in 1 .. Len(runs) : runs[k] = runs'[k + 1] /\ k + 1 \in 1 .. Len(runs) + 1
            BY <3>1
      <3>7. Range(runs) \subseteq Range(runs')
            BY <3>1, <3>6, <1>r, SMTT(30) DEF Range
      <3> QED
          BY <3>1, <3>5, <3>7 DEF IsInjective
    <2>4. elapsed' \in Nat /\ due' \in 0 .. elapsed' + Interval /\ polls' \in 0 .. Attempts
          BY <2>2, <1>t
    <2>5. ReverifyTypeOK'
          BY <2>2, <2>3, <2>4, <1>q, <1>v, Zenon DEF ReverifyTypeOK, asked
    <2>6. (Owned' <=> Owned) /\ \A x \in Runs : Passed(x)' <=> Passed(x)
          BY <2>2 DEF asked, Owned, Passed
    <2>7. InTime' /\ Judged'
          BY <2>2, <2>6, <1>0, <1>l, Zenon DEF InTime, Judged
    <2> QED
        BY <2>5, <2>7 DEF ReverifyIInv
  <1>5. CASE \E r \in Runs, c \in Conclusions : RunEnds(r, c)
    <2>1. PICK r \in Runs, c \in Conclusions : RunEnds(r, c)
          BY <1>5
    <2>2. /\ standing[r] = "running" /\ standing' = [standing EXCEPT ![r] = c]
          /\ UNCHANGED <<elapsed, asked, runs, smoke, vpc, due, polls, last, verdict, evidence>>
          BY <2>1 DEF RunEnds
    <2>3. /\ standing' \in [Runs -> Conclusions \cup {"running"}]
          /\ \A x \in Runs : standing[x] # "running" => standing'[x] = standing[x]
          BY <2>2, <1>q
    <2>4. elapsed' \in Nat /\ due' \in 0 .. elapsed' + Interval /\ polls' \in 0 .. Attempts
          BY <2>2, <1>t
    <2>5. ReverifyTypeOK'
          BY <2>2, <2>3, <2>4, <1>q, <1>v, Zenon DEF ReverifyTypeOK, asked
    <2>6. (Owned' <=> Owned) /\ \A x \in Runs : standing[x] # "running" => Passed(x)' = Passed(x)
          BY <2>2, <2>3 DEF asked, Owned, Passed
    <2>7. InTime'
          BY <2>2, <2>6, <1>0 DEF InTime
    <2>8. Judged'
      <3>1. \A x \in last : x \in Runs
            BY <1>l
      <3> QED
          BY <2>2, <2>3, <2>6, <1>0, <3>1 DEF Judged
    <2> QED
        BY <2>5, <2>7, <2>8 DEF ReverifyIInv
  <1>6. CASE Begin
    <2>1. /\ vpc = "idle" /\ UNCHANGED <<elapsed, asked, outside, due, polls, last>>
          BY <1>6 DEF Begin
    <2>2. \/ /\ source = "prod-health" /\ vpc' = "done" /\ verdict' = "skipped"
             /\ evidence' = NoVerdict
          \/ /\ source = "dev-gate" /\ vpc' = "done" /\ verdict' = "no gate"
             /\ evidence' = NoVerdict
          \/ vpc' = "poll" /\ UNCHANGED <<verdict, evidence>>
          BY <1>6 DEF Begin, Return
    <2>3. elapsed' \in Nat /\ due' \in 0 .. elapsed' + Interval /\ polls' \in 0 .. Attempts
          BY <2>1, <1>t
    <2>4. /\ vpc' \in {"idle", "poll", "wait", "done"}
          /\ verdict' \in Verdicts \cup {NoVerdict} /\ evidence' \in Runs \cup {NoVerdict}
          BY <2>2, <1>v DEF Verdicts
    <2>5. ReverifyTypeOK'
          BY <2>1, <2>3, <2>4, <1>q, <1>v, Zenon DEF ReverifyTypeOK, asked, outside
    <2>6. Owned' <=> Owned
          BY <2>1 DEF asked, Owned
    <2>7. elapsed = 0 /\ polls = 0 /\ verdict = NoVerdict
          BY <2>1, <1>0 DEF InTime, Judged
    <2>8. elapsed = polls * Interval /\ elapsed <= (Attempts - 1) * Interval
          BY <2>7, <1>t, Intervals
    <2>9. InTime'
      <3>1. /\ elapsed' = 0 /\ due' = due /\ polls' = 0 /\ vpc' # "idle" /\ vpc' # "wait"
            BY <2>1, <2>2, <2>7
      <3>2. 0 <= RunTimeout + Interval /\ 0 < Attempts /\ 0 = 0 * Interval
            BY <1>t
      <3>3. 0 <= (Attempts - 1) * Interval
            BY <2>7, <2>8
      <3> QED
          BY <3>1, <3>2, <3>3 DEF InTime
    <2>10. Judged'
      <3>1. Owned => source = "ci"
            BY DEF Owned
      <3> QED
          BY <2>1, <2>2, <2>6, <2>7, <3>1, Answers DEF Judged, Verdicts
    <2> QED
        BY <2>5, <2>9, <2>10 DEF ReverifyIInv
  <1>7. CASE Wake
    <2>1. /\ vpc = "wait" /\ elapsed = due /\ vpc' = "poll"
          /\ UNCHANGED <<elapsed, asked, outside, due, polls, last, verdict, evidence>>
          BY <1>7 DEF Wake
    <2>2. elapsed' \in Nat /\ due' \in 0 .. elapsed' + Interval /\ polls' \in 0 .. Attempts
          BY <2>1, <1>t
    <2>3. ReverifyTypeOK'
          BY <2>1, <2>2, <1>q, <1>v, Zenon DEF ReverifyTypeOK, asked, outside
    <2>4. Owned' <=> Owned
          BY <2>1 DEF asked, Owned
    <2>5. InTime'
          BY <2>1, <2>4, <1>0, <1>t DEF InTime
    <2>6. Judged'
          BY <2>1, <1>0, Answers DEF Judged
    <2> QED
        BY <2>3, <2>5, <2>6 DEF ReverifyIInv
  <1>8. CASE Cancel
    <2>1. /\ vpc = "wait" /\ vpc' = "done" /\ verdict' = "stopped"
          /\ UNCHANGED <<elapsed, asked, outside, due, polls, last>>
          /\ evidence' = NoVerdict \/ evidence' = RunURL(last)
          BY <1>8 DEF Cancel, Return
    <2>2. elapsed' \in Nat /\ due' \in 0 .. elapsed' + Interval /\ polls' \in 0 .. Attempts
          BY <2>1, <1>t
    <2>3. verdict' \in Verdicts \cup {NoVerdict} /\ evidence' \in Runs \cup {NoVerdict}
          BY <2>1, <1>0, <1>v, NewestIs DEF RunURL, Verdicts
    <2>4. ReverifyTypeOK'
          BY <2>1, <2>2, <2>3, <1>q, <1>v, Zenon DEF ReverifyTypeOK, asked, outside
    <2>5. Owned' <=> Owned
          BY <2>1 DEF asked, Owned
    <2>6. ~Owned => elapsed <= (Attempts - 1) * Interval
          BY <2>1, <1>0, <1>t, Intervals DEF InTime
    <2>7. InTime'
          BY <2>1, <2>5, <2>6, <1>0, <1>t DEF InTime
    <2>8. Judged'
          BY <2>1, Answers DEF Judged, Verdicts
    <2> QED
        BY <2>4, <2>7, <2>8 DEF ReverifyIInv
  <1>9. CASE Judge \/ Unlisted
    <2> DEFINE rs == RunsForSHA
    <2>1. /\ vpc = "poll" /\ Owned
          /\ UNCHANGED <<elapsed, asked, outside, polls>>
          BY <1>9 DEF Judge, Unlisted, BySHA, Owned
    <2>2. \/ /\ last' = rs /\ rs # {} /\ AllCompleted(rs) /\ FailedRuns(rs) = {}
             /\ vpc' = "done" /\ verdict' = "green" /\ evidence' = NoVerdict /\ due' = due
          \/ /\ last' = rs /\ rs # {} /\ AllCompleted(rs) /\ FailedRuns(rs) # {}
             /\ vpc' = "done" /\ verdict' = "red" /\ due' = due
             /\ evidence' = Newest(FailedRuns(rs))
          \/ /\ last' = rs /\ rs = {} /\ elapsed > NoRunAfter
             /\ vpc' = "done" /\ verdict' = "no run" /\ evidence' = NoVerdict /\ due' = due
          \/ /\ last' \in {last, rs} /\ elapsed > RunTimeout
             /\ vpc' = "done" /\ verdict' = "late" /\ evidence' = NoVerdict /\ due' = due
          \/ /\ last' \in {last, rs} /\ ~(elapsed > RunTimeout)
             /\ vpc' = "wait" /\ due' = elapsed + Interval
             /\ UNCHANGED <<verdict, evidence>>
          BY <1>9 DEF Judge, Unlisted, Return, RunURL, LateOrSleep, Sleep, OutOfTime
    <2>3. rs \subseteq Range(runs) /\ rs \subseteq RunsOfPush /\ last' \subseteq Range(runs)
          BY <2>2, <1>v DEF RunsForSHA
    <2>4. /\ verdict' \in Verdicts \cup {NoVerdict} /\ evidence' \in Runs \cup {NoVerdict}
          /\ vpc' \in {"done", "wait"}
      <3>1. FailedRuns(rs) \subseteq Range(runs)
            BY <2>3 DEF FailedRuns
      <3>2. FailedRuns(rs) # {} => Newest(FailedRuns(rs)) \in Runs
            BY <3>1, <1>0, NewestIs
      <3> HIDE DEF rs
      <3> QED
          BY <2>2, <3>2, <1>v DEF Verdicts
    <2>5. elapsed' \in Nat /\ due' \in 0 .. elapsed' + Interval /\ polls' \in 0 .. Attempts
      <3>1. /\ elapsed' = elapsed /\ polls' = polls
            /\ due' = due \/ due' = elapsed + Interval
        <4> HIDE DEF rs
        <4> QED
            BY <2>1, <2>2
      <3> QED
          BY <3>1, <1>t
    <2>6. ReverifyTypeOK'
          BY <2>1, <2>3, <2>4, <2>5, <1>q, <1>v, Zenon DEF ReverifyTypeOK, asked, outside
    <2>7. Owned'
          BY <2>1 DEF asked, Owned
    <2>8. InTime'
      <3>1. /\ elapsed' = elapsed /\ vpc' \in {"done", "wait"}
            /\ vpc' = "wait" => ~(elapsed > RunTimeout) /\ due' = elapsed + Interval
        <4> HIDE DEF rs
        <4> QED
            BY <2>1, <2>2
      <3>2. elapsed <= RunTimeout + Interval
            BY <2>1, <1>0 DEF InTime
      <3> HIDE DEF Owned
      <3> QED
          BY <3>1, <3>2, <2>7, <1>t DEF InTime
    <2>9. verdict = NoVerdict
          BY <2>1, <1>0 DEF Judged
    <2>10. (verdict' # NoVerdict <=> vpc' = "done")
           BY <2>2, <2>9, Answers DEF Verdicts
    <2>11. standing' = standing /\ elapsed' = elapsed
           BY <2>1 DEF outside
    <2>12. vpc' = "done" =>
             /\ verdict' \in {"green", "red"} =>
                  last' # {} /\ (\A r \in last' : r \in RunsOfPush /\ standing'[r] # "running")
             /\ verdict' = "green" => \A r \in last' : Passed(r)'
             /\ verdict' = "red" => evidence' \in last' /\ ~Passed(evidence)'
             /\ verdict' = "no run" => last' = {} /\ elapsed' > NoRunAfter
             /\ verdict' = "late" => elapsed' > RunTimeout
             /\ verdict' \notin {"still", "skipped", "no gate"}
      <3>1. FailedRuns(rs) # {} =>
              Newest(FailedRuns(rs)) \in rs /\ standing[Newest(FailedRuns(rs))] \notin {"success", "neutral"}
        <4>1. FailedRuns(rs) \subseteq Range(runs)
              BY <2>3 DEF FailedRuns
        <4>2. FailedRuns(rs) # {} => Newest(FailedRuns(rs)) \in FailedRuns(rs)
              BY <4>1, <1>0, NewestIs
        <4> QED
            BY <4>2 DEF FailedRuns
      <3>2. FailedRuns(rs) = {} => \A r \in rs : standing[r] \in {"success", "neutral"}
            BY DEF FailedRuns
      <3>3. AllCompleted(rs) => \A r \in rs : standing[r] # "running"
            BY DEF AllCompleted
      <3> HIDE DEF rs
      <3> QED
          BY <2>2, <2>3, <2>11, <3>1, <3>2, <3>3 DEF Passed
    <2>13. Judged'
           BY <2>7, <2>10, <2>12 DEF Judged
    <2> QED
        BY <2>6, <2>8, <2>13 DEF ReverifyIInv
  <1>10. CASE \E heard \in BOOLEAN : Check(heard)
    <2>1. PICK heard \in BOOLEAN : Check(heard)
          BY <1>10
    <2>2. /\ vpc = "poll" /\ ~Owned /\ polls' = polls + 1
          /\ UNCHANGED <<elapsed, asked, outside>>
          BY <2>1 DEF Check, BySHA, Owned
    <2>3. last' \in {last, {Latest}}
          BY <2>1 DEF Check
    <2>4. \/ /\ vpc' = "done" /\ verdict' = "green" /\ evidence' = NoVerdict /\ due' = due
          \/ /\ vpc' = "done" /\ verdict' = "still" /\ evidence' = RunURL(last') /\ due' = due
          \/ /\ polls + 1 # Attempts /\ vpc' = "wait" /\ due' = elapsed + Interval
             /\ UNCHANGED <<verdict, evidence>>
          BY <2>1 DEF Check, Return, Sleep
    <2>5. last' \subseteq Range(runs)
      <3>1. runs[1] \in Range(runs)
            BY <1>r DEF Range
      <3> QED
          BY <2>3, <3>1, <1>v DEF Latest
    <2>6. /\ verdict' \in Verdicts \cup {NoVerdict} /\ evidence' \in Runs \cup {NoVerdict}
          /\ vpc' \in {"done", "wait"}
          BY <2>4, <2>5, <1>0, <1>v, NewestIs DEF RunURL, Verdicts
    <2>7. polls < Attempts /\ elapsed = polls * Interval
          BY <2>2, <1>0 DEF InTime
    <2>8. elapsed' \in Nat /\ due' \in 0 .. elapsed' + Interval /\ polls' \in 0 .. Attempts
      <3>1. elapsed' = elapsed /\ polls' = polls + 1 /\ due' \in {due, elapsed + Interval}
            BY <2>2, <2>4
      <3> QED
          BY <3>1, <2>7, <1>t
    <2>9. ReverifyTypeOK'
          BY <2>2, <2>5, <2>6, <2>8, <1>q, <1>v, Zenon DEF ReverifyTypeOK, asked, outside
    <2>10. ~Owned'
           BY <2>2 DEF asked, Owned
    <2>11. /\ elapsed <= (Attempts - 1) * Interval
           /\ elapsed + Interval = (polls + 1) * Interval
           BY <2>7, <1>t, Intervals
    <2>12. InTime'
      <3>1. /\ vpc' \in {"done", "wait"} /\ elapsed' = elapsed /\ polls' = polls + 1
            /\ vpc' = "wait" => polls' < Attempts /\ due' = polls' * Interval
            /\ vpc' = "wait" => elapsed <= due'
            BY <2>2, <2>4, <2>7, <2>11, <1>t
      <3> HIDE DEF Owned
      <3> QED
          BY <3>1, <2>10, <2>11 DEF InTime
    <2>13. Judged'
      <3>1. verdict = NoVerdict
            BY <2>2, <1>0 DEF Judged
      <3> QED
          BY <2>4, <2>10, <3>1, Answers DEF Judged, Verdicts
    <2> QED
        BY <2>9, <2>12, <2>13 DEF ReverifyIInv
  <1>11. CASE UNCHANGED reverifyVars
    <2>1. UNCHANGED <<elapsed, source, pushedSHA, runs, standing, smoke, vpc, due, polls, last,
                      verdict, evidence>>
          BY <1>11 DEF reverifyVars, asked, outside
    <2> QED
        BY <2>1, <1>0, ZenonT(60) DEF ReverifyIInv, ReverifyTypeOK, InTime, Judged, Owned, Passed
  <1> QED
      BY <1>1, <1>2, <1>3, <1>4, <1>5, <1>6, <1>7, <1>8, <1>9, <1>10, <1>11 DEF ReverifyNext

\* The types of a reverification: one lists runs of the branch only, and waits no longer
\* than an interval.
THEOREM ReverifyInvariance == ReverifySpec => []ReverifyIInv
  BY ReverifyInitially, ReverifyStep, PTL DEF ReverifySpec

\* A Fix that the daemon has pushed is judged by its own commit's runs alone, all over,
\* and every verdict comes in its time (reverifyGate, reverifyBySHA).
THEOREM VerdictStaysItsOwn == ReverifySpec => []VerdictIsItsOwn
  <1>1. ReverifyIInv => VerdictIsItsOwn
    <2> SUFFICES ASSUME ReverifyIInv PROVE VerdictIsItsOwn
        OBVIOUS
    <2>1. ReverifyTypeOK /\ InTime /\ Judged
          BY DEF ReverifyIInv
    <2>2. vpc # "idle" /\ ~Owned => elapsed <= (Attempts - 1) * Interval
      <3>1. vpc \in {"idle", "poll", "wait", "done"} /\ polls \in 0 .. Attempts
            BY <2>1 DEF ReverifyTypeOK
      <3>2. polls \in Nat /\ Attempts \in Nat /\ Interval \in Nat
            BY <3>1, Answers
      <3>3. elapsed \in Nat /\ due \in 0 .. elapsed + Interval
            BY <2>1 DEF ReverifyTypeOK
      <3>4. polls < Attempts => polls * Interval <= (Attempts - 1) * Interval
            BY <3>2, Intervals
      <3>5. CASE vpc = "poll" \/ vpc = "done"
            BY <3>5, <2>1, <3>4 DEF InTime
      <3>6. CASE vpc = "wait"
            BY <3>6, <2>1, <3>3, <3>2, <3>4, Intervals DEF InTime
      <3> QED
          BY <3>1, <3>5, <3>6
    <2> QED
        BY <2>1, <2>2 DEF InTime, Judged, VerdictIsItsOwn
  <1> QED
      BY <1>1, ReverifyInvariance, PTL

-----------------------------------------------------------------------------
(* Intake *)

\* In a stretch of time that ends now no more has passed than it had tokens for, those
\* that are left aside; nothing has since the last refill.
WithinRate ==
  /\ \A t \in 0 .. LastMoment : t >= refilled => passes[t] = passes[refilled]
  /\ \A s \in 0 .. moment : s <= refilled =>
       LetPass(s, refilled) + tokens <= Burst + Rate * (refilled - s)

\* Whatever was taken or answered has its signal sent, or a handler that will.
OnTheWay(d) == d \in emitted \/ \E h \in Handlers : hpc[h] = "emit" /\ hid[h] = d
TakenGoes == \A d \in answered \cup DOMAIN seen : Wanted(d) => OnTheWay(d)

\* An id is remembered from when it was taken, or was forgotten when it had expired.
Remembered ==
  \A d \in Ids : accepted[d] >= 0 /\ d \notin crowded =>
    IF d \in DOMAIN seen THEN seen[d] = accepted[d] ELSE moment - accepted[d] >= TTL

\* What the constants are.
LEMMA Doors ==
  /\ NoId \in Deliveries /\ Ids \subseteq Deliveries
  /\ QueueCap \in Nat /\ DedupeMax \in Nat /\ DedupeMax > 0 /\ TTL \in Nat
  /\ Rate \in Nat /\ Burst \in Nat /\ LastMoment \in Nat /\ MaxStarts \in Nat
  BY IntakeAssumption DEF Ids

\* The order holds every id that is remembered, once.
Ordered == order \in Seq(Ids) /\ IsInjective(order) /\ Range(order) = DOMAIN seen

LEMMA OrderCounts ==
  ASSUME Ordered
  PROVE  Cardinality(DOMAIN seen) = Len(order) /\ Len(order) \in Nat
  <1>1. order \in Seq(Ids) /\ DOMAIN order = 1 .. Len(order) /\ Len(order) \in Nat
        BY DEF Ordered
  <1>2. order \in [1 .. Len(order) -> DOMAIN seen]
    <2>1. order = [i \in 1 .. Len(order) |-> order[i]]
          BY <1>1
    <2>2. \A i \in 1 .. Len(order) : order[i] \in DOMAIN seen
          BY <1>1 DEF Ordered, Range
    <2> QED
        BY <2>1, <2>2
  <1>3. order \in Surjection(1 .. Len(order), DOMAIN seen)
    <2>1. \A t \in DOMAIN seen : \E i \in 1 .. Len(order) : order[i] = t
          BY <1>1 DEF Ordered, Range
    <2> QED
        BY <1>2, <2>1 DEF Surjection
  <1>4. order \in Injection(1 .. Len(order), DOMAIN seen)
        BY <1>2 DEF Injection, Ordered
  <1>5. IsFiniteSet(1 .. Len(order)) /\ Cardinality(1 .. Len(order)) = Len(order)
        BY <1>1, FS_Interval
  <1> QED
      BY <1>1, <1>3, <1>4, <1>5, FS_Surjection

\* The first ids of the order are evicted: until there is room and the next one is live;
\* with room from the beginning only those that have expired.
LEMMA EvictedIs ==
  ASSUME Ordered, Len(order) <= DedupeMax
  PROVE  \E n \in 0 .. Len(order) :
           /\ Evicted.ids = {order[i] : i \in 1 .. n}
           /\ Evicted.rest = SubSeq(order, n + 1, Len(order))
           /\ Len(order) - n < DedupeMax
           /\ Len(order) < DedupeMax => \A i \in 1 .. n : ~Live(order[i])
  <1> DEFINE kept(n) == n = Len(order) \/ (Live(order[n + 1]) /\ Cardinality(DOMAIN seen) - n < DedupeMax)
             S == {n \in 0 .. Len(order) : kept(n)}
             first(n) == kept(n) /\ \A m \in 0 .. n - 1 : ~kept(m)
  <1>1. Cardinality(DOMAIN seen) = Len(order) /\ Len(order) \in Nat
        BY OrderCounts
  <1>2. \E n \in 0 .. Len(order) : first(n)
    <2>1. S \subseteq Nat /\ Len(order) \in S
          BY <1>1
    <2>2. PICK n \in S : \A m \in S : m >= n
          BY <2>1, LeastExists
    <2>3. n \in 0 .. Len(order) /\ kept(n)
          BY <2>2
    <2>4. \A m \in 0 .. n - 1 : ~kept(m)
      <3> SUFFICES ASSUME NEW m \in 0 .. n - 1, kept(m) PROVE FALSE
          OBVIOUS
      <3>1. m \in 0 .. Len(order) /\ m < n
            BY <2>3, <1>1
      <3>2. m \in S
            BY <3>1
      <3> HIDE DEF kept, S
      <3> QED
          BY <2>1, <2>2, <3>1, <3>2
    <2> HIDE DEF kept
    <2> QED
        BY <2>3, <2>4
  <1>3. PICK n \in 0 .. Len(order) : n = (CHOOSE m \in 0 .. Len(order) : first(m)) /\ first(n)
    <2> HIDE DEF first
    <2> QED
        BY <1>2
  <1>4. Evicted = [ids |-> {order[i] : i \in 1 .. n}, rest |-> SubSeq(order, n + 1, Len(order))]
        BY <1>3 DEF Evicted
  <1>5. Len(order) - n < DedupeMax
    <2>1. n = Len(order) \/ Len(order) - n < DedupeMax
          BY <1>1, <1>3
    <2>2. Len(order) - Len(order) = 0 /\ 0 < DedupeMax
          BY <1>1, Doors
    <2> QED
        BY <2>1, <2>2
  <1>6. ASSUME Len(order) < DedupeMax, NEW i \in 1 .. n
        PROVE  ~Live(order[i])
    <2>1. i - 1 \in 0 .. n - 1 /\ i - 1 + 1 = i /\ i - 1 # Len(order)
          /\ Len(order) - (i - 1) < DedupeMax
          BY <1>6, <1>1, Doors
    <2>2. ~kept(i - 1)
          BY <2>1, <1>3
    <2> QED
        BY <2>1, <2>2, <1>1
  <1> HIDE DEF kept, S, first
  <1> QED
      BY <1>4, <1>5, <1>6

\* A new id comes last in the order, and what goes for it was expired if there was room.
LEMMA RecordIs ==
  ASSUME Ordered, Len(order) <= DedupeMax, moment \in Nat, \A x \in DOMAIN seen : seen[x] \in 0 .. moment,
         NEW d \in Ids, Record(d)
  PROVE  /\ Ordered' /\ Len(order') <= DedupeMax
         /\ DOMAIN seen' \subseteq DOMAIN seen \cup {d} /\ d \in DOMAIN seen' /\ seen'[d] = moment
         /\ \A x \in DOMAIN seen' \ {d} : seen'[x] = seen[x]
         /\ d \in DOMAIN seen \/ Cardinality(DOMAIN seen) < DedupeMax =>
              \A x \in DOMAIN seen \ DOMAIN seen' : ~Live(x)
  <1>1. CASE d \in DOMAIN seen
    <2>1. seen' = [seen EXCEPT ![d] = moment] /\ order' = order
          BY <1>1 DEF Record
    <2>2. DOMAIN seen' = DOMAIN seen /\ seen'[d] = moment /\ \A x \in DOMAIN seen \ {d} : seen'[x] = seen[x]
          BY <2>1, <1>1
    <2> QED
        BY <1>1, <2>1, <2>2 DEF Ordered
  <1>2. CASE d \notin DOMAIN seen
    <2>1. /\ seen' = [x \in (DOMAIN seen \ Evicted.ids) \cup {d} |-> IF x = d THEN moment ELSE seen[x]]
          /\ order' = Append(Evicted.rest, d)
          BY <1>2 DEF Record
    <2>2. PICK n \in 0 .. Len(order) :
            /\ Evicted.ids = {order[i] : i \in 1 .. n}
            /\ Evicted.rest = SubSeq(order, n + 1, Len(order))
            /\ Len(order) - n < DedupeMax
            /\ Len(order) < DedupeMax => \A i \in 1 .. n : ~Live(order[i])
          BY EvictedIs
    <2> DEFINE rest == SubSeq(order, n + 1, Len(order))
               gone == {order[i] : i \in 1 .. n}
    <2>3. /\ order \in Seq(Ids) /\ DOMAIN order = 1 .. Len(order) /\ Len(order) \in Nat
          /\ n \in Nat /\ n <= Len(order)
      <3>1. order \in Seq(Ids)
            BY DEF Ordered
      <3>2. DOMAIN order = 1 .. Len(order) /\ Len(order) \in Nat
            BY <3>1
      <3> QED
          BY <3>1, <3>2
    <2>4. /\ rest \in Seq(Ids) /\ Len(rest) = Len(order) - n
          /\ \A i \in 1 .. Len(order) - n : rest[i] = order[n + i]
      <3>1. \A i \in n + 1 .. Len(order) : order[i] \in Ids
            BY <2>3
      <3>2. /\ rest \in Seq(Ids)
            /\ Len(rest) = IF n + 1 <= Len(order) THEN Len(order) - (n + 1) + 1 ELSE 0
            /\ \A i \in 1 .. Len(order) - (n + 1) + 1 : rest[i] = order[(n + 1) + i - 1]
        <4>1. n + 1 \in Int /\ Len(order) \in Int
              BY <2>3
        <4> QED
            BY <3>1, <4>1, SubSeqProperties
      <3>3. \A a, b \in Nat : b <= a =>
              /\ a - (b + 1) + 1 = a - b
              /\ ~(b + 1 <= a) => a - b = 0
              /\ \A i \in 1 .. a - b : (b + 1) + i - 1 = b + i
            OBVIOUS
      <3> QED
          BY ONLY <2>3, <3>2, <3>3
    <2>5. \A j, k \in 1 .. Len(order) : order[j] = order[k] => j = k
          BY <2>3 DEF Ordered, IsInjective
    <2>6. \A x \in DOMAIN seen : \E k \in 1 .. Len(order) : order[k] = x
          BY <2>3 DEF Ordered, Range
    <2>7. \A k \in 1 .. Len(order) : order[k] \in DOMAIN seen
          BY <2>3 DEF Ordered, Range
    <2> HIDE DEF rest
    <2>8. DOMAIN seen' = (DOMAIN seen \ gone) \cup {d}
          BY <2>1, <2>2
    <2>9. /\ order' \in Seq(Ids) /\ Len(order') = Len(rest) + 1 /\ DOMAIN order' = 1 .. Len(rest) + 1
          /\ \A k \in 1 .. Len(rest) : order'[k] = rest[k]
          /\ order'[Len(rest) + 1] = d
      <3>1. order' = Append(rest, d)
            BY <2>1, <2>2 DEF rest
      <3> QED
          BY <3>1, <2>4, AppendProperties
    <2>10. \A k \in 1 .. Len(rest) : rest[k] \in DOMAIN seen \ gone /\ rest[k] # d
      <3> TAKE k \in 1 .. Len(rest)
      <3>1. n + k \in 1 .. Len(order) /\ rest[k] = order[n + k]
            BY <2>3, <2>4, <2>2
      <3>2. \A i \in 1 .. n : i \in 1 .. Len(order) /\ i # n + k
            BY <2>3, <2>4
      <3>3. \A i \in 1 .. n : order[i] # order[n + k]
            BY <3>1, <3>2, <2>5
      <3> QED
          BY <3>1, <3>3, <2>7, <1>2
    <2>11. IsInjective(order')
      <3>0. Len(rest) \in Nat /\ Len(rest) = Len(order) - n
            BY <2>3, <2>4
      <3>1. \A j, k \in 1 .. Len(rest) : rest[j] = rest[k] => j = k
        <4> TAKE j, k \in 1 .. Len(rest)
        <4>1. /\ rest[j] = order[n + j] /\ rest[k] = order[n + k]
              /\ n + j \in 1 .. Len(order) /\ n + k \in 1 .. Len(order)
              BY <2>3, <2>4, <3>0
        <4>2. rest[j] = rest[k] => n + j = n + k
              BY <4>1, <2>5
        <4> QED
            BY <4>2, <2>3
      <3>2. \A j, k \in 1 .. Len(rest) + 1 : order'[j] = order'[k] => j = k
        <4> TAKE j, k \in 1 .. Len(rest) + 1
        <4>3. \A l \in Nat : \A i \in 1 .. l + 1 : i \in 1 .. l \/ i = l + 1
              OBVIOUS
        <4>4. /\ j \in 1 .. Len(rest) \/ j = Len(rest) + 1
              /\ k \in 1 .. Len(rest) \/ k = Len(rest) + 1
              BY ONLY <3>0, <4>3, j \in 1 .. Len(rest) + 1, k \in 1 .. Len(rest) + 1
        <4>1. CASE j \in 1 .. Len(rest) /\ k \in 1 .. Len(rest)
              BY <4>1, <2>9, <3>1
        <4>2. CASE j = Len(rest) + 1 \/ k = Len(rest) + 1
          <5>1. \A i \in 1 .. Len(rest) : order'[i] # d
                BY <2>9, <2>10
          <5> QED
              BY ONLY <4>2, <4>4, <5>1, <2>9
        <4> QED
            BY <4>1, <4>2, <4>4
      <3> QED
          BY <2>9, <3>2 DEF IsInjective
    <2>12. Range(order') = DOMAIN seen'
      <3>1. \A k \in DOMAIN order' : order'[k] \in DOMAIN seen'
        <4>1. \A l \in Nat : \A i \in 1 .. l + 1 : i \in 1 .. l \/ i = l + 1
              OBVIOUS
        <4>2. Len(rest) \in Nat
              BY <2>4
        <4> QED
            BY <4>1, <4>2, <2>8, <2>9, <2>10
      <3>2. \A x \in DOMAIN seen' : \E k \in DOMAIN order' : order'[k] = x
        <4> SUFFICES ASSUME NEW x \in DOMAIN seen' PROVE \E k \in DOMAIN order' : order'[k] = x
            OBVIOUS
        <4>1. CASE x = d
              BY <4>1, <2>3, <2>4, <2>9
        <4>2. CASE x # d
          <5>1. x \in DOMAIN seen /\ x \notin gone
                BY <4>2, <2>8
          <5>2. PICK k \in 1 .. Len(order) : order[k] = x
                BY <5>1, <2>6
          <5>3. ~(k \in 1 .. n)
                BY <5>1, <5>2
          <5>4. k - n \in 1 .. Len(rest) /\ rest[k - n] = order[k]
                BY <5>3, <2>3, <2>4
          <5> QED
            <6>1. Len(rest) \in Nat /\ k - n \in 1 .. Len(rest) + 1
                  BY <5>4, <2>3, <2>4
            <6> QED
                BY <6>1, <5>2, <5>4, <2>9
        <4> QED
            BY <4>1, <4>2
      <3> QED
          BY <3>1, <3>2 DEF Range
    <2>13. Len(order') <= DedupeMax
           BY <2>2, <2>3, <2>4, <2>9, Doors
    <2>14. seen'[d] = moment /\ \A x \in DOMAIN seen' \ {d} : seen'[x] = seen[x]
           BY <2>1, <2>2
    <2>15. Cardinality(DOMAIN seen) < DedupeMax => \A x \in DOMAIN seen \ DOMAIN seen' : ~Live(x)
           BY <2>2, <2>8, OrderCounts
    <2> QED
        BY <1>2, <2>8, <2>9, <2>11, <2>12, <2>13, <2>14, <2>15 DEF Ordered
  <1> QED
      BY <1>1, <1>2

-----------------------------------------------------------------------------
(* The limiter *)

\* What a time is worth in tokens adds up.
LEMMA Worth ==
  /\ \A a \in Nat : Rate * a \in Nat /\ a * Rate = Rate * a
  /\ \A a, b \in Nat : Rate * (a + b) = Rate * a + Rate * b
  <1>1. \A R, a, b \in Nat : R * a \in Nat /\ a * R = R * a /\ R * (a + b) = R * a + R * b
        OBVIOUS
  <1> QED
      BY <1>1, Doors

\* What the types say of the limiter
LimiterOK ==
  /\ moment \in 0 .. LastMoment /\ tokens \in 0 .. Burst /\ refilled \in 0 .. moment
  /\ passes \in [0 .. LastMoment -> Nat]

\* The bucket holds no more than Burst, nor more than what the time since is worth.
LEMMA RefillIs ==
  ASSUME LimiterOK
  PROVE  Refill \in Nat /\ Refill <= Burst /\ Refill <= tokens + Rate * (moment - refilled)
  <1>1. /\ moment \in Nat /\ tokens \in Nat /\ refilled \in Nat /\ moment - refilled \in Nat
        /\ Burst \in Nat
        BY Doors DEF LimiterOK
  <1>2. /\ (moment - refilled) * Rate = Rate * (moment - refilled)
        /\ Rate * (moment - refilled) \in Nat
        BY <1>1, Worth
  <1> QED
      BY <1>1, <1>2 DEF Refill, Least

\* A request takes a token or is refused, and the rate is kept.
LEMMA LimiterStep ==
  ASSUME LimiterOK, WithinRate, Allowed \/ Refused, moment' = moment
  PROVE  LimiterOK' /\ WithinRate'
  <1> DEFINE e == IF Allowed THEN 1 ELSE 0
  <1>1. /\ moment \in Nat /\ moment <= LastMoment /\ refilled \in Nat /\ refilled <= moment
        /\ tokens \in Nat /\ LastMoment \in Nat /\ Burst \in Nat
        /\ passes \in [0 .. LastMoment -> Nat]
        BY Doors DEF LimiterOK
  <1>2. /\ refilled' = moment /\ tokens' = Refill - e /\ e \in {0, 1} /\ e <= Refill
        /\ passes' = [t \in 0 .. LastMoment |-> IF t >= moment THEN passes[t] + e ELSE passes[t]]
    <2>1. CASE Allowed
          BY <2>1 DEF Allowed
    <2>2. CASE ~Allowed
      <3>1. Refused
            BY <2>2
      <3>2. /\ refilled' = moment /\ tokens' = Refill /\ passes' = passes
            BY <3>1 DEF Refused
      <3>3. passes = [t \in 0 .. LastMoment |-> IF t >= moment THEN passes[t] + 0 ELSE passes[t]]
            BY <1>1
      <3> QED
          BY <2>2, <3>2, <3>3, RefillIs
    <2> QED
        BY <2>1, <2>2
  <1> HIDE DEF e
  <1>3. Refill \in Nat /\ Refill <= Burst /\ Refill <= tokens + Rate * (moment - refilled)
        BY RefillIs
  <1>4. /\ passes' \in [0 .. LastMoment -> Nat]
        /\ \A t \in 0 .. LastMoment : passes'[t] = IF t >= moment THEN passes[t] + e ELSE passes[t]
        BY <1>1, <1>2
  <1>5. LimiterOK'
    <2>1. tokens' \in 0 .. Burst /\ refilled' \in 0 .. moment' /\ moment' \in 0 .. LastMoment
          BY <1>1, <1>2, <1>3
    <2> QED
        BY <2>1, <1>4 DEF LimiterOK
  <1>6. \A t \in 0 .. LastMoment : t >= refilled => passes[t] = passes[refilled]
        BY DEF WithinRate
  <1>7. \A t \in 0 .. LastMoment : t >= refilled' => passes'[t] = passes'[refilled']
    <2>1. moment \in 0 .. LastMoment /\ moment >= refilled
          BY <1>1
    <2> QED
        BY <2>1, <1>1, <1>2, <1>4, <1>6
  <1>8. ASSUME NEW s \in 0 .. moment
        PROVE  LetPass(s, refilled)' + tokens' <= Burst + Rate * (moment - s)
    <2>1. /\ moment \in 0 .. LastMoment /\ passes'[moment] = passes[refilled] + e
          /\ passes[refilled] \in Nat
          BY <1>1, <1>4, <1>6
    <2>2. s # 0 => s - 1 \in 0 .. LastMoment /\ passes'[s - 1] = passes[s - 1]
          BY <1>1, <1>4
    <2>3. LetPass(s, refilled)' = LetPass(s, refilled) + e
      <3>1. LetPass(s, refilled)' = passes'[moment] - IF s = 0 THEN 0 ELSE passes'[s - 1]
            BY <1>2 DEF LetPass
      <3>2. LetPass(s, refilled) = passes[refilled] - IF s = 0 THEN 0 ELSE passes[s - 1]
            BY DEF LetPass
      <3>3. s # 0 => passes[s - 1] \in Nat
            BY <2>2, <1>1
      <3> QED
          BY <3>1, <3>2, <3>3, <2>1, <2>2, <1>2
    <2>4. LetPass(s, refilled) \in Int
      <3>1. s # 0 => passes[s - 1] \in Nat
            BY <2>2, <1>1
      <3> QED
          BY <3>1, <2>1 DEF LetPass
    <2>5. LetPass(s, refilled)' + tokens' = LetPass(s, refilled) + Refill
          BY <2>3, <2>4, <1>2, <1>3
    <2>6. CASE s <= refilled
      <3>1. LetPass(s, refilled) + tokens <= Burst + Rate * (refilled - s)
            BY <2>6, <1>1 DEF WithinRate
      <3>2. /\ refilled - s \in Nat /\ moment - refilled \in Nat
            /\ moment - s = (refilled - s) + (moment - refilled)
            BY <2>6, <1>1
      <3>3. /\ Rate * (moment - s) = Rate * (refilled - s) + Rate * (moment - refilled)
            /\ Rate * (refilled - s) \in Nat /\ Rate * (moment - refilled) \in Nat
            BY <3>2, Worth
      <3> QED
          BY <3>1, <3>3, <2>4, <2>5, <1>1, <1>3, SMTT(30)
    <2>7. CASE ~(s <= refilled)
      <3>1. s # 0 /\ s - 1 >= refilled /\ s - 1 \in 0 .. LastMoment
            BY <2>7, <1>1
      <3>2. LetPass(s, refilled) = 0
            BY <3>1, <1>6, <2>1 DEF LetPass
      <3>3. moment - s \in Nat
            BY <1>1
      <3>4. Rate * (moment - s) \in Nat
            BY <3>3, Worth
      <3> QED
          BY <3>2, <3>4, <2>5, <1>1, <1>3
    <2> QED
        BY <2>6, <2>7
  <1>9. WithinRate'
    <2>1. refilled' = moment /\ moment' = moment
          BY <1>2
    <2> QED
        BY <2>1, <1>7, <1>8 DEF WithinRate
  <1> QED
      BY <1>5, <1>9

\* What the limiter lets pass in a stretch of time up to now.
LEMMA RateKept ==
  ASSUME LimiterOK, WithinRate, NEW s \in 0 .. moment
  PROVE  LetPass(s, moment) <= Burst + Rate * (moment - s)
  <1>1. /\ moment \in Nat /\ moment <= LastMoment /\ refilled \in Nat /\ refilled <= moment
        /\ tokens \in Nat /\ LastMoment \in Nat /\ Burst \in Nat
        /\ passes \in [0 .. LastMoment -> Nat]
        BY Doors DEF LimiterOK
  <1>2. /\ moment \in 0 .. LastMoment /\ passes[moment] = passes[refilled]
        /\ passes[refilled] \in Nat
        BY <1>1 DEF WithinRate
  <1>3. LetPass(s, moment) = LetPass(s, refilled)
        BY <1>2 DEF LetPass
  <1>4. CASE s <= refilled
    <2>1. LetPass(s, refilled) + tokens <= Burst + Rate * (refilled - s)
          BY <1>1, <1>4 DEF WithinRate
    <2>2. /\ refilled - s \in Nat /\ moment - refilled \in Nat
          /\ moment - s = (refilled - s) + (moment - refilled)
          BY <1>1, <1>4
    <2>3. /\ Rate * (moment - s) = Rate * (refilled - s) + Rate * (moment - refilled)
          /\ Rate * (refilled - s) \in Nat /\ Rate * (moment - refilled) \in Nat
          BY <2>2, Worth
    <2>4. s # 0 => s - 1 \in 0 .. LastMoment
          BY <1>1
    <2>5. LetPass(s, refilled) \in Int
          BY <2>4, <1>1, <1>2 DEF LetPass
    <2> QED
        BY <2>1, <2>3, <2>5, <1>1, <1>3, SMTT(30)
  <1>5. CASE ~(s <= refilled)
    <2>1. s # 0 /\ s - 1 >= refilled /\ s - 1 \in 0 .. LastMoment
          BY <1>5, <1>1
    <2>2. LetPass(s, refilled) = 0
          BY <2>1, <1>2 DEF LetPass, WithinRate
    <2>3. moment - s \in Nat
          BY <1>1
    <2>4. Rate * (moment - s) \in Nat
          BY <2>3, Worth
    <2> QED
        BY <2>2, <2>4, <1>1, <1>3
  <1> QED
      BY <1>4, <1>5

-----------------------------------------------------------------------------
(* The steps *)

\* The other parts of the types: what is remembered, and the door itself
IdsOK ==
  /\ DOMAIN seen \subseteq Ids /\ (\A d \in DOMAIN seen : seen[d] \in 0 .. moment)
  /\ Ordered /\ Len(order) <= DedupeMax
  /\ accepted \in [Ids -> -1 .. moment] /\ crowded \subseteq Ids
DoorOK ==
  /\ starts \in 0 .. MaxStarts /\ queued \in Seq(Deliveries) /\ Len(queued) <= QueueCap
  /\ hpc \in [Handlers -> {"idle", "read", "emit"}] /\ hid \in [Handlers -> Deliveries]
  /\ answered \subseteq Ids /\ emitted \subseteq Ids

IntakeIInv == LimiterOK /\ IdsOK /\ DoorOK /\ WithinRate /\ TakenGoes /\ Remembered

LEMMA TypesSplit == IntakeTypeOK <=> LimiterOK /\ IdsOK /\ DoorOK
  BY DEF IntakeTypeOK, LimiterOK, IdsOK, DoorOK, Ordered

\* A handler that has no signal to send may go on.
LEMMA WayStays ==
  ASSUME DoorOK, NEW h \in Handlers, hpc[h] # "emit", emitted' = emitted,
         \A g \in Handlers \ {h} : hpc'[g] = hpc[g] /\ hid'[g] = hid[g],
         NEW d, OnTheWay(d)
  PROVE  OnTheWay(d)'
  BY DEF OnTheWay

\* What Done leaves
LEMMA DoneIs ==
  ASSUME DoorOK, NEW h \in Handlers, Done(h)
  PROVE  /\ hpc' \in [Handlers -> {"idle", "read", "emit"}] /\ hid' \in [Handlers -> Deliveries]
         /\ hpc'[h] = "idle"
         /\ \A g \in Handlers \ {h} : hpc'[g] = hpc[g] /\ hid'[g] = hid[g]
  BY Doors DEF DoorOK, Done

\* A request takes from the tokens, and is being read if it got one.
LEMMA ReceiveKeeps ==
  ASSUME IntakeIInv, ReceiveOther \/ \E h \in Handlers, d \in Deliveries : Receive(h, d)
  PROVE  IntakeIInv'
  <1>0. LimiterOK /\ IdsOK /\ DoorOK /\ WithinRate /\ TakenGoes /\ Remembered
        BY DEF IntakeIInv
  <1>1. /\ Allowed \/ Refused
        /\ UNCHANGED <<moment, queued, seen, order, starts, accepted, crowded, answered, emitted>>
        BY DEF ReceiveOther, Receive, dedupe
  <1>2. LimiterOK' /\ WithinRate'
        BY <1>0, <1>1, LimiterStep
  <1>3. IdsOK' /\ Remembered'
        BY <1>0, <1>1 DEF IdsOK, Ordered, Remembered
  <1>4. /\ hpc' \in [Handlers -> {"idle", "read", "emit"}] /\ hid' \in [Handlers -> Deliveries]
        /\ \A d : OnTheWay(d) => OnTheWay(d)'
    <2>1. CASE UNCHANGED requests
          BY <2>1, <1>0, <1>1 DEF requests, DoorOK, OnTheWay
    <2>2. CASE \E h \in Handlers, d \in Deliveries :
                 /\ hpc[h] = "idle"
                 /\ hpc' = [hpc EXCEPT ![h] = "read"] /\ hid' = [hid EXCEPT ![h] = d]
      <3>1. PICK h \in Handlers, d \in Deliveries :
                 /\ hpc[h] = "idle"
                 /\ hpc' = [hpc EXCEPT ![h] = "read"] /\ hid' = [hid EXCEPT ![h] = d]
            BY <2>2
      <3>2. /\ hpc' \in [Handlers -> {"idle", "read", "emit"}] /\ hid' \in [Handlers -> Deliveries]
            /\ \A g \in Handlers \ {h} : hpc'[g] = hpc[g] /\ hid'[g] = hid[g]
            BY <3>1, <1>0 DEF DoorOK
      <3>3. \A g : OnTheWay(g) => OnTheWay(g)'
            BY <3>1, <3>2, <1>0, <1>1, WayStays
      <3> QED
          BY <3>2, <3>3
    <2> QED
        BY <2>1, <2>2 DEF ReceiveOther, Receive
  <1>5. DoorOK' /\ TakenGoes'
        BY <1>0, <1>1, <1>4 DEF DoorOK, TakenGoes
  <1> QED
      BY <1>2, <1>3, <1>5 DEF IntakeIInv

\* Steps that leave the limiter and the set of ids alone
LEMMA DoorKeeps ==
  ASSUME IntakeIInv,
         \/ Deliver
         \/ \E h \in Handlers : Reject(h) \/ Seen(h) \/ EmitRun(h)
  PROVE  IntakeIInv'
  <1>0. LimiterOK /\ IdsOK /\ DoorOK /\ WithinRate /\ TakenGoes /\ Remembered
        BY DEF IntakeIInv
  <1>1. UNCHANGED <<moment, tokens, refilled, passes, seen, order, starts, accepted, crowded>>
        BY DEF Deliver, Reject, Seen, EmitRun, limiter, dedupe, intakeHist
  <1>2. LimiterOK' /\ WithinRate' /\ IdsOK' /\ Remembered'
        BY <1>0, <1>1 DEF LimiterOK, WithinRate, LetPass, IdsOK, Ordered, Remembered
  <1>3. CASE Deliver
    <2>1. UNCHANGED <<starts, hpc, hid, answered, emitted>> /\ queued' = Tail(queued) /\ queued # <<>>
          BY <1>3 DEF Deliver, requests, intakeHist
    <2>2. queued \in Seq(Deliveries) /\ Len(queued) <= QueueCap
          BY <1>0 DEF DoorOK
    <2>3. queued' \in Seq(Deliveries) /\ Len(queued') <= QueueCap
      <3>1. /\ Tail(queued) \in Seq(Deliveries) /\ Len(Tail(queued)) = Len(queued) - 1
            /\ Len(queued) \in Nat
            BY <2>1, <2>2, HeadTailProperties
      <3> QED
          BY <3>1, <2>1, <2>2, Doors
    <2>4. DoorOK'
          BY <2>1, <2>3, <1>0 DEF DoorOK
    <2>5. TakenGoes'
          BY <2>1, <1>0, <1>1 DEF TakenGoes, OnTheWay
    <2> QED
        BY <2>4, <2>5, <1>2 DEF IntakeIInv
  <1>4. ASSUME NEW h \in Handlers, Reject(h) \/ Seen(h)
        PROVE  IntakeIInv'
    <2>1. /\ hpc[h] = "read" /\ Done(h) /\ UNCHANGED <<queued, emitted>>
          /\ answered' \subseteq answered \cup DOMAIN seen
          BY <1>4 DEF Reject, Seen, Heard, Live, intakeHist
    <2>2. /\ hpc' \in [Handlers -> {"idle", "read", "emit"}] /\ hid' \in [Handlers -> Deliveries]
          /\ \A g \in Handlers \ {h} : hpc'[g] = hpc[g] /\ hid'[g] = hid[g]
          BY <2>1, <1>0, DoneIs
    <2>3. \A d : OnTheWay(d) => OnTheWay(d)'
          BY <2>1, <2>2, <1>0, WayStays
    <2>4. DoorOK'
          BY <2>1, <2>2, <1>0, <1>1 DEF DoorOK, IdsOK
    <2>5. TakenGoes'
          BY <2>1, <2>3, <1>0, <1>1 DEF TakenGoes
    <2> QED
        BY <2>4, <2>5, <1>2 DEF IntakeIInv
  <1>5. ASSUME NEW h \in Handlers, EmitRun(h)
        PROVE  IntakeIInv'
    <2>0. PICK d \in Deliveries : d = hid[h]
          BY <1>0 DEF DoorOK
    <2>1. /\ hpc[h] = "emit" /\ Done(h) /\ Len(queued) < QueueCap /\ queued' = Append(queued, d)
          /\ emitted' = (IF queued' = queued THEN emitted ELSE emitted \cup {d}) \ {NoId}
          /\ answered' = (answered \cup {d}) \ {NoId}
          BY <1>5, <2>0 DEF EmitRun, Enqueue
    <2>2. /\ queued \in Seq(Deliveries) /\ d \in Deliveries /\ answered \subseteq Ids
          /\ emitted \subseteq Ids /\ starts \in 0 .. MaxStarts
          BY <1>0 DEF DoorOK
    <2>3. queued' \in Seq(Deliveries) /\ Len(queued') <= QueueCap /\ queued' # queued
      <3>1. /\ Append(queued, d) \in Seq(Deliveries) /\ Len(Append(queued, d)) = Len(queued) + 1
            /\ Len(queued) \in Nat
            BY <2>2, AppendProperties
      <3> QED
          BY <3>1, <2>1, Doors
    <2>4. /\ hpc' \in [Handlers -> {"idle", "read", "emit"}] /\ hid' \in [Handlers -> Deliveries]
          /\ \A g \in Handlers \ {h} : hpc'[g] = hpc[g] /\ hid'[g] = hid[g]
          BY <2>1, <1>0, DoneIs
    <2>5. emitted' = (emitted \cup {d}) \ {NoId}
          BY <2>1, <2>3
    <2>6. answered' \subseteq Ids /\ emitted' \subseteq Ids
          BY <2>1, <2>2, <2>5 DEF Ids
    <2>7. DoorOK'
          BY <2>2, <2>3, <2>4, <2>6, <1>1 DEF DoorOK
    <2>8. \A x \in Ids : OnTheWay(x) => OnTheWay(x)'
          BY <2>0, <2>4, <2>5 DEF OnTheWay, Ids
    <2>9. \A x \in answered' \cup DOMAIN seen' : x \in Ids /\ (x \in answered \cup DOMAIN seen \/ x = d)
          BY <2>1, <2>6, <1>0, <1>1 DEF IdsOK
    <2>10. d \in Ids => OnTheWay(d)'
           BY <2>5 DEF OnTheWay, Ids
    <2>11. TakenGoes'
           BY <2>8, <2>9, <2>10, <1>0 DEF TakenGoes
    <2> QED
        BY <2>7, <2>11, <1>2 DEF IntakeIInv
  <1> QED
      BY <1>3, <1>4, <1>5

\* An id that was not live is remembered from now, and what goes for it had expired,
\* or the set was at its limit; its signal is on the way if there is to be one.
LEMMA TakeIDKeeps ==
  ASSUME IntakeIInv, NEW h \in Handlers, TakeID(h)
  PROVE  IntakeIInv'
  <1>0. LimiterOK /\ IdsOK /\ DoorOK /\ WithinRate /\ TakenGoes /\ Remembered
        BY DEF IntakeIInv
  <1>d. PICK d \in Deliveries : d = hid[h]
        BY <1>0 DEF DoorOK
  <1>1. /\ UNCHANGED <<moment, queued, tokens, refilled, starts, passes, answered, emitted>>
        /\ hpc[h] = "read" /\ ~Live(d)
        /\ IF d = NoId THEN UNCHANGED <<seen, order, accepted, crowded>>
           ELSE /\ Record(d)
                /\ accepted' = [accepted EXCEPT ![d] = moment]
                /\ crowded' = (IF d \notin DOMAIN seen /\ Cardinality(DOMAIN seen) = DedupeMax
                               THEN Ids ELSE crowded) \ {d}
        /\ IF Wanted(d) THEN hpc' = [hpc EXCEPT ![h] = "emit"] /\ UNCHANGED hid ELSE Done(h)
        BY <1>d DEF TakeID, Heard, dedupe, limiter
  <1>2. LimiterOK' /\ WithinRate'
        BY <1>0, <1>1 DEF LimiterOK, WithinRate, LetPass
  <1>3. DoorOK' /\ (Wanted(d) => hpc'[h] = "emit" /\ hid'[h] = d)
        /\ \A g \in Handlers \ {h} : hpc'[g] = hpc[g] /\ hid'[g] = hid[g]
    <2>1. CASE Wanted(d)
      <3>1. hpc' = [hpc EXCEPT ![h] = "emit"] /\ hid' = hid
            BY <1>1, <2>1
      <3>2. hpc' \in [Handlers -> {"idle", "read", "emit"}] /\ hid' \in [Handlers -> Deliveries]
            /\ hpc'[h] = "emit" /\ hid'[h] = d
            /\ \A g \in Handlers \ {h} : hpc'[g] = hpc[g] /\ hid'[g] = hid[g]
            BY <3>1, <1>0, <1>d DEF DoorOK
      <3> QED
          BY <3>2, <1>0, <1>1 DEF DoorOK
    <2>2. CASE ~Wanted(d)
      <3>1. /\ hpc' \in [Handlers -> {"idle", "read", "emit"}] /\ hid' \in [Handlers -> Deliveries]
            /\ \A g \in Handlers \ {h} : hpc'[g] = hpc[g] /\ hid'[g] = hid[g]
            BY <1>0, <1>1, <2>2, DoneIs
      <3> QED
          BY <3>1, <2>2, <1>0, <1>1 DEF DoorOK
    <2> QED
        BY <2>1, <2>2
  <1>4. \A x : OnTheWay(x) => OnTheWay(x)'
        BY <1>0, <1>1, <1>3, WayStays
  <1>5. CASE d = NoId
    <2>1. UNCHANGED <<seen, order, accepted, crowded>>
          BY <1>1, <1>5
    <2>2. IdsOK' /\ Remembered'
          BY <1>0, <1>1, <2>1 DEF IdsOK, Ordered, Remembered
    <2>3. TakenGoes'
          BY <1>0, <1>1, <1>4, <2>1 DEF TakenGoes
    <2> QED
        BY <1>2, <1>3, <2>2, <2>3 DEF IntakeIInv
  <1>6. CASE d # NoId
    <2>1. /\ d \in Ids /\ Record(d) /\ accepted' = [accepted EXCEPT ![d] = moment]
          /\ crowded' = (IF d \notin DOMAIN seen /\ Cardinality(DOMAIN seen) = DedupeMax
                         THEN Ids ELSE crowded) \ {d}
          BY <1>1, <1>6 DEF Ids
    <2>2. /\ Ordered /\ Len(order) <= DedupeMax /\ moment \in Nat
          /\ \A x \in DOMAIN seen : seen[x] \in 0 .. moment
          /\ DOMAIN seen \subseteq Ids /\ accepted \in [Ids -> -1 .. moment] /\ crowded \subseteq Ids
          BY <1>0 DEF IdsOK, LimiterOK
    <2>3. /\ Ordered' /\ Len(order') <= DedupeMax
          /\ DOMAIN seen' \subseteq DOMAIN seen \cup {d} /\ d \in DOMAIN seen' /\ seen'[d] = moment
          /\ \A x \in DOMAIN seen' \ {d} : seen'[x] = seen[x]
          /\ d \in DOMAIN seen \/ Cardinality(DOMAIN seen) < DedupeMax =>
               \A x \in DOMAIN seen \ DOMAIN seen' : ~Live(x)
          BY <2>1, <2>2, RecordIs
    <2>4. /\ accepted' \in [Ids -> -1 .. moment] /\ accepted'[d] = moment
          /\ \A x \in Ids \ {d} : accepted'[x] = accepted[x]
      <3>1. moment \in -1 .. moment
            BY <2>2
      <3> QED
          BY <2>1, <2>2, <3>1
    <2>5. IdsOK'
      <3>1. \A x \in DOMAIN seen' : seen'[x] \in 0 .. moment
        <4>1. moment \in 0 .. moment
              BY <2>2
        <4> QED
            BY <4>1, <2>2, <2>3
      <3>2. crowded' \subseteq Ids /\ DOMAIN seen' \subseteq Ids
            BY <2>1, <2>2, <2>3
      <3> QED
          BY <3>1, <3>2, <2>3, <2>4, <1>1 DEF IdsOK
    <2>6. TakenGoes'
      <3>1. \A x \in answered' \cup DOMAIN seen' : x \in answered \cup DOMAIN seen \/ x = d
            BY <1>1, <2>3
      <3>2. Wanted(d) => OnTheWay(d)'
            BY <1>3 DEF OnTheWay
      <3> QED
          BY <3>1, <3>2, <1>0, <1>4 DEF TakenGoes
    <2>7. Remembered'
      <3> SUFFICES ASSUME NEW x \in Ids, accepted'[x] >= 0, x \notin crowded'
                   PROVE  IF x \in DOMAIN seen' THEN seen'[x] = accepted'[x]
                          ELSE moment' - accepted'[x] >= TTL
          BY DEF Remembered
      <3>1. CASE x = d
            BY <3>1, <2>3, <2>4
      <3>2. CASE x # d
        <4>1. accepted'[x] = accepted[x] /\ accepted[x] >= 0
              BY <3>2, <2>4
        <4>2. x \notin crowded /\ ~(d \notin DOMAIN seen /\ Cardinality(DOMAIN seen) = DedupeMax)
              BY <3>2, <2>1
        <4>3. IF x \in DOMAIN seen THEN seen[x] = accepted[x] ELSE moment - accepted[x] >= TTL
              BY <4>1, <4>2, <1>0 DEF Remembered
        <4>4. CASE x \in DOMAIN seen'
              BY <4>4, <4>1, <4>3, <3>2, <2>3
        <4>5. CASE x \notin DOMAIN seen'
          <5>1. d \in DOMAIN seen \/ Cardinality(DOMAIN seen) < DedupeMax
            <6>1. Cardinality(DOMAIN seen) = Len(order) /\ Len(order) \in Nat
                  BY <2>2, OrderCounts
            <6> QED
                BY <6>1, <4>2, <2>2, Doors
          <5>2. x \in DOMAIN seen => ~Live(x)
                BY <5>1, <4>5, <2>3
          <5>3. x \in DOMAIN seen => moment - accepted[x] >= TTL
            <6>1. x \in DOMAIN seen => ~(moment - accepted[x] < TTL)
                  BY <5>2, <4>3 DEF Live
            <6>2. accepted[x] \in Int /\ moment \in Int /\ TTL \in Int
                  BY <2>2, Doors
            <6> QED
                BY <6>1, <6>2
          <5> QED
              BY <5>3, <4>3, <4>5, <4>1, <1>1
        <4> QED
            BY <4>4, <4>5
      <3> QED
          BY <3>1, <3>2
    <2> QED
        BY <1>2, <1>3, <2>5, <2>6, <2>7 DEF IntakeIInv
  <1> QED
      BY <1>5, <1>6

\* Time goes by.
LEMMA TickKeeps ==
  ASSUME IntakeIInv, TickIntake
  PROVE  IntakeIInv'
  <1>0. LimiterOK /\ IdsOK /\ DoorOK /\ WithinRate /\ TakenGoes /\ Remembered
        BY DEF IntakeIInv
  <1>1. /\ moment < LastMoment /\ moment' = moment + 1
        /\ UNCHANGED <<queued, tokens, refilled, seen, order, hpc, hid, starts, passes, accepted, crowded,
                      answered, emitted>>
        BY DEF TickIntake, limiter, dedupe, requests, intakeHist
  <1>2. /\ moment \in Nat /\ LastMoment \in Nat /\ refilled \in 0 .. moment /\ TTL \in Nat
        BY <1>0, Doors DEF LimiterOK
  <1>3. LimiterOK'
    <2>1. moment' \in 0 .. LastMoment /\ refilled' \in 0 .. moment'
          BY <1>1, <1>2
    <2> QED
        BY <2>1, <1>0, <1>1 DEF LimiterOK
  <1>4. WithinRate'
    <2>1. \A s \in 0 .. moment' : s <= refilled => s \in 0 .. moment
          BY <1>1, <1>2
    <2> QED
        BY <2>1, <1>0, <1>1 DEF WithinRate, LetPass
  <1>5. IdsOK'
    <2>1. 0 .. moment \subseteq 0 .. moment' /\ -1 .. moment \subseteq -1 .. moment'
          BY <1>1, <1>2
    <2>2. accepted \in [Ids -> -1 .. moment']
          BY <2>1, <1>0 DEF IdsOK
    <2> QED
        BY <2>1, <2>2, <1>0, <1>1 DEF IdsOK, Ordered
  <1>6. DoorOK' /\ TakenGoes'
        BY <1>0, <1>1 DEF DoorOK, TakenGoes, OnTheWay
  <1>7. Remembered'
    <2> SUFFICES ASSUME NEW x \in Ids, accepted'[x] >= 0, x \notin crowded'
                 PROVE  IF x \in DOMAIN seen' THEN seen'[x] = accepted'[x]
                        ELSE moment' - accepted'[x] >= TTL
        BY DEF Remembered
    <2>1. IF x \in DOMAIN seen THEN seen[x] = accepted[x] ELSE moment - accepted[x] >= TTL
          BY <1>0, <1>1 DEF Remembered
    <2>2. accepted[x] \in Int
          BY <1>0, <1>2 DEF IdsOK
    <2> QED
        BY <2>1, <2>2, <1>1, <1>2
  <1> QED
      BY <1>3, <1>4, <1>5, <1>6, <1>7 DEF IntakeIInv

\* A daemon that has just started
JustStarted ==
  /\ queued = <<>> /\ seen = Empty /\ order = <<>> /\ tokens = Burst /\ refilled = moment
  /\ hpc = [h \in Handlers |-> "idle"] /\ hid = [h \in Handlers |-> NoId]
  /\ passes = [t \in 0 .. LastMoment |-> 0] /\ accepted = [d \in Ids |-> -1]
  /\ crowded = {} /\ answered = {} /\ emitted = {}
  /\ moment \in 0 .. LastMoment /\ starts \in 0 .. MaxStarts

LEMMA JustStartedIs == JustStarted => IntakeIInv
  <1> SUFFICES ASSUME JustStarted PROVE IntakeIInv
      OBVIOUS
  <1>1. moment \in Nat /\ moment <= LastMoment /\ Burst \in Nat /\ Rate \in Nat /\ QueueCap \in Nat
        /\ DedupeMax \in Nat
        BY Doors DEF JustStarted
  <1>2. LimiterOK
    <2>1. moment \in 0 .. moment /\ Burst \in 0 .. Burst
          BY <1>1
    <2>2. [t \in 0 .. LastMoment |-> 0] \in [0 .. LastMoment -> Nat]
          OBVIOUS
    <2> QED
        BY <2>1, <2>2 DEF LimiterOK, JustStarted
  <1>3. WithinRate
    <2>1. \A t \in 0 .. LastMoment : passes[t] = 0
          BY DEF JustStarted
    <2>2. moment \in 0 .. LastMoment /\ refilled = moment /\ tokens = Burst
          BY DEF JustStarted
    <2>3. ASSUME NEW s \in 0 .. moment
          PROVE  LetPass(s, refilled) + tokens <= Burst + Rate * (refilled - s)
      <3>1. s # 0 => s - 1 \in 0 .. LastMoment
        <4>1. LastMoment \in Nat /\ s \in Nat /\ s <= LastMoment
              BY <1>1, Doors
        <4> QED
            BY <4>1
      <3>2. LetPass(s, refilled) = 0
            BY <3>1, <2>1, <2>2 DEF LetPass
      <3>3. moment - s \in Nat
            BY <1>1
      <3>4. Rate * (moment - s) \in Nat
            BY <3>3, Worth
      <3> QED
          BY <3>2, <3>4, <2>2, <1>1
    <2> QED
        BY <2>1, <2>2, <2>3 DEF WithinRate
  <1>4. IdsOK /\ Remembered
    <2>1. DOMAIN seen = {} /\ order = <<>> /\ accepted = [d \in Ids |-> -1] /\ crowded = {}
          BY DEF JustStarted, Empty
    <2>2. order \in Seq(Ids) /\ Len(order) = 0 /\ DOMAIN order = {}
          BY <2>1
    <2>3. Ordered
          BY <2>1, <2>2 DEF Ordered, IsInjective, Range
    <2>4. accepted \in [Ids -> -1 .. moment]
          BY <2>1, <1>1
    <2>5. \A d \in Ids : ~(accepted[d] >= 0)
          BY <2>1
    <2> QED
        BY <2>1, <2>2, <2>3, <2>4, <2>5, <1>1 DEF IdsOK, Remembered
  <1>5. DoorOK /\ TakenGoes
        BY Doors DEF DoorOK, TakenGoes, JustStarted, Empty
  <1> QED
      BY <1>2, <1>3, <1>4, <1>5 DEF IntakeIInv

LEMMA IntakeInitially == IntakeInit => IntakeIInv
  <1> SUFFICES ASSUME IntakeInit PROVE JustStarted
      BY JustStartedIs
  <1>1. 0 \in 0 .. LastMoment /\ 0 \in 0 .. MaxStarts
        BY Doors
  <1> QED
      BY <1>1 DEF IntakeInit, JustStarted

LEMMA IntakeStep == IntakeIInv /\ [IntakeNext]_intakeVars => IntakeIInv'
  <1> SUFFICES ASSUME IntakeIInv, [IntakeNext]_intakeVars PROVE IntakeIInv'
      OBVIOUS
  <1>1. CASE TickIntake
        BY <1>1, TickKeeps
  <1>2. CASE ReceiveOther \/ \E h \in Handlers, d \in Deliveries : Receive(h, d)
        BY <1>2, ReceiveKeeps
  <1>3. CASE Deliver \/ \E h \in Handlers : Reject(h) \/ Seen(h) \/ EmitRun(h)
        BY <1>3, DoorKeeps
  <1>4. ASSUME NEW h \in Handlers, TakeID(h) PROVE IntakeIInv'
        BY <1>4, TakeIDKeeps
  <1>5. CASE RestartServer
    <2>1. moment \in 0 .. LastMoment /\ starts \in 0 .. MaxStarts /\ MaxStarts \in Nat
          BY Doors DEF IntakeIInv, LimiterOK, DoorOK
    <2>2. moment' = moment /\ starts' \in 0 .. MaxStarts
          BY <1>5, <2>1 DEF RestartServer
    <2>3. JustStarted'
          BY <1>5, <2>1, <2>2 DEF RestartServer, JustStarted, Empty
    <2> QED
        BY <2>3, JustStartedIs, PTL
  <1>6. CASE UNCHANGED intakeVars
    <2>1. UNCHANGED <<moment, queued, tokens, refilled, seen, order, hpc, hid, starts, passes, accepted,
                     crowded, answered, emitted>>
          BY <1>6 DEF intakeVars, limiter, dedupe, requests, intakeHist
    <2>2. LimiterOK' /\ WithinRate'
          BY <2>1 DEF IntakeIInv, LimiterOK, WithinRate, LetPass
    <2>3. IdsOK' /\ Remembered' /\ DoorOK' /\ TakenGoes'
          BY <2>1 DEF IntakeIInv, IdsOK, Ordered, Remembered, DoorOK, TakenGoes, OnTheWay
    <2> QED
        BY <2>2, <2>3 DEF IntakeIInv
  <1> QED
      BY <1>1, <1>2, <1>3, <1>4, <1>5, <1>6 DEF IntakeNext

\* The invariant of the door: the types, the limiter's account of the tokens, and what
\* is remembered of the ids.
THEOREM IntakeInvariance == IntakeSpec => []IntakeIInv
  <1>1. IntakeInit => IntakeIInv
        BY IntakeInitially
  <1>2. IntakeIInv /\ [IntakeNext]_intakeVars => IntakeIInv'
        BY IntakeStep
  <1> QED
      BY <1>1, <1>2, PTL DEF IntakeSpec

\* A run that GitHub was told is taken has its signal sent, or a handler waits for room
\* in the channel; and in no stretch of time does the limiter let more pass than the
\* burst and the rate of it.
THEOREM TakenStaysSent == IntakeSpec => [](IntakeTypeOK /\ TakenIsSent)
  <1>1. IntakeIInv => IntakeTypeOK
        BY TypesSplit DEF IntakeIInv
  <1>2. IntakeIInv => TakenIsSent
    <2> SUFFICES ASSUME IntakeIInv PROVE TakenIsSent
        OBVIOUS
    <2>1. \A d \in answered : Wanted(d) =>
            d \in emitted \/ \E h \in Handlers : hpc[h] = "emit" /\ hid[h] = d
          BY DEF IntakeIInv, TakenGoes, OnTheWay
    <2>2. \A s \in 0 .. moment : LetPass(s, moment) <= Burst + Rate * (moment - s)
          BY RateKept DEF IntakeIInv
    <2> QED
        BY <2>1, <2>2 DEF TakenIsSent
  <1> QED
      BY <1>1, <1>2, IntakeInvariance, PTL

\* A delivery that comes again while its id is remembered is not taken again: what is
\* taken twice had expired, or the set was at its limit in between.
THEOREM TakenStaysOnce == IntakeSpec => TakenOnce
  <1>1. ASSUME IntakeIInv, [IntakeNext]_intakeVars, NEW d \in Ids, accepted[d] >= 0,
               accepted'[d] > accepted[d]
        PROVE  accepted'[d] - accepted[d] >= TTL \/ d \in crowded
    <2>0. IdsOK /\ DoorOK /\ Remembered /\ moment \in Nat /\ TTL \in Nat
          BY <1>1, Doors DEF IntakeIInv, LimiterOK
    <2>1. accepted[d] \in Int
          BY <2>0 DEF IdsOK
    <2>2. accepted' # accepted
          BY <1>1, <2>1
    <2>3. CASE RestartServer
      <3>1. accepted'[d] = -1
            BY <2>3 DEF RestartServer
      <3> QED
          BY <3>1, <1>1, <2>1
    <2>4. ASSUME NEW h \in Handlers, TakeID(h)
          PROVE  accepted'[d] - accepted[d] >= TTL \/ d \in crowded
      <3>1. hid[h] # NoId /\ accepted' = [accepted EXCEPT ![hid[h]] = moment] /\ ~Live(hid[h])
            BY <2>4, <2>2 DEF TakeID
      <3>2. d = hid[h] /\ accepted'[d] = moment
            BY <3>1, <2>0, <2>1, <1>1 DEF IdsOK
      <3>3. d \notin crowded =>
              IF d \in DOMAIN seen THEN seen[d] = accepted[d] ELSE moment - accepted[d] >= TTL
            BY <1>1, <2>0 DEF Remembered
      <3>4. d \in DOMAIN seen => ~(moment - seen[d] < TTL)
            BY <3>1, <3>2 DEF Live
      <3> QED
          BY <3>2, <3>3, <3>4, <2>0, <2>1
    <2>5. (\E h \in Handlers : TakeID(h)) \/ RestartServer
          BY <1>1, <2>2 DEF IntakeNext, intakeVars, intakeHist, TickIntake, ReceiveOther, Deliver, Reject,
             Seen, EmitRun, Receive
    <2> QED
        BY <2>3, <2>4, <2>5
  <1>2. IntakeIInv /\ [IntakeNext]_intakeVars =>
          [ \A d \in Ids : accepted[d] >= 0 /\ accepted'[d] > accepted[d] =>
              accepted'[d] - accepted[d] >= TTL \/ d \in crowded ]_intakeVars
        BY <1>1
  <1> QED
      BY <1>2, IntakeInvariance, PTL DEF IntakeSpec, TakenOnce

-----------------------------------------------------------------------------
(* The parts together *)

\* A behaviour of the composition is a behaviour of each of its parts.
LEMMA LadderParts == AllSpec => IntakeSpec /\ Spec /\ ReverifySpec /\ TokensSpec
  <1>1. AllInit => IntakeInit /\ Init /\ ReverifyInit /\ TokensInit
        BY DEF AllInit
  <1>2. [AllNext]_allVars =>
          [IntakeNext]_intakeVars /\ [Next]_vars /\ [ReverifyNext]_reverifyVars /\ [TokensNext]_tokensVars
        BY DEF AllNext, allVars
  <1> QED
      BY <1>1, <1>2, PTL DEF AllSpec, IntakeSpec, Spec, ReverifySpec, TokensSpec

\* The door, the ladder, the gate asked again and the tokens keep to their types and
\* bounds together, for any commits, deliveries, handlers, runs and callers.
THEOREM LadderTypesCorrect == AllSpec => []TypesOK
  <1>1. TypeOK /\ IntakeTypeOK /\ ReverifyIInv /\ TokensIInv => TypesOK
        BY DEF TypesOK, ReverifyIInv, TokensIInv
  <1> QED
      BY <1>1, LadderParts, TypeCorrect, TakenStaysSent, ReverifyInvariance, TokensInvariance, PTL

\* What the runs check of the composition holds of it for all values of the constants.
THEOREM LadderKeeps == AllSpec => []TakenIsSent /\ []VerdictIsItsOwn /\ TakenOnce /\ TokensServe
  BY LadderParts, TakenStaysSent, VerdictStaysItsOwn, TakenStaysOnce, TokensDoServe, PTL

=============================================================================
