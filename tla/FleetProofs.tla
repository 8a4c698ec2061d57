----------------------------- MODULE FleetProofs -----------------------------
(***************************************************************************)
(* Fleet policy, for any repos, dependencies and limits: while an upstream *)
(* stays in breach its dependents are left alone, and neither the          *)
(* alternation of Fix and Revert nor the Fixes of an upstream go on for    *)
(* ever.  The index of the audit log is exact, whatever it was built from  *)
(* and whoever appends, and what look-ups, pages and scores make of the    *)
(* log agrees (AuditViews).                                                *)
(***************************************************************************)
EXTENDS MCFleet, FiniteSetTheorems, SequenceTheorems, WellFoundedInduction, TLAPS

\* Whoever is past Decide has something to do.
PastDecide == \A r \in Repos : pc[r] \in {"circuit", "deps", "act"} => would[r] # "noop"

\* What handle found in breach and has not recovered still has its flag, and past the
\* first read of the flags there were fewer such repos than open the circuit.
StandingBreaches == \A r \in Repos :
  /\ pc[r] \in {"circuit", "deps"} => standing[r] \subseteq breach
  /\ pc[r] = "deps" /\ Trip > 0 => Cardinality(standing[r]) < Trip

\* Whoever was meant has his mark, unless a signal to him was dropped.
MeantIsMarked == meant \ dropped \subseteq fired /\ again \subseteq dropped

\* An action that alternates has room for one more.
FlapRoom == FlapMax > 0 => \A r \in Repos \ blind :
  /\ Cardinality(Transitions(recent[r])) <= FlapMax
  /\ pc[r] = "act" /\ would[r] # "promote" => Cardinality(Transitions(recent[r])) < FlapMax

IInv == TypeOK /\ PastDecide /\ StandingBreaches /\ MeantIsMarked /\ FlapRoom

-----------------------------------------------------------------------------
(* Transitions of a sequence *)

\* They are finitely many.
LEMMA TransitionsFinite ==
  ASSUME NEW S, NEW s \in Seq(S)
  PROVE  IsFiniteSet(Transitions(s)) /\ Cardinality(Transitions(s)) \in Nat
  <1>1. Transitions(s) \in SUBSET (2 .. Len(s))
        BY DEF Transitions
  <1>2. IsFiniteSet(2 .. Len(s))
        BY FS_Interval
  <1> QED
      BY <1>1, <1>2, FS_Subset, FS_CardinalityType

\* One more action is one more transition at most.
LEMMA TransitionsAppend ==
  ASSUME NEW S, NEW s \in Seq(S), NEW e \in S
  PROVE  Cardinality(Transitions(Append(s, e))) <= Cardinality(Transitions(s)) + 1
  <1> DEFINE T == Transitions(s)
             U == T \cup {Len(s) + 1}
  <1>1. Transitions(Append(s, e)) \in SUBSET U
        BY DEF Transitions
  <1>2. IsFiniteSet(T) /\ Cardinality(T) \in Nat
        BY TransitionsFinite
  <1> HIDE DEF T
  <1>3. IsFiniteSet(U) /\ Cardinality(U) \in Nat /\ Cardinality(U) <= Cardinality(T) + 1
    <2>1. /\ IsFiniteSet(U)
          /\ Cardinality(U) = IF Len(s) + 1 \in T THEN Cardinality(T) ELSE Cardinality(T) + 1
          BY <1>2, FS_AddElement
    <2> QED
        BY <1>2, <2>1
  <1> HIDE DEF U
  <1>4. /\ Cardinality(Transitions(Append(s, e))) <= Cardinality(U)
        /\ Cardinality(Transitions(Append(s, e))) \in Nat
        BY <1>1, <1>3, FS_Subset, FS_CardinalityType
  <1>5. Cardinality(Transitions(Append(s, e))) <= Cardinality(T) + 1
        BY <1>2, <1>3, <1>4
  <1> QED
      BY <1>5 DEF T

\* Forgetting the oldest action makes no transition.
LEMMA TransitionsTail ==
  ASSUME NEW S, NEW s \in Seq(S), s # <<>>
  PROVE  Cardinality(Transitions(Tail(s))) <= Cardinality(Transitions(s))
  <1> DEFINE T == Transitions(Tail(s))
             U == Transitions(s)
             next == [i \in T |-> i + 1]
  <1>1. \A i \in T : i \in Int /\ i + 1 \in U
        BY DEF Transitions
  <1>2. IsFiniteSet(U)
        BY TransitionsFinite
  <1> HIDE DEF T, U
  <1>3. next \in Injection(T, U)
        BY <1>1 DEF Injection, IsInjective
  <1> QED
      BY <1>2, <1>3, FS_Injection DEF T, U

-----------------------------------------------------------------------------
(* The steps *)

\* A value of the right type keeps the function's.
LEMMA ExceptType ==
  ASSUME NEW S, NEW f \in [Repos -> S], NEW r \in Repos, NEW e \in S
  PROVE  [f EXCEPT ![r] = e] \in [Repos -> S]
  OBVIOUS

\* Every step keeps the types.
LEMMA TypeStep ==
  ASSUME TypeOK, PastDecide, [Next]_vars
  PROVE  TypeOK'
  <1> USE DEF TypeOK
  <1>1. CASE UNCHANGED vars
        BY <1>1 DEF vars, worker
  <1> SUFFICES ASSUME NEW r \in Repos,
                      \/ \E v \in Gates[r] : TakeSignal(r, v)
                      \/ TakePatientZero(r) \/ Superseded(r)
                      \/ SuppressStructural(r) \/ CheckCircuit(r)
                      \/ SuppressUpstream(r) \/ SuppressPin(r) \/ SuppressFlap(r)
                      \/ Dispatch(r) \/ Expire(r)
                      \/ \E ok \in BOOLEAN : Record(r, ok)
                      \/ Mark(r) \/ Send(r) \/ Drop(r) \/ Offered(r)
               PROVE  TypeOK'
      BY <1>1 DEF Next
  <1>2. ASSUME NEW v \in Verdicts, Start(r, v)
        PROVE  /\ breach' \subseteq Repos /\ fired' \subseteq Repos
               /\ pc' \in [Repos -> {"idle", "circuit", "deps", "act", "offer", "send"}]
               /\ would' \in [Repos -> Actions]
               /\ standing' \in [Repos -> SUBSET Repos]
               /\ meant' \subseteq Repos /\ again' \subseteq meant'
        BY <1>2 DEF Start, UpdateBreach, Decide, Verdicts, Actions
  <1>3. \A v : Start(r, v) => UNCHANGED <<recent, ups, marked, blind, dropped>>
        BY DEF Start
  <1>4. CASE \E v \in Gates[r] : TakeSignal(r, v)
        BY <1>2, <1>3, <1>4, FleetAssumption DEF TakeSignal
  <1>5. CASE TakePatientZero(r)
        BY <1>2, <1>3, <1>5 DEF TakePatientZero, Verdicts
  <1>6. CASE Superseded(r)
        BY <1>6 DEF Superseded, worker
  <1>7. CASE SuppressStructural(r) \/ SuppressPin(r) \/ SuppressFlap(r) \/ Offered(r)
        BY <1>7 DEF SuppressStructural, SuppressPin, SuppressFlap, Offered, Idle, Actions
  <1>8. CASE CheckCircuit(r)
        BY <1>8 DEF CheckCircuit, Idle, Actions
  <1>9. CASE SuppressUpstream(r)
    <2>1. BreachingDeps(r) \in SUBSET Repos
          BY FleetAssumption DEF BreachingDeps
    <2>2. ups' \in [Repos -> SUBSET Repos]
          BY <1>9, <2>1 DEF SuppressUpstream, Idle
    <2> QED
        BY <1>9, <2>2 DEF SuppressUpstream, Idle, Actions
  <1>10. CASE Dispatch(r)
         BY <1>10 DEF Dispatch
  <1>11. CASE Expire(r)
         BY <1>11 DEF Expire, worker
  <1>12. CASE \E ok \in BOOLEAN : Record(r, ok)
    <2>1. pc[r] = "act" /\ would[r] # "promote" => would[r] \in {"fix", "revert"}
          BY DEF PastDecide, Actions
    <2>2. CASE UNCHANGED recent
          BY <1>12, <2>2 DEF Record, Idle, Actions
    <2>3. CASE /\ pc[r] = "act" /\ would[r] # "promote"
               /\ recent' = [recent EXCEPT ![r] = Append(@, would[r])]
      <3>1. Append(recent[r], would[r]) \in Seq({"fix", "revert"})
            BY <2>1, <2>3
      <3>2. recent' \in [Repos -> Seq({"fix", "revert"})]
            BY <2>3, <3>1, ExceptType
      <3>3. Idle(r) /\ UNCHANGED <<breach, fired, queued, ups, marked, meant, again, blind, dropped>>
            BY <1>12 DEF Record
      <3>4. /\ pc' \in [Repos -> {"idle", "circuit", "deps", "act", "offer", "send"}]
            /\ would' \in [Repos -> Actions]
            /\ standing' \in [Repos -> SUBSET Repos]
            BY <3>3 DEF Idle, Actions
      <3> QED
          BY <3>2, <3>3, <3>4
    <2> QED
        BY <1>12, <2>2, <2>3 DEF Record
  <1>13. CASE Mark(r)
    <2> PICK u \in ups[r] : /\ ups' = [ups EXCEPT ![r] = @ \ {u}]
                            /\ \/ UNCHANGED <<fired, marked, pc, meant, again>>
                               \/ /\ fired' = fired \cup {u}
                                  /\ meant' = meant \cup {u}
                                  /\ again' = again \cup (meant \cap {u})
                                  /\ marked' = [marked EXCEPT ![r] = {u}]
                                  /\ pc' = [pc EXCEPT ![r] = "send"]
        BY <1>13 DEF Mark
    <2>1. u \in Repos /\ {u} \in SUBSET Repos /\ ups[r] \ {u} \in SUBSET Repos
          OBVIOUS
    <2>2. ups' \in [Repos -> SUBSET Repos]
          BY <2>1, ExceptType
    <2>3. [marked EXCEPT ![r] = {u}] \in [Repos -> SUBSET Repos]
          BY <2>1, ExceptType
    <2>4. marked' \in [Repos -> SUBSET Repos]
          BY <2>3
    <2> QED
        BY <1>13, <2>1, <2>2, <2>4 DEF Mark
  <1>14. CASE Send(r) \/ Drop(r)
    <2>1. Nobody \in SUBSET Repos /\ marked[r] \in SUBSET Repos
          BY DEF Nobody
    <2>2. [marked EXCEPT ![r] = Nobody] \in [Repos -> SUBSET Repos]
          BY <2>1, ExceptType
    <2>3. marked' \in [Repos -> SUBSET Repos]
          BY <1>14, <2>2 DEF Send, Drop
    <2>4. pc' \in [Repos -> {"idle", "circuit", "deps", "act", "offer", "send"}]
          BY <1>14 DEF Send, Drop
    <2>5. CASE Send(r)
          BY <2>1, <2>3, <2>4, <2>5 DEF Send
    <2>6. CASE Drop(r)
          BY <2>1, <2>3, <2>4, <2>6 DEF Drop
    <2> QED
        BY <1>14, <2>5, <2>6
  <1> QED
      BY <1>4, <1>5, <1>6, <1>7, <1>8, <1>9, <1>10, <1>11, <1>12, <1>13, <1>14

\* Nobody goes on from Decide with nothing to do, and Idle forgets what there was.
LEMMA DecidedStep ==
  ASSUME TypeOK, PastDecide, [Next]_vars
  PROVE  PastDecide'
  <1> USE DEF TypeOK, PastDecide
  <1>1. CASE UNCHANGED vars
        BY <1>1 DEF vars, worker
  <1>2. ASSUME NEW r \in Repos, Idle(r)
        PROVE  PastDecide'
        BY <1>2 DEF Idle
  <1>3. ASSUME NEW r \in Repos, NEW v, Start(r, v)
        PROVE  PastDecide'
        BY <1>3 DEF Start
  <1>4. ASSUME NEW r \in Repos, UNCHANGED would,
               \/ UNCHANGED pc
               \/ pc[r] \in {"circuit", "deps"} /\ \E to : pc' = [pc EXCEPT ![r] = to]
               \/ \E to \in {"offer", "send"} : pc' = [pc EXCEPT ![r] = to]
        PROVE  PastDecide'
        BY <1>4
  <1> SUFFICES ASSUME NEW r \in Repos,
                      \/ \E v \in Gates[r] : TakeSignal(r, v)
                      \/ TakePatientZero(r) \/ Superseded(r)
                      \/ SuppressStructural(r) \/ CheckCircuit(r)
                      \/ SuppressUpstream(r) \/ SuppressPin(r) \/ SuppressFlap(r)
                      \/ Dispatch(r) \/ Expire(r)
                      \/ \E ok \in BOOLEAN : Record(r, ok)
                      \/ Mark(r) \/ Send(r) \/ Drop(r) \/ Offered(r)
               PROVE  PastDecide'
      BY <1>1 DEF Next
  <1>5. CASE (\E v \in Gates[r] : TakeSignal(r, v)) \/ TakePatientZero(r)
        BY <1>3, <1>5 DEF TakeSignal, TakePatientZero
  <1>6. CASE \/ SuppressStructural(r) \/ SuppressPin(r) \/ SuppressFlap(r) \/ Offered(r)
             \/ \E ok \in BOOLEAN : Record(r, ok)
        BY <1>2, <1>6 DEF SuppressStructural, SuppressPin, SuppressFlap, Offered, Record
  <1>7. CASE CheckCircuit(r) \/ SuppressUpstream(r)
        BY <1>2, <1>4, <1>7 DEF CheckCircuit, SuppressUpstream
  <1>8. CASE Dispatch(r) \/ Superseded(r) \/ Expire(r) \/ Mark(r) \/ Send(r) \/ Drop(r)
        BY <1>4, <1>8 DEF Dispatch, Superseded, Expire, Mark, Send, Drop, worker
  <1> QED
      BY <1>5, <1>6, <1>7, <1>8

\* A set of repos that has lost some has no more of them.
LEMMA FewerRepos ==
  ASSUME NEW A \in SUBSET Repos, NEW B \in SUBSET A, NEW n \in Nat, Cardinality(A) < n
  PROVE  Cardinality(B) < n
  <1>1. IsFiniteSet(A)
        BY FleetAssumption, FS_Subset
  <1>2. IsFiniteSet(B) /\ Cardinality(B) <= Cardinality(A)
        BY <1>1, FS_Subset
  <1>3. Cardinality(A) \in Nat /\ Cardinality(B) \in Nat
        BY <1>1, <1>2, FS_CardinalityType
  <1> QED
      BY <1>2, <1>3

\* Flags rise, or r's falls and r stands nowhere any more.
LEMMA StandingStep ==
  ASSUME TypeOK, StandingBreaches, [Next]_vars
  PROVE  StandingBreaches'
  <1>1. ASSUME UNCHANGED breach, NEW r \in Repos, pc'[r] \notin {"circuit", "deps"},
               \A x \in Repos \ {r} : pc'[x] = pc[x] /\ standing'[x] = standing[x]
        PROVE  StandingBreaches'
        BY <1>1 DEF StandingBreaches
  <1>2. CASE UNCHANGED vars
        BY <1>2 DEF vars, worker, StandingBreaches
  <1>3. ASSUME NEW r \in Repos, NEW v, Start(r, v)
        PROVE  StandingBreaches'
    <2>1. /\ standing'[r] \subseteq breach'
          /\ pc'[r] \in {"idle", "circuit"}
          BY <1>3 DEF Start, TypeOK
    <2>2. ASSUME NEW x \in Repos, x # r, pc[x] \in {"circuit", "deps"}
          PROVE  standing'[x] \subseteq breach' /\ standing'[x] \subseteq standing[x]
          BY <1>3, <2>2 DEF Start, UpdateBreach, StandingBreaches
    <2>3. \A x \in Repos \ {r} : pc'[x] = pc[x]
          BY <1>3 DEF Start, TypeOK
    <2>4. ASSUME NEW x \in Repos, x # r, pc[x] = "deps", Trip > 0
          PROVE  Cardinality(standing'[x]) < Trip
          BY <2>2, <2>4, FewerRepos, FleetAssumption DEF StandingBreaches, TypeOK
    <2> QED
        BY <2>1, <2>2, <2>3, <2>4 DEF StandingBreaches
  <1>4. ASSUME NEW r \in Repos, Idle(r), UNCHANGED breach
        PROVE  StandingBreaches'
    <2>1. pc'[r] \notin {"circuit", "deps"}
          BY <1>4 DEF Idle, TypeOK
    <2>2. \A x \in Repos \ {r} : pc'[x] = pc[x] /\ standing'[x] = standing[x]
          BY <1>4 DEF Idle, TypeOK
    <2> QED
        BY <1>1, <1>4, <2>1, <2>2
  <1>5. ASSUME NEW r \in Repos, CheckCircuit(r)
        PROVE  StandingBreaches'
    <2>1. CASE Idle(r)
          BY <1>4, <1>5, <2>1 DEF CheckCircuit
    <2>2. CASE ~CircuitOpen /\ pc' = [pc EXCEPT ![r] = "deps"] /\ UNCHANGED <<would, standing>>
      <3>1. UNCHANGED <<breach, standing>> /\ pc[r] = "circuit"
            BY <1>5, <2>2 DEF CheckCircuit
      <3>2. Trip > 0 => Cardinality(breach) < Trip
        <4>1. IsFiniteSet(breach)
              BY FleetAssumption, FS_Subset DEF TypeOK
        <4>2. Cardinality(breach) \in Nat
              BY <4>1, FS_CardinalityType
        <4> QED
            BY <2>2, <4>2, FleetAssumption DEF CircuitOpen
      <3>3. standing[r] \subseteq breach
            BY <3>1 DEF StandingBreaches
      <3>4. Trip > 0 => Cardinality(standing[r]) < Trip
            BY <3>2, <3>3, FewerRepos, FleetAssumption DEF TypeOK
      <3> QED
          BY <2>2, <3>1, <3>3, <3>4 DEF StandingBreaches, TypeOK
    <2> QED
        BY <1>5, <2>1, <2>2 DEF CheckCircuit
  <1> SUFFICES ASSUME NEW r \in Repos,
                      \/ \E v \in Gates[r] : TakeSignal(r, v)
                      \/ TakePatientZero(r) \/ Superseded(r)
                      \/ SuppressStructural(r) \/ CheckCircuit(r)
                      \/ SuppressUpstream(r) \/ SuppressPin(r) \/ SuppressFlap(r)
                      \/ Dispatch(r) \/ Expire(r)
                      \/ \E ok \in BOOLEAN : Record(r, ok)
                      \/ Mark(r) \/ Send(r) \/ Drop(r) \/ Offered(r)
               PROVE  StandingBreaches'
      BY <1>2 DEF Next
  <1>6. CASE (\E v \in Gates[r] : TakeSignal(r, v)) \/ TakePatientZero(r)
        BY <1>3, <1>6 DEF TakeSignal, TakePatientZero
  <1>7. CASE \/ SuppressStructural(r) \/ SuppressPin(r) \/ SuppressFlap(r) \/ Offered(r)
             \/ \E ok \in BOOLEAN : Record(r, ok)
        BY <1>4, <1>7 DEF SuppressStructural, SuppressPin, SuppressFlap, Offered, Record
  <1>8. CASE SuppressUpstream(r)
    <2>1. CASE Idle(r)
          BY <1>4, <1>8, <2>1 DEF SuppressUpstream
    <2>2. CASE /\ pc' = [pc EXCEPT ![r] = "offer"]
               /\ standing' = [standing EXCEPT ![r] = {}]
      <3>1. pc'[r] \notin {"circuit", "deps"}
            BY <2>2 DEF TypeOK
      <3>2. \A x \in Repos \ {r} : pc'[x] = pc[x] /\ standing'[x] = standing[x]
            BY <2>2 DEF TypeOK
      <3>3. UNCHANGED breach
            BY <1>8 DEF SuppressUpstream
      <3> QED
          BY <1>1, <3>1, <3>2, <3>3
    <2> QED
        BY <1>8, <2>1, <2>2 DEF SuppressUpstream
  <1>9. CASE Superseded(r) \/ Expire(r)
        BY <1>9 DEF Superseded, Expire, worker, StandingBreaches
  <1>10. CASE Dispatch(r) \/ Mark(r) \/ Send(r) \/ Drop(r)
    <2>1. UNCHANGED breach
          BY <1>10 DEF Dispatch, Mark, Send, Drop
    <2>2. \A x \in Repos \ {r} : pc'[x] = pc[x] /\ standing'[x] = standing[x]
          BY <1>10 DEF Dispatch, Mark, Send, Drop, TypeOK
    <2>3. pc'[r] \notin {"circuit", "deps"}
          BY <1>10 DEF Dispatch, Mark, Send, Drop, TypeOK
    <2> QED
        BY <1>1, <2>1, <2>2, <2>3
  <1> QED
      BY <1>5, <1>6, <1>7, <1>8, <1>9, <1>10

\* A mark is lifted when the episode is over, or with the signal that it was for.
LEMMA MeantStep ==
  ASSUME TypeOK, MeantIsMarked, [Next]_vars
  PROVE  MeantIsMarked'
  <1>1. CASE UNCHANGED vars
        BY <1>1 DEF vars, MeantIsMarked
  <1>2. ASSUME UNCHANGED <<fired, meant, again, dropped>>
        PROVE  MeantIsMarked'
        BY <1>2 DEF MeantIsMarked
  <1>3. ASSUME NEW r \in Repos, NEW v, Start(r, v)
        PROVE  MeantIsMarked'
        BY <1>3 DEF Start, UpdateBreach, MeantIsMarked
  <1> SUFFICES ASSUME NEW r \in Repos,
                      \/ \E v \in Gates[r] : TakeSignal(r, v)
                      \/ TakePatientZero(r) \/ Superseded(r)
                      \/ SuppressStructural(r) \/ CheckCircuit(r)
                      \/ SuppressUpstream(r) \/ SuppressPin(r) \/ SuppressFlap(r)
                      \/ Dispatch(r) \/ Expire(r)
                      \/ \E ok \in BOOLEAN : Record(r, ok)
                      \/ Mark(r) \/ Send(r) \/ Drop(r) \/ Offered(r)
               PROVE  MeantIsMarked'
      BY <1>1 DEF Next
  <1>4. CASE (\E v \in Gates[r] : TakeSignal(r, v)) \/ TakePatientZero(r)
        BY <1>3, <1>4 DEF TakeSignal, TakePatientZero
  <1>5. CASE \/ Superseded(r) \/ SuppressStructural(r) \/ CheckCircuit(r)
             \/ SuppressUpstream(r) \/ SuppressPin(r) \/ SuppressFlap(r)
             \/ Dispatch(r) \/ Expire(r) \/ (\E ok \in BOOLEAN : Record(r, ok))
             \/ Send(r) \/ Offered(r)
        BY <1>2, <1>5 DEF Superseded, SuppressStructural, CheckCircuit, SuppressUpstream,
           SuppressPin, SuppressFlap, Dispatch, Expire, Record, Send, Offered
  <1>6. CASE Mark(r)
        BY <1>6 DEF Mark, MeantIsMarked
  <1>7. CASE Drop(r)
        BY <1>7 DEF Drop, MeantIsMarked
  <1> QED
      BY <1>4, <1>5, <1>6, <1>7

\* A repo alternates once more only where SuppressFlap found room for it, or blind.
LEMMA FlapStep ==
  ASSUME TypeOK, PastDecide, FlapRoom, [Next]_vars
  PROVE  FlapRoom'
  <1> DEFINE count(x) == Cardinality(Transitions(recent[x]))
             acts(x) == pc[x] = "act" /\ would[x] # "promote"
  <1> SUFFICES ASSUME FlapMax > 0
               PROVE  FlapRoom'
      BY DEF FlapRoom
  <1>1. \A x \in Repos : recent[x] \in Seq({"fix", "revert"}) /\ count(x) \in Nat
    <2> SUFFICES ASSUME NEW x \in Repos
                 PROVE  recent[x] \in Seq({"fix", "revert"}) /\ count(x) \in Nat
        OBVIOUS
    <2>1. recent[x] \in Seq({"fix", "revert"})
          BY DEF TypeOK
    <2> QED
        BY <2>1, TransitionsFinite
  <1>2. ASSUME UNCHANGED <<recent, blind>>, \A x \in Repos : acts(x)' => acts(x)
        PROVE  FlapRoom'
        BY <1>2 DEF FlapRoom
  <1>3. CASE UNCHANGED vars
        BY <1>3 DEF vars, worker, FlapRoom
  <1>4. ASSUME NEW r \in Repos, Idle(r), UNCHANGED <<recent, blind>>
        PROVE  FlapRoom'
    <2>1. \A x \in Repos : acts(x)' => acts(x)
          BY <1>4 DEF Idle, TypeOK
    <2> QED
        BY <1>2, <1>4, <2>1
  <1>5. ASSUME NEW r \in Repos, NEW v, Start(r, v)
        PROVE  FlapRoom'
    <2>1. \A x \in Repos : acts(x)' => acts(x)
          BY <1>5 DEF Start, TypeOK
    <2>2. UNCHANGED <<recent, blind>>
          BY <1>5 DEF Start
    <2> QED
        BY <1>2, <2>1, <2>2
  <1> SUFFICES ASSUME NEW r \in Repos,
                      \/ \E v \in Gates[r] : TakeSignal(r, v)
                      \/ TakePatientZero(r) \/ Superseded(r)
                      \/ SuppressStructural(r) \/ CheckCircuit(r)
                      \/ SuppressUpstream(r) \/ SuppressPin(r) \/ SuppressFlap(r)
                      \/ Dispatch(r) \/ Expire(r)
                      \/ \E ok \in BOOLEAN : Record(r, ok)
                      \/ Mark(r) \/ Send(r) \/ Drop(r) \/ Offered(r)
               PROVE  FlapRoom'
      BY <1>3 DEF Next
  <1>6. CASE (\E v \in Gates[r] : TakeSignal(r, v)) \/ TakePatientZero(r)
        BY <1>5, <1>6 DEF TakeSignal, TakePatientZero
  <1>7. CASE SuppressStructural(r) \/ SuppressPin(r) \/ SuppressFlap(r) \/ Offered(r)
        BY <1>4, <1>7 DEF SuppressStructural, SuppressPin, SuppressFlap, Offered
  <1>8. CASE CheckCircuit(r) \/ SuppressUpstream(r) \/ Mark(r) \/ Send(r) \/ Drop(r)
    <2>1. UNCHANGED <<recent, blind>>
          BY <1>8 DEF CheckCircuit, SuppressUpstream, Mark, Send, Drop
    <2>2. CASE Idle(r)
          BY <1>4, <2>1, <2>2
    <2>3. CASE UNCHANGED would /\ \E to \in {"deps", "offer", "send"} :
                 pc' = [pc EXCEPT ![r] = to]
      <3>1. \A x \in Repos : acts(x)' => acts(x)
            BY <2>3 DEF TypeOK
      <3> QED
          BY <1>2, <2>1, <3>1
    <2>4. CASE UNCHANGED <<would, pc>>
          BY <1>2, <2>1, <2>4
    <2> QED
        BY <1>8, <2>2, <2>3, <2>4 DEF CheckCircuit, SuppressUpstream, Mark, Send, Drop
  <1>9. CASE Superseded(r)
        BY <1>2, <1>9 DEF Superseded, worker
  <1>10. CASE Dispatch(r)
    <2>1. UNCHANGED <<recent, would>> /\ blind \subseteq blind' /\ pc' = [pc EXCEPT ![r] = "act"]
          BY <1>10 DEF Dispatch
    <2>2. r \notin blind' /\ would[r] # "promote" => count(r) < FlapMax
      <3>1. r \notin blind' /\ would[r] # "promote" => ~Flapping(r)
            BY <1>10 DEF Dispatch
      <3> QED
          BY <1>1, <3>1, FleetAssumption DEF Flapping
    <2>3. \A x \in Repos \ {r} : acts(x)' = acts(x)
          BY <2>1 DEF TypeOK
    <2>4. \A x \in Repos : count(x)' = count(x)
          BY <2>1
    <2> QED
        BY <2>1, <2>2, <2>3, <2>4 DEF FlapRoom
  <1>11. CASE Expire(r)
    <2>1. /\ UNCHANGED <<pc, would, blind>>
          /\ recent[r] # <<>> /\ recent' = [recent EXCEPT ![r] = Tail(@)]
          BY <1>11 DEF Expire, worker
    <2>2. recent'[r] = Tail(recent[r]) /\ \A x \in Repos \ {r} : recent'[x] = recent[x]
          BY <2>1 DEF TypeOK
    <2>3. count(r)' <= count(r)
          BY <1>1, <2>1, <2>2, TransitionsTail
    <2>4. count(r)' \in Nat
      <3>1. Tail(recent[r]) \in Seq({"fix", "revert"})
            BY <1>1, <2>1
      <3> QED
          BY <2>2, <3>1, TransitionsFinite
    <2>5. \A x \in Repos : count(x)' \in Nat /\ count(x) \in Nat /\ count(x)' <= count(x)
          BY <1>1, <2>2, <2>3, <2>4
    <2> HIDE DEF count
    <2>6. \A x \in Repos \ blind : count(x) <= FlapMax /\ (acts(x) => count(x) < FlapMax)
          BY DEF FlapRoom, count
    <2>7. \A x \in Repos \ blind : count(x)' <= FlapMax /\ (acts(x) => count(x)' < FlapMax)
          BY <2>5, <2>6, FleetAssumption
    <2> QED
        BY <2>1, <2>7 DEF FlapRoom, count
  <1>12. CASE \E ok \in BOOLEAN : Record(r, ok)
    <2>1. /\ pc[r] = "act" /\ Idle(r) /\ UNCHANGED blind
          /\ \/ UNCHANGED recent
             \/ would[r] # "promote" /\ recent' = [recent EXCEPT ![r] = Append(@, would[r])]
          BY <1>12 DEF Record
    <2>2. CASE UNCHANGED recent
          BY <1>4, <2>1, <2>2
    <2>3. CASE would[r] # "promote" /\ recent' = [recent EXCEPT ![r] = Append(@, would[r])]
      <3>1. would[r] \in {"fix", "revert"}
            BY <2>1, <2>3 DEF PastDecide, TypeOK, Actions
      <3>2. /\ recent'[r] = Append(recent[r], would[r])
            /\ \A x \in Repos \ {r} : recent'[x] = recent[x]
            BY <2>3 DEF TypeOK
      <3>3. count(r)' <= count(r) + 1
            BY <1>1, <3>1, <3>2, TransitionsAppend
      <3>4. count(r)' \in Nat
        <4>1. Append(recent[r], would[r]) \in Seq({"fix", "revert"})
              BY <1>1, <3>1
        <4> QED
            BY <3>2, <4>1, TransitionsFinite
      <3>5. /\ ~acts(r)'
            /\ \A x \in Repos \ {r} : acts(x)' = acts(x) /\ count(x)' = count(x)
            BY <2>1, <3>2 DEF Idle, TypeOK
      <3>6. acts(r)
            BY <2>1, <2>3
      <3> HIDE DEF count, acts
      <3>7. \A x \in Repos \ blind : count(x) <= FlapMax /\ (acts(x) => count(x) < FlapMax)
            BY DEF FlapRoom, count, acts
      <3>8. r \notin blind => count(r)' <= FlapMax
            BY <1>1, <3>3, <3>4, <3>6, <3>7, FleetAssumption DEF count
      <3>9. \A x \in Repos \ blind' : count(x)' <= FlapMax /\ (acts(x)' => count(x)' < FlapMax)
            BY <2>1, <3>5, <3>7, <3>8
      <3> QED
          BY <3>9 DEF FlapRoom, count, acts
    <2> QED
        BY <2>1, <2>2, <2>3
  <1> QED
      BY <1>6, <1>7, <1>8, <1>9, <1>10, <1>11, <1>12

-----------------------------------------------------------------------------
(* The theorems *)

\* At start no flag is up, no mark is set and nothing has been done.
LEMMA InitIInv ==
  ASSUME Init
  PROVE  IInv
  <1>1. TypeOK
        BY DEF Init, TypeOK, Actions, Nobody
  <1>2. PastDecide /\ StandingBreaches /\ MeantIsMarked
        BY DEF Init, PastDecide, StandingBreaches, MeantIsMarked
  <1>3. FlapRoom
    <2>1. Transitions(<<>>) = {}
          BY DEF Transitions
    <2>2. Cardinality(Transitions(<<>>)) = 0
          BY <2>1, FS_EmptySet
    <2> QED
        BY <2>2, FleetAssumption DEF Init, FlapRoom
  <1> QED
      BY <1>1, <1>2, <1>3 DEF IInv

\* The invariant behind the properties of the fleet policy holds in every state.
THEOREM Invariance == Spec => []IInv
  <1>1. Init => IInv
        BY InitIInv
  <1>2. IInv /\ [Next]_vars => IInv'
        BY TypeStep, DecidedStep, StandingStep, MeantStep, FlapStep DEF IInv
  <1> QED
      BY <1>1, <1>2, PTL DEF Spec

\* suppressReason lets no Revert or Promote through while an upstream that handle found
\* in breach has not recovered, and nothing at all while enough repos for the circuit
\* have not, though it reads the flags twice and others write them in between.
THEOREM BreachesAreHeld == Spec => BreachesHold
  <1>1. IInv /\ [Next]_vars =>
          [\A r \in Repos : Dispatches(r) =>
             /\ would[r] # "fix" => standing[r] \cap Deps[r] = {}
             /\ Trip > 0 => Cardinality(standing[r]) < Trip]_vars
    <2> SUFFICES ASSUME IInv, Next, NEW r \in Repos, Dispatches(r)
                 PROVE  /\ would[r] # "fix" => standing[r] \cap Deps[r] = {}
                        /\ Trip > 0 => Cardinality(standing[r]) < Trip
        OBVIOUS
    <2>1. pc[r] = "deps" /\ standing[r] \subseteq breach
          BY DEF Dispatches, IInv, StandingBreaches
    <2>2. Trip > 0 => Cardinality(standing[r]) < Trip
          BY <2>1 DEF IInv, StandingBreaches
    <2>3. Dispatch(r)
      <3>1. pc[r] = "deps" /\ pc'[r] = "act" /\ TypeOK
            BY DEF Dispatches, IInv
      <3>2. PICK x \in Repos :
               \/ \E v \in Gates[x] : TakeSignal(x, v)
               \/ TakePatientZero(x) \/ Superseded(x)
               \/ SuppressStructural(x) \/ CheckCircuit(x)
               \/ SuppressUpstream(x) \/ SuppressPin(x) \/ SuppressFlap(x)
               \/ Dispatch(x) \/ Expire(x)
               \/ \E ok \in BOOLEAN : Record(x, ok)
               \/ Mark(x) \/ Send(x) \/ Drop(x) \/ Offered(x)
            BY DEF Next
      <3>3. ASSUME UNCHANGED pc \/ \E to : to # "act" /\ pc' = [pc EXCEPT ![x] = to]
            PROVE  FALSE
            BY <3>1, <3>3 DEF TypeOK
      <3>4. CASE (\E v \in Gates[x] : TakeSignal(x, v)) \/ TakePatientZero(x)
            BY <3>3, <3>4 DEF TakeSignal, TakePatientZero, Start
      <3>5. CASE \/ Superseded(x) \/ SuppressStructural(x) \/ CheckCircuit(x)
                 \/ SuppressUpstream(x) \/ SuppressPin(x) \/ SuppressFlap(x)
                 \/ Expire(x) \/ (\E ok \in BOOLEAN : Record(x, ok)) \/ Offered(x)
            BY <3>3, <3>5 DEF Superseded, SuppressStructural, CheckCircuit, SuppressUpstream,
               SuppressPin, SuppressFlap, Expire, Record, Offered, Idle, worker
      <3>6. CASE Mark(x) \/ Send(x) \/ Drop(x)
            BY <3>3, <3>6 DEF Mark, Send, Drop
      <3>7. CASE Dispatch(x)
            BY <3>1, <3>7 DEF Dispatch, TypeOK
      <3> QED
          BY <3>2, <3>4, <3>5, <3>6, <3>7
    <2>4. would[r] # "fix" => Deps[r] \cap breach = {}
          BY <2>3 DEF Dispatch, BreachingDeps
    <2> QED
        BY <2>1, <2>2, <2>4
  <1> QED
      BY <1>1, Invariance, PTL DEF Spec, BreachesHold

\* A repo whose trail can be read does not go back and forth between Fix and Revert, and
\* its upstream is offered one Fix per breach unless the channel drops the signal.
THEOREM TroubleStaysBounded == Spec => []TroubleIsBounded
  <1>1. IInv => TroubleIsBounded
        BY DEF IInv, FlapRoom, MeantIsMarked, TroubleIsBounded, FlapBounded, PatientZeroOnce
  <1> QED
      BY <1>1, Invariance, PTL

-----------------------------------------------------------------------------
(* The audit log and its index *)

\* Once the database is opened the index has a key for every record, and no other.
IndexIsExact == byRepo = IF hasIndex THEN {<<log[i].repo, i>> : i \in DOMAIN log} ELSE {}

\* A record is made once the database is opened, and has its place within the bound and
\* its tick.
Busy == {w \in Workers : wpc[w] # "idle"}
Stamped == {w \in Workers : wpc[w] = "stamped"}
OpenFirst == hasIndex \/ Busy = {}
RoomLeft == Len(log) + Cardinality(Busy) <= MaxRecords
TicksStamped == clock \in Nat /\ clock <= Len(log) + Cardinality(Stamped)

ViewsTyped ==
  /\ log \in Seq(Records) /\ hasIndex \in BOOLEAN
  /\ wpc \in [Workers -> {"idle", "dispatching", "stamped"}]
  /\ rec = [w \in Workers |-> rec[w]]
  /\ \A w \in Workers : IF wpc[w] = "idle" THEN rec[w] = Nothing ELSE rec[w] \in Records

ViewsIInv == ViewsTyped /\ IndexIsExact /\ OpenFirst /\ RoomLeft /\ TicksStamped

\* A set of numbers has a least one.
LEMMA LeastIs ==
  ASSUME NEW S, S \subseteq Nat, S # {}
  PROVE  \E j \in S : \A i \in S : j <= i
  <1>1. PICK j \in S : \A i \in S : ~(<<i, j>> \in OpToRel(<, Nat))
        BY NatLessThanWellFounded, WFMin
  <1>2. \A i \in S : j <= i
    <2> TAKE i \in S
    <2>1. <<i, j>> \in Nat \X Nat /\ <<i, j>>[1] = i /\ <<i, j>>[2] = j
          OBVIOUS
    <2>2. ~(i < j)
          BY <1>1, <2>1 DEF OpToRel
    <2> QED
        BY <2>2
  <1> QED
      BY <1>2

\* The router picks a provider of the configuration or the fallback: of those that are
\* fit there is a cheapest, and of the cheapest a first.
LEMMA PickIsProvider ==
  ASSUME NEW recs, NEW live
  PROVE  PickProvider(recs, live) \in ProviderNames \cup {Fallback}
  <1> DEFINE fit == {i \in DOMAIN Providers : Providers[i] \in live /\ Fit(recs, Providers[i])}
             W(i) == Weight[Providers[i]]
             Best(i) == \A j \in fit : W(i) < W(j) \/ (W(i) = W(j) /\ i <= j)
  <1>1. CASE fit = {}
        BY <1>1 DEF PickProvider
  <1>2. CASE fit # {}
    <2>1. fit \subseteq Nat /\ \A i \in fit : W(i) \in Nat /\ i \in DOMAIN Providers
          BY ViewsAssumption DEF ProviderNames
    <2>2. PickProvider(recs, live) = Providers[CHOOSE i \in fit : Best(i)]
          BY <1>2 DEF PickProvider
    <2> HIDE DEF fit, W
    <2>3. PICK w \in {W(i) : i \in fit} : \A v \in {W(i) : i \in fit} : w <= v
      <3>1. {W(i) : i \in fit} \subseteq Nat /\ {W(i) : i \in fit} # {}
            BY <1>2, <2>1
      <3> QED
          BY <3>1, LeastIs
    <2>4. PICK i \in {j \in fit : W(j) = w} : \A k \in {j \in fit : W(j) = w} : i <= k
      <3>1. {j \in fit : W(j) = w} \subseteq Nat /\ {j \in fit : W(j) = w} # {}
            BY <2>1
      <3> QED
          BY <3>1, LeastIs
    <2>5. \A j \in fit : w \in Nat /\ W(j) \in Nat /\ w <= W(j)
          BY <2>1, <2>3, <2>4
    <2>6. i \in fit /\ Best(i)
          BY <2>4, <2>5
    <2>7. (CHOOSE k \in fit : Best(k)) \in fit
          BY <2>6
    <2> QED
        BY <2>1, <2>2, <2>7 DEF ProviderNames
  <1> QED
      BY <1>1, <1>2

\* A worker more or less is one more or less.
LEMMA WorkerCounts ==
  ASSUME NEW S, S \subseteq Workers, NEW w \in Workers
  PROVE  /\ Cardinality(S) \in Nat
         /\ w \notin S => Cardinality(S \cup {w}) = Cardinality(S) + 1
         /\ w \in S => Cardinality(S \ {w}) = Cardinality(S) - 1
  <1>1. IsFiniteSet(S)
        BY FS_Subset, ViewsAssumption
  <1> QED
      BY <1>1, FS_AddElement, FS_RemoveElement, FS_CardinalityType

\* Every step keeps types, index, room and ticks.
LEMMA ViewsStep ==
  ASSUME ViewsIInv, [ViewsNext]_viewsVars
  PROVE  ViewsIInv'
  <1>0. ViewsTyped /\ IndexIsExact /\ OpenFirst /\ RoomLeft /\ TicksStamped
        BY DEF ViewsIInv
  <1>b. Busy \subseteq Workers /\ Stamped \subseteq Workers
        BY DEF Busy, Stamped
  <1>c. MaxRecords \in Nat /\ Len(log) \in Nat /\ DOMAIN log = 1 .. Len(log)
        BY <1>0, ViewsAssumption DEF ViewsTyped
  <1>1. CASE Open
    <2>1. /\ ~hasIndex /\ hasIndex' = TRUE /\ byRepo' = Rebuilt /\ log' = log /\ clock' = clock
          /\ wpc' = wpc /\ rec' = rec
          BY <1>1 DEF Open
    <2>2. byRepo' = {<<log[i].repo, i>> : i \in DOMAIN log}
          BY <1>0, <2>1 DEF Rebuilt, IndexIsExact
    <2>3. Busy' = Busy /\ Stamped' = Stamped
          BY <2>1 DEF Busy, Stamped
    <2> QED
        BY <1>0, <2>1, <2>2, <2>3 DEF ViewsIInv, ViewsTyped, IndexIsExact, OpenFirst, RoomLeft, TicksStamped
  <1>2. ASSUME NEW w \in Workers, NEW r \in RepoIds, NEW s \in Signals, BeginDispatch(w, r, s)
        PROVE  ViewsIInv'
    <2>1. /\ wpc[w] = "idle" /\ wpc' = [wpc EXCEPT ![w] = "dispatching"]
          /\ UNCHANGED <<log, hasIndex, byRepo, clock>> /\ hasIndex
          /\ Len(log) + Cardinality(Busy) < MaxRecords
          BY <1>2 DEF BeginDispatch, Room, Busy
    <2>2. PICK p \in ProviderNames \cup {Fallback, Nothing} :
            rec' = [rec EXCEPT ![w] =
              [repo |-> r, source |-> s.source, kind |-> s.kind, action |-> s.action,
               ok |-> FALSE, at |-> 0, provider |-> p, promoted |-> FALSE]]
          BY <1>2, PickIsProvider DEF BeginDispatch
    <2>3. [repo |-> r, source |-> s.source, kind |-> s.kind, action |-> s.action,
           ok |-> FALSE, at |-> 0, provider |-> p, promoted |-> FALSE] \in Records
      <3>1. s \in Decided
            BY ViewsAssumption
      <3> QED
          BY <3>1 DEF Records
    <2>4. ViewsTyped'
          BY <1>0, <2>1, <2>2, <2>3 DEF ViewsTyped
    <2>5. Busy' = Busy \cup {w} /\ w \notin Busy /\ Stamped' = Stamped
          BY <1>0, <2>1 DEF Busy, Stamped, ViewsTyped
    <2>6. RoomLeft'
          BY <1>b, <1>c, <2>1, <2>5, WorkerCounts DEF RoomLeft
    <2> QED
        BY <1>0, <2>1, <2>4, <2>5, <2>6 DEF ViewsIInv, IndexIsExact, OpenFirst, TicksStamped
  <1>3. ASSUME NEW w \in Workers, Stamp(w) PROVE ViewsIInv'
    <2>1. /\ wpc[w] = "dispatching" /\ wpc' = [wpc EXCEPT ![w] = "stamped"]
          /\ clock' = clock + 1 /\ UNCHANGED <<log, hasIndex, byRepo>>
          BY <1>3 DEF Stamp
    <2>2. PICK ok \in BOOLEAN, known \in BOOLEAN :
            rec' = [rec EXCEPT ![w].ok = ok, ![w].at = clock + 1, ![w].promoted = known]
          BY <1>3 DEF Stamp, Statuses
    <2>3. rec[w] \in Records /\ clock + 1 \in Nat
          BY <1>0, <2>1 DEF ViewsTyped, TicksStamped
    <2>4. rec'[w] \in Records /\ \A v \in Workers \ {w} : rec'[v] = rec[v]
          BY <1>0, <2>2, <2>3 DEF ViewsTyped, Records
    <2>5. ViewsTyped'
      <3>1. rec' = [v \in Workers |-> rec'[v]]
            BY <1>0, <2>2 DEF ViewsTyped
      <3>2. /\ wpc' \in [Workers -> {"idle", "dispatching", "stamped"}]
            /\ wpc'[w] = "stamped" /\ \A v \in Workers \ {w} : wpc'[v] = wpc[v]
            BY <1>0, <2>1 DEF ViewsTyped
      <3> QED
          BY <1>0, <2>1, <2>4, <3>1, <3>2 DEF ViewsTyped
    <2>6. Stamped' = Stamped \cup {w} /\ w \notin Stamped /\ Busy' = Busy
          BY <1>0, <2>1 DEF Busy, Stamped, ViewsTyped
    <2>7. TicksStamped'
          BY <1>0, <1>b, <1>c, <2>1, <2>6, WorkerCounts DEF TicksStamped
    <2> QED
        BY <1>0, <2>1, <2>5, <2>6, <2>7 DEF ViewsIInv, IndexIsExact, OpenFirst, RoomLeft
  <1>4. ASSUME NEW w \in Workers, Write(w) PROVE ViewsIInv'
    <2>1. /\ wpc[w] = "stamped" /\ wpc' = [wpc EXCEPT ![w] = "idle"]
          /\ log' = Append(log, rec[w]) /\ rec' = [rec EXCEPT ![w] = Nothing]
          /\ byRepo' = byRepo \cup {<<rec[w].repo, Len(log) + 1>>}
          /\ hasIndex' = hasIndex /\ clock' = clock
          BY <1>4 DEF Write
    <2>2. rec[w] \in Records
          BY <1>0, <2>1 DEF ViewsTyped
    <2>3. /\ log' \in Seq(Records) /\ Len(log') = Len(log) + 1
          /\ log'[Len(log) + 1] = rec[w] /\ \A i \in DOMAIN log : log'[i] = log[i]
          BY <1>0, <2>1, <2>2, AppendProperties DEF ViewsTyped
    <2>4. DOMAIN log' = DOMAIN log \cup {Len(log) + 1}
          BY <1>c, <2>3
    <2>5. ViewsTyped'
      <3>1. /\ rec' = [v \in Workers |-> rec'[v]] /\ rec'[w] = Nothing
            /\ \A v \in Workers \ {w} : rec'[v] = rec[v]
            BY <1>0, <2>1 DEF ViewsTyped
      <3>2. /\ wpc' \in [Workers -> {"idle", "dispatching", "stamped"}]
            /\ wpc'[w] = "idle" /\ \A v \in Workers \ {w} : wpc'[v] = wpc[v]
            BY <1>0, <2>1 DEF ViewsTyped
      <3>3. log' \in Seq(Records) /\ hasIndex' \in BOOLEAN
            BY <1>0, <2>1, <2>3 DEF ViewsTyped
      <3>4. \A v \in Workers : IF wpc'[v] = "idle" THEN rec'[v] = Nothing ELSE rec'[v] \in Records
            BY <1>0, <3>1, <3>2 DEF ViewsTyped
      <3> QED
          BY <3>1, <3>2, <3>3, <3>4 DEF ViewsTyped
    <2>6. Busy' = Busy \ {w} /\ w \in Busy /\ Stamped' = Stamped \ {w} /\ w \in Stamped
          BY <1>0, <2>1 DEF Busy, Stamped, ViewsTyped
    <2>7. IndexIsExact' /\ OpenFirst'
      <3>1. hasIndex
            BY <1>0, <2>6 DEF OpenFirst
      <3>2. byRepo = {<<log[i].repo, i>> : i \in DOMAIN log}
            BY <1>0, <3>1 DEF IndexIsExact
      <3>3. byRepo' = {<<log'[i].repo, i>> : i \in DOMAIN log'}
            BY <2>1, <2>3, <2>4, <3>2
      <3> QED
          BY <2>1, <3>1, <3>3 DEF IndexIsExact, OpenFirst
    <2>8. /\ Cardinality(Busy) \in Nat /\ Cardinality(Busy') = Cardinality(Busy) - 1
          /\ Cardinality(Stamped) \in Nat /\ Cardinality(Stamped') = Cardinality(Stamped) - 1
          BY <1>b, <2>6, WorkerCounts
    <2>9. RoomLeft' /\ TicksStamped'
          BY <1>0, <1>c, <2>1, <2>3, <2>8 DEF RoomLeft, TicksStamped
    <2> QED
        BY <2>5, <2>7, <2>9 DEF ViewsIInv
  <1>5. CASE UNCHANGED viewsVars
    <2>1. Busy' = Busy /\ Stamped' = Stamped
          BY <1>5 DEF Busy, Stamped, viewsVars
    <2> QED
        BY <1>0, <1>5, <2>1 DEF ViewsIInv, ViewsTyped, IndexIsExact, OpenFirst, RoomLeft, TicksStamped, viewsVars
  <1> QED
      BY <1>1, <1>2, <1>3, <1>4, <1>5 DEF ViewsNext

\* A new database, or one of an earlier version
LEMMA ViewsInitially == ViewsInit => ViewsIInv
  <1> SUFFICES ASSUME ViewsInit PROVE ViewsIInv
      OBVIOUS
  <1>1. Busy = {} /\ Stamped = {} /\ Cardinality({}) = 0
        BY FS_EmptySet DEF ViewsInit, Busy, Stamped
  <1>2. Earlier \in Records
    <2>1. 1 \in RepoIds
          BY ViewsAssumption DEF RepoIds
    <2>2. [source |-> "ci", kind |-> "fail", action |-> "fix"] \in Decided
          BY DEF Decided
    <2>3. /\ "ci" \in {s.source : s \in Decided} /\ "fail" \in {s.kind : s \in Decided}
          /\ "fix" \in {s.action : s \in Decided}
          BY <2>2
    <2> QED
        BY <2>1, <2>3 DEF Earlier, Records
  <1>3. log \in Seq(Records) /\ Len(log) \in {0, 1}
    <2>1. <<>> \in Seq(Records) /\ Len(<<>>) = 0
          OBVIOUS
    <2>2. \A x \in Records : <<x>> \in Seq(Records) /\ Len(<<x>>) = 1
          OBVIOUS
    <2> QED
        BY <1>2, <2>1, <2>2 DEF ViewsInit
  <1>4. MaxRecords \in Nat /\ MaxRecords > 0
        BY ViewsAssumption
  <1>5. ViewsTyped
        BY <1>3 DEF ViewsInit, ViewsTyped
  <1>6. IndexIsExact /\ OpenFirst
        BY <1>1 DEF ViewsInit, IndexIsExact, OpenFirst
  <1>7. RoomLeft
        BY <1>1, <1>3, <1>4 DEF RoomLeft
  <1>8. TicksStamped
        BY <1>1, <1>3 DEF ViewsInit, TicksStamped
  <1> QED
      BY <1>5, <1>6, <1>7, <1>8 DEF ViewsIInv

\* The inductive invariant of the log and its index
THEOREM ViewsInvariance == ViewsSpec => []ViewsIInv
  <1> QED
      BY ViewsInitially, ViewsStep, PTL DEF ViewsSpec

\* Once the database is opened, rebuilt or not, the index has a key for every record and
\* no other, in whatever order the workers append (rebuildRepoIndex, Append).
THEOREM IndexStaysExact ==
  ViewsSpec => [](hasIndex => byRepo = {<<log[i].repo, i>> : i \in DOMAIN log})
  <1>1. ViewsIInv => (hasIndex => byRepo = {<<log[i].repo, i>> : i \in DOMAIN log})
        BY DEF ViewsIInv, IndexIsExact
  <1> QED
      BY <1>1, ViewsInvariance, PTL

\* Log, index, clock and workers stay of their types and within the bound.
LEMMA ViewsTypes == ViewsSpec => []ViewsTypeOK
  <1>1. ViewsIInv => ViewsTypeOK
    <2> SUFFICES ASSUME ViewsIInv PROVE ViewsTypeOK
        OBVIOUS
    <2>1. /\ ViewsTyped /\ log \in Seq(Records) /\ Len(log) \in Nat /\ MaxRecords \in Nat
          /\ DOMAIN log = 1 .. Len(log)
          BY ViewsAssumption DEF ViewsIInv, ViewsTyped
    <2>2. byRepo \subseteq RepoIds \X DOMAIN log
      <3>1. \A i \in DOMAIN log : log[i] \in Records
            BY <2>1
      <3>2. \A i \in DOMAIN log : log[i].repo \in RepoIds
            BY <3>1 DEF Records
      <3> QED
          BY <3>2 DEF ViewsIInv, IndexIsExact
    <2>3. /\ Busy \subseteq Workers /\ Stamped \subseteq Busy /\ IsFiniteSet(Workers)
          BY ViewsAssumption DEF Busy, Stamped
    <2>4. /\ Cardinality(Busy) \in Nat /\ Cardinality(Stamped) \in Nat
          /\ Cardinality(Stamped) <= Cardinality(Busy)
      <3>1. IsFiniteSet(Busy)
            BY <2>3, FS_Subset
      <3> QED
          BY <2>3, <3>1, FS_Subset, FS_CardinalityType
    <2>5. Len(log) <= MaxRecords /\ clock \in 0 .. MaxRecords
          BY <2>1, <2>4 DEF ViewsIInv, RoomLeft, TicksStamped
    <2> QED
        BY <2>1, <2>2, <2>5 DEF ViewsTypeOK, ViewsTyped
  <1> QED
      BY <1>1, ViewsInvariance, PTL

-----------------------------------------------------------------------------
(* Sorted sets, and what is picked from a sequence *)

\* A strict order of S
Orders(R, S) ==
  /\ \A x \in S : <<x, x>> \notin R
  /\ \A x, y, z \in S : <<x, y>> \in R /\ <<y, z>> \in R => <<x, z>> \in R
  /\ \A x, y \in S : x = y \/ <<x, y>> \in R \/ <<y, x>> \in R

Before(x, R, S) == {y \in S : <<y, x>> \in R}

\* f lists S in the order of R.
Lists(f, R, S) ==
  /\ f \in [1 .. Cardinality(S) -> S]
  /\ \A x \in S : \E n \in DOMAIN f : f[n] = x
  /\ \A i, j \in DOMAIN f : i < j <=> <<f[i], f[j]>> \in R
  /\ \A i, j \in DOMAIN f : f[i] = f[j] => i = j

\* g goes through the n members of S in the order of R.
Along(g, n, R, S) ==
  /\ n \in Nat /\ g \in [1 .. n -> S]
  /\ \A x \in S : \E i \in 1 .. n : g[i] = x
  /\ \A i, j \in 1 .. n : i < j => <<g[i], g[j]>> \in R

\* A member with less before it comes before one with more.
LEMMA BeforeGrows ==
  ASSUME NEW S, NEW R, IsFiniteSet(S), Orders(R, S)
  PROVE  /\ \A x \in S : Cardinality(Before(x, R, S)) \in 0 .. Cardinality(S) - 1
         /\ \A x, y \in S : <<x, y>> \in R =>
              Cardinality(Before(x, R, S)) < Cardinality(Before(y, R, S))
  <1>0. Cardinality(S) \in Nat
        BY FS_CardinalityType
  <1>1. ASSUME NEW x \in S
        PROVE  /\ IsFiniteSet(Before(x, R, S)) /\ Cardinality(Before(x, R, S)) \in Nat
               /\ Cardinality(Before(x, R, S)) < Cardinality(S)
    <2>1. Before(x, R, S) \in SUBSET S /\ x \notin Before(x, R, S)
          BY DEF Orders, Before
    <2>2. IsFiniteSet(Before(x, R, S)) /\ Cardinality(Before(x, R, S)) \in Nat
          BY <2>1, FS_Subset, FS_CardinalityType
    <2> QED
        BY <1>0, <2>1, <2>2, FS_Subset
  <1>2. ASSUME NEW x \in S, NEW y \in S, <<x, y>> \in R
        PROVE  Cardinality(Before(x, R, S)) < Cardinality(Before(y, R, S))
    <2>1. /\ Before(x, R, S) \in SUBSET Before(y, R, S)
          /\ x \in Before(y, R, S) /\ x \notin Before(x, R, S)
          BY <1>2 DEF Orders, Before
    <2>2. /\ IsFiniteSet(Before(y, R, S)) /\ Cardinality(Before(y, R, S)) \in Nat
          /\ Cardinality(Before(x, R, S)) \in Nat
          BY <1>1
    <2>3. /\ Cardinality(Before(x, R, S)) <= Cardinality(Before(y, R, S))
          /\ Cardinality(Before(x, R, S)) # Cardinality(Before(y, R, S))
          BY <2>1, <2>2, FS_Subset
    <2> QED
        BY <2>2, <2>3
  <1> QED
      BY <1>0, <1>1, <1>2

\* Sorted lists a finite set in the order of R, every member once.
LEMMA SortedLists ==
  ASSUME NEW S, NEW R, IsFiniteSet(S), Orders(R, S)
  PROVE  Lists(Sorted(S, R), R, S) /\ Cardinality(S) \in Nat
  <1> DEFINE c == Cardinality(S)
             places == 1 .. c
             rank == [x \in S |-> Cardinality(Before(x, R, S)) + 1]
  <1>0. c \in Nat
        BY FS_CardinalityType
  <1>1. /\ \A x \in S : Cardinality(Before(x, R, S)) \in 0 .. c - 1
        /\ \A x, y \in S : <<x, y>> \in R =>
              Cardinality(Before(x, R, S)) < Cardinality(Before(y, R, S))
        BY BeforeGrows
  <1>2. /\ rank \in [S -> places]
        /\ \A x, y \in S : <<x, y>> \in R => rank[x] < rank[y]
    <2>1. \A x \in S : Cardinality(Before(x, R, S)) \in 0 .. c - 1
          BY <1>1
    <2>2. \A k \in 0 .. c - 1 : k \in Int /\ k + 1 \in places
          BY <1>0
    <2> HIDE DEF c, places
    <2>3. rank \in [S -> places]
          BY <2>1, <2>2
    <2>4. ASSUME NEW x \in S, NEW y \in S, <<x, y>> \in R PROVE rank[x] < rank[y]
      <3>1. /\ rank[x] = Cardinality(Before(x, R, S)) + 1
            /\ rank[y] = Cardinality(Before(y, R, S)) + 1
            OBVIOUS
      <3> QED
          BY <1>1, <2>1, <2>2, <2>4, <3>1
    <2> QED
        BY <2>3, <2>4
  <1>3. \A x, y \in S : rank[x] = rank[y] => x = y
    <2> HIDE DEF rank
    <2> SUFFICES ASSUME NEW x \in S, NEW y \in S, rank[x] = rank[y], x # y PROVE FALSE
        OBVIOUS
    <2>1. rank[x] \in Int /\ rank[y] \in Int
          BY <1>2, <1>0
    <2>2. <<x, y>> \in R \/ <<y, x>> \in R
          BY DEF Orders
    <2>3. rank[x] < rank[y] \/ rank[y] < rank[x]
          BY <1>2, <2>2
    <2> QED
        BY <2>1, <2>3
  <1>4. \A n \in places : \E x \in S : rank[x] = n
    <2>1. rank \in Injection(S, places)
          BY <1>2, <1>3 DEF Injection, IsInjective
    <2>2. IsFiniteSet(places) /\ Cardinality(places) = c
          BY <1>0, FS_Interval
    <2>3. rank \in Surjection(S, places)
          BY <2>1, <2>2, FS_Injection
    <2> QED
        BY <2>3 DEF Surjection
  <1>5. \A n \in places : Sorted(S, R)[n] \in S /\ rank[Sorted(S, R)[n]] = n
    <2> SUFFICES ASSUME NEW n \in places
                 PROVE  Sorted(S, R)[n] \in S /\ rank[Sorted(S, R)[n]] = n
        OBVIOUS
    <2>1. Sorted(S, R)[n] = CHOOSE x \in S : Cardinality(Before(x, R, S)) = n - 1
          BY DEF Sorted, Before
    <2>2. PICK x \in S : rank[x] = n
          BY <1>4
    <2>3. Cardinality(Before(x, R, S)) = n - 1
          BY <2>2, <1>1, <1>0
    <2>4. /\ Sorted(S, R)[n] \in S
          /\ Cardinality(Before(Sorted(S, R)[n], R, S)) = n - 1
          BY <2>1, <2>3
    <2> QED
        BY <2>4, <1>0
  <1>6. Sorted(S, R) \in [places -> S]
        BY <1>5 DEF Sorted
  <1> DEFINE f == Sorted(S, R)
  <1> HIDE DEF f, rank, places
  <1>7. \A x \in S : rank[x] \in places /\ f[rank[x]] = x
        BY <1>2, <1>3, <1>5 DEF f
  <1>8. f \in [places -> S] /\ \A n \in places : rank[f[n]] = n /\ f[n] \in S
        BY <1>5, <1>6 DEF f
  <1>9. \A i, j \in places : i < j <=> <<f[i], f[j]>> \in R
    <2> SUFFICES ASSUME NEW i \in places, NEW j \in places PROVE i < j <=> <<f[i], f[j]>> \in R
        OBVIOUS
    <2>1. i \in Int /\ j \in Int
          BY DEF places
    <2>2. <<f[i], f[j]>> \in R => i < j
          BY <1>2, <1>8
    <2>3. <<f[j], f[i]>> \in R => j < i
          BY <1>2, <1>8
    <2>4. f[i] = f[j] => i = j
          BY <1>8
    <2>5. f[i] = f[j] \/ <<f[i], f[j]>> \in R \/ <<f[j], f[i]>> \in R
          BY <1>8 DEF Orders
    <2> QED
        BY <2>1, <2>2, <2>3, <2>4, <2>5
  <1>10. Lists(f, R, S)
        BY <1>7, <1>8, <1>9 DEF Lists, places
  <1> QED
      BY <1>0, <1>10 DEF f

\* Whatever lists S in the order of R is the sorted one.
LEMMA SortedIs ==
  ASSUME NEW S, NEW R, NEW n, NEW g, Orders(R, S), Along(g, n, R, S)
  PROVE  IsFiniteSet(S) /\ Cardinality(S) = n /\ Sorted(S, R) = g
  <1>0. /\ n \in Nat /\ g \in [1 .. n -> S]
        /\ \A x \in S : \E i \in 1 .. n : g[i] = x
        /\ \A i, j \in 1 .. n : i < j => <<g[i], g[j]>> \in R
        BY DEF Along
  <1>1. \A i, j \in 1 .. n : g[i] = g[j] => i = j
    <2> SUFFICES ASSUME NEW i \in 1 .. n, NEW j \in 1 .. n, g[i] = g[j], i # j PROVE FALSE
        OBVIOUS
    <2>1. i < j \/ j < i
          BY <1>0
    <2> QED
        BY <1>0, <2>1 DEF Orders
  <1>2. g \in Bijection(1 .. n, S)
        BY <1>0, <1>1 DEF Bijection, Injection, Surjection, IsInjective
  <1>3. IsFiniteSet(S) /\ Cardinality(S) = n
    <2>1. ExistsBijection(1 .. n, S)
          BY <1>2 DEF ExistsBijection
    <2> QED
        BY <1>0, <2>1, FS_NatBijection, FS_CountingElements
  <1>4. /\ \A x \in S : Cardinality(Before(x, R, S)) \in 0 .. Cardinality(S) - 1
        /\ \A x, y \in S : <<x, y>> \in R =>
              Cardinality(Before(x, R, S)) < Cardinality(Before(y, R, S))
        BY <1>3, BeforeGrows
  <1>5. ASSUME NEW m \in 1 .. n PROVE Cardinality(Before(g[m], R, S)) = m - 1
    <2> DEFINE h == [i \in 1 .. m - 1 |-> g[i]]
    <2>1. \A i \in 1 .. m - 1 : i \in 1 .. n /\ i < m
          BY <1>0
    <2>2. \A i \in 1 .. n : <<g[i], g[m]>> \in R => i \in 1 .. m - 1
      <3> SUFFICES ASSUME NEW i \in 1 .. n, <<g[i], g[m]>> \in R, ~(i < m) PROVE FALSE
          OBVIOUS
      <3>1. i = m \/ m < i
            BY <1>0
      <3>2. <<g[m], g[i]>> \in R \/ g[m] = g[i]
            BY <1>0, <3>1
      <3> QED
          BY <1>0, <3>2 DEF Orders
    <2>3. h \in [1 .. m - 1 -> Before(g[m], R, S)]
          BY <1>0, <2>1 DEF Before
    <2>4. \A x \in Before(g[m], R, S) : \E i \in 1 .. m - 1 : h[i] = x
          BY <1>0, <2>2 DEF Before
    <2>5. \A i, j \in 1 .. m - 1 : h[i] = h[j] => i = j
          BY <1>1, <2>1
    <2>6. h \in Bijection(1 .. m - 1, Before(g[m], R, S))
          BY <2>3, <2>4, <2>5 DEF Bijection, Injection, Surjection, IsInjective
    <2>7. ExistsBijection(1 .. m - 1, Before(g[m], R, S)) /\ m - 1 \in Nat
          BY <1>0, <2>6 DEF ExistsBijection
    <2> QED
        BY <2>7, FS_CountingElements
  <1>6. ASSUME NEW m \in 1 .. n PROVE Sorted(S, R)[m] = g[m]
    <2>1. Sorted(S, R)[m] = CHOOSE x \in S : Cardinality(Before(x, R, S)) = m - 1
          BY <1>3 DEF Sorted, Before
    <2>2. \A x \in S : Cardinality(Before(x, R, S)) = m - 1 => x = g[m]
          BY <1>0, <1>4, <1>5 DEF Orders
    <2> QED
        BY <1>0, <2>1, <2>2, <1>5
  <1>7. /\ DOMAIN Sorted(S, R) = 1 .. Cardinality(S)
        /\ Sorted(S, R) = [m \in DOMAIN Sorted(S, R) |-> Sorted(S, R)[m]]
    <2> DEFINE at(m) == CHOOSE x \in S : Cardinality({y \in S : <<y, x>> \in R}) = m - 1
    <2>1. Sorted(S, R) = [m \in 1 .. Cardinality(S) |-> at(m)]
          BY DEF Sorted
    <2> HIDE DEF at
    <2> QED
        BY <2>1
  <1> QED
      BY <1>0, <1>3, <1>6, <1>7

\* Numbers are in their order.
LEMMA RisingOrders ==
  ASSUME NEW I \in SUBSET Int
  PROVE  Orders(Rising(I), I)
  BY DEF Orders, Rising

\* Places in their order
Places(I) == Sorted(I, Rising(I))

\* What is picked is at the places, in their order.
LEMMA Picked ==
  ASSUME NEW s, NEW I \in SUBSET Int, IsFiniteSet(I)
  PROVE  LET f == Places(I) IN
         /\ Cardinality(I) \in Nat
         /\ f \in [1 .. Cardinality(I) -> I]
         /\ \A i \in I : \E n \in 1 .. Cardinality(I) : f[n] = i
         /\ \A m, n \in 1 .. Cardinality(I) : m < n <=> f[m] < f[n]
         /\ \A m, n \in 1 .. Cardinality(I) : f[m] = f[n] => m = n
         /\ Pick(s, I) = [n \in 1 .. Cardinality(I) |-> s[f[n]]]
  <1> DEFINE f == Places(I)
  <1>1. Lists(f, Rising(I), I) /\ Cardinality(I) \in Nat
        BY RisingOrders, SortedLists DEF Places
  <1>2. Pick(s, I) = [n \in DOMAIN f |-> s[f[n]]]
        BY DEF Pick, Places
  <1> HIDE DEF f
  <1>3. f \in [1 .. Cardinality(I) -> I] /\ DOMAIN f = 1 .. Cardinality(I)
        BY <1>1 DEF Lists
  <1>4. \A m, n \in 1 .. Cardinality(I) : m < n <=> f[m] < f[n]
    <2> TAKE m, n \in 1 .. Cardinality(I)
    <2>1. m < n <=> <<f[m], f[n]>> \in Rising(I)
          BY <1>1, <1>3 DEF Lists
    <2>2. f[m] \in I /\ f[n] \in I
          BY <1>3
    <2> QED
        BY <2>1, <2>2 DEF Rising
  <1>5. /\ \A i \in I : \E n \in 1 .. Cardinality(I) : f[n] = i
        /\ \A m, n \in 1 .. Cardinality(I) : f[m] = f[n] => m = n
        BY <1>1, <1>3 DEF Lists
  <1>6. /\ Cardinality(I) \in Nat
        /\ Pick(s, I) = [n \in 1 .. Cardinality(I) |-> s[f[n]]]
        BY <1>1, <1>2, <1>3
  <1> QED
      BY <1>3, <1>4, <1>5, <1>6 DEF f

\* Whatever goes through the places in their order picks the same.
LEMMA PickIs ==
  ASSUME NEW s, NEW I \in SUBSET Int, NEW n, NEW g, Along(g, n, Rising(I), I)
  PROVE  IsFiniteSet(I) /\ Cardinality(I) = n /\ Pick(s, I) = [m \in 1 .. n |-> s[g[m]]]
  <1>1. Orders(Rising(I), I)
        BY RisingOrders
  <1>2. IsFiniteSet(I) /\ Cardinality(I) = n /\ Sorted(I, Rising(I)) = g
        BY <1>1, SortedIs
  <1>3. DOMAIN g = 1 .. n
        BY DEF Along
  <1> QED
      BY <1>2, <1>3 DEF Pick

\* A function on the first numbers is a sequence, and a sequence is such a function.
LEMMA SeqIs ==
  ASSUME NEW S
  PROVE  /\ \A n \in Nat : \A s \in [1 .. n -> S] : s \in Seq(S) /\ Len(s) = n /\ DOMAIN s = 1 .. n
         /\ \A s \in Seq(S) : Len(s) \in Nat /\ DOMAIN s = 1 .. Len(s) /\ s \in [1 .. Len(s) -> S]
  OBVIOUS

\* Picked from a sequence, place by place
LEMMA PickOf ==
  ASSUME NEW S, NEW s \in Seq(S), NEW I \in SUBSET (DOMAIN s)
  PROVE  LET f == Places(I) IN
         /\ IsFiniteSet(I) /\ Cardinality(I) \in Nat /\ I \in SUBSET Int
         /\ Pick(s, I) \in Seq(S) /\ Len(Pick(s, I)) = Cardinality(I)
         /\ DOMAIN Pick(s, I) = 1 .. Cardinality(I)
         /\ f \in [1 .. Cardinality(I) -> I]
         /\ \A i \in I : \E n \in 1 .. Cardinality(I) : f[n] = i
         /\ \A m, n \in 1 .. Cardinality(I) : m < n <=> f[m] < f[n]
         /\ \A m, n \in 1 .. Cardinality(I) : f[m] = f[n] => m = n
         /\ \A n \in 1 .. Cardinality(I) : Pick(s, I)[n] = s[f[n]]
  <1> DEFINE f == Places(I)
             c == Cardinality(I)
  <1>1. Len(s) \in Nat /\ DOMAIN s = 1 .. Len(s) /\ s \in [1 .. Len(s) -> S]
        BY SeqIs
  <1>2. I \in SUBSET Int /\ IsFiniteSet(I)
    <2>1. IsFiniteSet(1 .. Len(s))
          BY <1>1, FS_Interval
    <2> QED
        BY <1>1, <2>1, FS_Subset
  <1>3. /\ c \in Nat
        /\ f \in [1 .. c -> I]
        /\ \A i \in I : \E n \in 1 .. c : f[n] = i
        /\ \A m, n \in 1 .. c : m < n <=> f[m] < f[n]
        /\ \A m, n \in 1 .. c : f[m] = f[n] => m = n
        /\ Pick(s, I) = [n \in 1 .. c |-> s[f[n]]]
    <2>1. c \in Nat /\ f \in [1 .. c -> I]
          BY <1>2, Picked
    <2>1a. Pick(s, I) = [n \in 1 .. c |-> s[f[n]]]
      <3>1. DOMAIN f = 1 .. c
            BY <2>1
      <3>2. Pick(s, I) = [n \in DOMAIN f |-> s[f[n]]]
            BY DEF Pick, Places
      <3> QED
          BY <3>1, <3>2
    <2>2. \A i \in I : \E n \in 1 .. c : f[n] = i
          BY <1>2, Picked
    <2>3. \A m, n \in 1 .. c : m < n <=> f[m] < f[n]
          BY <1>2, Picked
    <2>4. \A m, n \in 1 .. c : f[m] = f[n] => m = n
          BY <1>2, Picked
    <2> QED
        BY <2>1, <2>1a, <2>2, <2>3, <2>4
  <1> HIDE DEF f, c
  <1>4. Pick(s, I) \in [1 .. c -> S]
        BY <1>1, <1>3
  <1>5. Pick(s, I) \in Seq(S) /\ Len(Pick(s, I)) = c /\ DOMAIN Pick(s, I) = 1 .. c
        BY <1>3, <1>4, SeqIs
  <1>6. \A n \in 1 .. c : Pick(s, I)[n] = s[f[n]]
        BY <1>3
  <1> QED
      BY <1>2, <1>3, <1>5, <1>6 DEF f, c

\* Who picks every place has the sequence.
LEMMA PickAll ==
  ASSUME NEW S, NEW s \in Seq(S)
  PROVE  Pick(s, DOMAIN s) = s
  <1> DEFINE n == Len(s)
             g == [m \in 1 .. n |-> m]
  <1>1. n \in Nat /\ DOMAIN s = 1 .. n /\ s = [m \in 1 .. n |-> s[m]]
        BY SeqIs
  <1>2. g \in [1 .. n -> DOMAIN s] /\ DOMAIN s \in SUBSET Int
        BY <1>1
  <1>3. /\ \A i \in DOMAIN s : \E m \in 1 .. n : g[m] = i
        /\ \A l, m \in 1 .. n : l < m => g[l] < g[m]
        BY <1>1
  <1>4. \A m \in 1 .. n : g[m] = m
        OBVIOUS
  <1> HIDE DEF n, g
  <1>5. Pick(s, DOMAIN s) = [m \in 1 .. n |-> s[g[m]]]
    <2>1. Along(g, n, Rising(DOMAIN s), DOMAIN s)
          BY <1>1, <1>2, <1>3 DEF Along, Rising
    <2> QED
        BY <1>2, <2>1, PickIs
  <1>6. [m \in 1 .. n |-> s[g[m]]] = [m \in 1 .. n |-> s[m]]
        BY <1>4
  <1> QED
      BY <1>1, <1>5, <1>6

\* The places of a sequence with a member of B
Where(s, B) == {i \in DOMAIN s : s[i] \in B}

\* Who picks twice picks once what both would pick.
LEMMA PickTwice ==
  ASSUME NEW S, NEW s \in Seq(S), NEW I \in SUBSET (DOMAIN s), NEW B
  PROVE  Pick(Pick(s, I), Where(Pick(s, I), B)) = Pick(s, I \cap Where(s, B))
  <1> DEFINE p == Pick(s, I)
             K == Where(p, B)
             J == I \cap Where(s, B)
             f == Places(I)
             h == Places(K)
             c == Cardinality(I)
             d == Cardinality(K)
             g == [m \in 1 .. d |-> f[h[m]]]
  <1>1. /\ c \in Nat /\ I \in SUBSET Int /\ p \in Seq(S) /\ DOMAIN p = 1 .. c
        /\ f \in [1 .. c -> I]
        /\ \A i \in I : \E n \in 1 .. c : f[n] = i
        /\ \A m, n \in 1 .. c : m < n <=> f[m] < f[n]
        /\ \A n \in 1 .. c : p[n] = s[f[n]]
        BY PickOf
  <1>2. /\ K = {k \in DOMAIN p : p[k] \in B} /\ K \in SUBSET (DOMAIN p)
        /\ J = {i \in I : s[i] \in B}
        BY DEF Where
  <1> HIDE DEF p
  <1> HIDE DEF K, J
  <1>3. /\ d \in Nat /\ DOMAIN Pick(p, K) = 1 .. d /\ Pick(p, K) \in Seq(S)
        /\ h \in [1 .. d -> K]
        /\ \A i \in K : \E n \in 1 .. d : h[n] = i
        /\ \A m, n \in 1 .. d : m < n <=> h[m] < h[n]
        /\ \A n \in 1 .. d : Pick(p, K)[n] = p[h[n]]
    <2>1. p \in Seq(S)
          BY <1>1
    <2>2. K \in SUBSET (DOMAIN p)
          BY <1>2
    <2> QED
        BY <2>1, <2>2, PickOf
  <1> HIDE DEF f, h, c, d
  <1>4. \A m \in 1 .. d : h[m] \in 1 .. c /\ h[m] \in K
        BY <1>1, <1>2, <1>3
  <1>5. \A m \in 1 .. d : g[m] = f[h[m]] /\ g[m] \in J
        BY <1>1, <1>2, <1>4
  <1>6. \A i \in J : \E m \in 1 .. d : g[m] = i
    <2> TAKE i \in J
    <2>1. PICK n \in 1 .. c : f[n] = i
          BY <1>1, <1>2
    <2>2. n \in K
          BY <1>1, <1>2, <2>1
    <2>3. PICK m \in 1 .. d : h[m] = n
          BY <1>3, <2>2
    <2> QED
        BY <1>5, <2>1, <2>3
  <1>7. \A l, m \in 1 .. d : l < m => g[l] < g[m]
        BY <1>1, <1>3, <1>4, <1>5
  <1>8. g \in [1 .. d -> J] /\ J \in SUBSET Int
        BY <1>1, <1>2, <1>5
  <1> HIDE DEF g, J
  <1>9. Pick(s, J) = [m \in 1 .. d |-> s[g[m]]]
    <2>1. Along(g, d, Rising(J), J)
          BY <1>3, <1>6, <1>7, <1>8 DEF Along, Rising
    <2> QED
        BY <1>8, <2>1, PickIs
  <1>10. Pick(p, K) = [m \in 1 .. d |-> Pick(p, K)[m]]
        BY <1>3, SeqIs
  <1>11. \A m \in 1 .. d : Pick(p, K)[m] = s[g[m]]
        BY <1>1, <1>3, <1>4, <1>5
  <1>12. Pick(p, K) = Pick(s, J)
        BY <1>9, <1>10, <1>11
  <1> QED
      BY <1>12 DEF p, K, J

\* What TakeWhile keeps of a sequence: all before the first that does not pass.
LEMMA Cut ==
  ASSUME NEW S, NEW s \in Seq(S), NEW stops \in SUBSET (DOMAIN s)
  PROVE  \E p \in 0 .. Len(s) :
           /\ (IF stops = {} THEN s ELSE SubSeq(s, 1, Min(stops) - 1)) = [i \in 1 .. p |-> s[i]]
           /\ \A i \in 1 .. p : i \notin stops
           /\ p < Len(s) => p + 1 \in stops
  <1> DEFINE kept == IF stops = {} THEN s ELSE SubSeq(s, 1, Min(stops) - 1)
  <1>1. Len(s) \in Nat /\ DOMAIN s = 1 .. Len(s) /\ s = [i \in 1 .. Len(s) |-> s[i]]
        BY SeqIs
  <1>2. CASE stops = {}
    <2>1. kept = [i \in 1 .. Len(s) |-> s[i]]
          BY <1>1, <1>2
    <2> QED
        BY <1>1, <1>2, <2>1
  <1>3. CASE stops # {}
    <2>1. PICK j \in stops : \A i \in stops : j <= i
          BY <1>1, <1>3, LeastIs
    <2>2. Min(stops) \in stops /\ \A i \in stops : Min(stops) <= i
          BY <2>1 DEF Min
    <2> DEFINE m == Min(stops)
    <2> HIDE DEF m
    <2>3. m \in 1 .. Len(s) /\ m \in stops /\ \A i \in stops : m <= i
          BY <1>1, <2>2 DEF m
    <2>4. SubSeq(s, 1, m - 1) = [i \in 1 .. m - 1 |-> s[i]]
          BY <1>1, <2>3
    <2>5. kept = [i \in 1 .. m - 1 |-> s[i]]
          BY <1>3, <2>4 DEF m
    <2>6. m - 1 \in 0 .. Len(s) /\ (\A i \in 1 .. m - 1 : i \notin stops) /\ (m - 1) + 1 \in stops
          BY <1>1, <2>3
    <2> QED
        BY <2>5, <2>6
  <1> QED
      BY <1>2, <1>3

-----------------------------------------------------------------------------
(* The look-ups *)

\* Records of the log have their types.
LEMMA LogIs ==
  ASSUME ViewsIInv
  PROVE  /\ log \in Seq(Records) /\ Len(log) \in Nat /\ DOMAIN log = 1 .. Len(log)
         /\ \A i \in DOMAIN log : log[i] \in Records
         /\ \A x \in Records : x.repo \in RepoIds /\ x.repo \in Int /\ x.at \in Nat /\ x.ok \in BOOLEAN
         /\ IsFiniteSet(DOMAIN log)
  <1>1. log \in Seq(Records)
        BY DEF ViewsIInv, ViewsTyped
  <1>2. \A x \in Records : x.repo \in RepoIds /\ x.repo \in Int /\ x.at \in Nat /\ x.ok \in BOOLEAN
        BY DEF Records, RepoIds
  <1>3. Len(log) \in Nat /\ DOMAIN log = 1 .. Len(log) /\ \A i \in DOMAIN log : log[i] \in Records
        BY <1>1, SeqIs
  <1>4. IsFiniteSet(DOMAIN log)
        BY <1>3, FS_Interval
  <1> QED
      BY <1>1, <1>2, <1>3, <1>4

\* A repo's records are at their places.
LEMMA OfRepoIs ==
  ASSUME NEW s, NEW r
  PROVE  OfRepo(s, r) = Pick(s, {i \in DOMAIN s : s[i].repo = r})
  BY DEF OfRepo, Select

\* The keys up to a repo's range, from the last to the first
LEMMA KeysOrdered ==
  ASSUME ViewsIInv, hasIndex, NEW r \in RepoIds
  PROVE  /\ UpTo(r) = {<<log[i].repo, i>> : i \in {j \in DOMAIN log : log[j].repo <= r}}
         /\ IsFiniteSet(UpTo(r)) /\ Orders(ByKey(UpTo(r)), UpTo(r))
  <1>1. byRepo = {<<log[i].repo, i>> : i \in DOMAIN log}
        BY DEF ViewsIInv, IndexIsExact
  <1>2. UpTo(r) = {<<log[i].repo, i>> : i \in {j \in DOMAIN log : log[j].repo <= r}}
        BY <1>1 DEF UpTo
  <1>3. IsFiniteSet(UpTo(r))
    <2>1. IsFiniteSet(RepoIds) /\ IsFiniteSet(DOMAIN log)
          BY LogIs, FS_Interval, ViewsAssumption DEF RepoIds
    <2>2. IsFiniteSet(RepoIds \X DOMAIN log)
          BY <2>1, FS_Product
    <2>3. UpTo(r) \in SUBSET (RepoIds \X DOMAIN log)
          BY <1>2, LogIs
    <2> QED
        BY <2>2, <2>3, FS_Subset
  <1>4. \A k \in UpTo(r) : k = <<k[1], k[2]>> /\ k[1] \in Int /\ k[2] \in Int
        BY <1>2, LogIs
  <1>5. Orders(ByKey(UpTo(r)), UpTo(r))
    <2> DEFINE K == UpTo(r)
    <2> HIDE DEF K
    <2>1. \A k, l \in K : <<k, l>> \in ByKey(K) <=>
            k[1] > l[1] \/ (k[1] = l[1] /\ k[2] > l[2])
          BY DEF ByKey
    <2>2. \A k \in K : k = <<k[1], k[2]>> /\ k[1] \in Int /\ k[2] \in Int
          BY <1>4 DEF K
    <2>3. \A k \in K : <<k, k>> \notin ByKey(K)
          BY <2>1, <2>2
    <2>4. \A k, l, m \in K : <<k, l>> \in ByKey(K) /\ <<l, m>> \in ByKey(K) => <<k, m>> \in ByKey(K)
          BY <2>1, <2>2
    <2>5. ASSUME NEW k \in K, NEW l \in K
          PROVE  k = l \/ <<k, l>> \in ByKey(K) \/ <<l, k>> \in ByKey(K)
      <3>1. k[1] = l[1] /\ k[2] = l[2] => k = l
            BY <2>2
      <3> QED
          BY <2>1, <2>2, <3>1
    <2> QED
        BY <2>3, <2>4, <2>5 DEF Orders, K
  <1> QED
      BY <1>2, <1>3, <1>5

\* The cursor passes the records of the repo, all of them, from the last to the first.
LEMMA BackIs ==
  ASSUME ViewsIInv, hasIndex, NEW r \in RepoIds
  PROVE  Back(r) = Reverse(OfRepo(log, r))
  <1> DEFINE K == UpTo(r)
             R == ByKey(K)
             c == Cardinality(K)
             ks == Sorted(K, R)
             stops == {i \in DOMAIN ks : ~(ks[i][1] = r)}
             J == {i \in DOMAIN log : log[i].repo = r}
  <1>1. /\ K = {<<log[i].repo, i>> : i \in {j \in DOMAIN log : log[j].repo <= r}}
        /\ IsFiniteSet(K) /\ Orders(R, K)
        BY KeysOrdered
  <1>2. \A k, l \in K : <<k, l>> \in R => k[1] > l[1] \/ (k[1] = l[1] /\ k[2] > l[2])
        BY DEF ByKey
  <1>3. Lists(ks, R, K) /\ c \in Nat
        BY <1>1, SortedLists
  <1> DEFINE kept == IF stops = {} THEN ks ELSE SubSeq(ks, 1, Min(stops) - 1)
  <1>4. Back(r) = [i \in DOMAIN kept |-> log[kept[i][2]]]
        BY DEF Back, TakeWhile
  <1> HIDE DEF ks, K, R, c
  <1>5. /\ ks \in [1 .. c -> K] /\ \A k \in K : \E n \in 1 .. c : ks[n] = k
        /\ \A i, j \in 1 .. c : i < j => <<ks[i], ks[j]>> \in R
        BY <1>3 DEF Lists, c
  <1>6. ks \in Seq(K) /\ Len(ks) = c /\ DOMAIN ks = 1 .. c
        BY <1>3, <1>5, SeqIs
  <1>7. PICK p \in 0 .. c : /\ kept = [i \in 1 .. p |-> ks[i]]
                            /\ \A i \in 1 .. p : i \notin stops
                            /\ p < c => p + 1 \in stops
    <2>1. stops \in SUBSET (DOMAIN ks)
          OBVIOUS
    <2> HIDE DEF stops
    <2> QED
        BY <1>6, <2>1, Cut
  <1> HIDE DEF kept
  <1>8. Back(r) = [i \in 1 .. p |-> log[ks[i][2]]]
        BY <1>4, <1>7
  <1>9. r \in Int /\ \A k \in K : k[1] \in Int /\ k[2] \in Int /\ k[2] \in DOMAIN log
                                  /\ k[1] = log[k[2]].repo /\ k[1] <= r
        BY <1>1, LogIs DEF RepoIds
  <1>10. p \in Nat /\ \A i \in 1 .. p : i \in 1 .. c /\ ks[i] \in K /\ ks[i][1] = r /\ ks[i][2] \in J
        BY <1>3, <1>5, <1>6, <1>7, <1>9
  <1> DEFINE g == [n \in 1 .. p |-> ks[p + 1 - n][2]]
  <1>11. \A n \in 1 .. p : p + 1 - n \in 1 .. p
        BY <1>10
  <1>12. \A n \in 1 .. p : g[n] = ks[p + 1 - n][2] /\ g[n] \in J
        BY <1>10, <1>11
  <1>13. \A i \in J : \E n \in 1 .. p : g[n] = i
    <2> TAKE i \in J
    <2>1. <<r, i>> \in K
          BY <1>1, <1>9
    <2>2. PICK n \in 1 .. c : ks[n] = <<r, i>>
          BY <1>5, <2>1
    <2>3. n <= p
      <3> SUFFICES ASSUME n > p PROVE FALSE
          BY <1>10
      <3>1. p + 1 \in stops /\ p + 1 \in 1 .. c /\ p + 1 <= n
            BY <1>3, <1>7, <1>10
      <3>2. ks[p + 1] \in K /\ ks[p + 1][1] # r /\ ks[p + 1][1] < r
            BY <1>5, <1>9, <3>1
      <3>3. p + 1 < n
            BY <2>2, <3>1, <3>2
      <3>4. <<ks[p + 1], ks[n]>> \in R
            BY <1>5, <3>1, <3>3
      <3>5. ks[p + 1][1] >= ks[n][1]
            BY <1>2, <1>5, <1>9, <3>1, <3>4
      <3> QED
          BY <1>9, <2>2, <3>2, <3>5
    <2>4. p + 1 - n \in 1 .. p /\ p + 1 - (p + 1 - n) = n
          BY <1>10, <2>3
    <2>5. g[p + 1 - n] = i
          BY <1>12, <2>2, <2>4
    <2> QED
        BY <2>4, <2>5
  <1>14. \A l, m \in 1 .. p : l < m => g[l] < g[m]
    <2> SUFFICES ASSUME NEW l \in 1 .. p, NEW m \in 1 .. p, l < m PROVE g[l] < g[m]
        OBVIOUS
    <2>1. p + 1 - m \in 1 .. p /\ p + 1 - l \in 1 .. p /\ p + 1 - m < p + 1 - l
          BY <1>10
    <2>2. <<ks[p + 1 - m], ks[p + 1 - l]>> \in R
          BY <1>5, <1>10, <2>1
    <2>3. ks[p + 1 - m][2] > ks[p + 1 - l][2]
          BY <1>2, <1>9, <1>10, <2>1, <2>2
    <2> QED
        BY <1>9, <1>10, <1>12, <2>1, <2>3
  <1>15. J \in SUBSET Int
        BY LogIs
  <1> DEFINE mine == OfRepo(log, r)
  <1> HIDE DEF g
  <1>16. mine = [n \in 1 .. p |-> log[g[n]]]
    <2>1. g \in [1 .. p -> J]
          BY <1>12 DEF g
    <2>2. Along(g, p, Rising(J), J)
      <3> HIDE DEF J
      <3> QED
          BY <1>10, <1>13, <1>14, <1>15, <2>1 DEF Along, Rising
    <2>3. Pick(log, J) = [n \in 1 .. p |-> log[g[n]]]
      <3> HIDE DEF J
      <3> QED
          BY <1>15, <2>2, PickIs
    <2> QED
        BY <2>3, OfRepoIs
  <1>17. mine \in [1 .. p -> Records]
        BY <1>12, <1>16, LogIs
  <1> HIDE DEF mine
  <1>18. Len(mine) = p
        BY <1>10, <1>17, SeqIs
  <1>19. \A i \in 1 .. p : mine[(p - i) + 1] = log[ks[i][2]]
    <2> TAKE i \in 1 .. p
    <2>1. (p - i) + 1 \in 1 .. p /\ p + 1 - ((p - i) + 1) = i
          BY <1>10
    <2> QED
        BY <1>12, <1>16, <2>1
  <1>20. Back(r) = Reverse(mine)
        BY <1>8, <1>18, <1>19 DEF Reverse
  <1> QED
      BY <1>20 DEF mine

\* A repo's records, in the log's order
LEMMA MineIs ==
  ASSUME ViewsIInv, NEW r \in RepoIds
  PROVE  /\ OfRepo(log, r) \in Seq(Records)
         /\ Len(OfRepo(log, r)) \in Nat /\ DOMAIN OfRepo(log, r) = 1 .. Len(OfRepo(log, r))
         /\ \A i \in DOMAIN OfRepo(log, r) :
              OfRepo(log, r)[i] \in Records /\ OfRepo(log, r)[i].at \in Nat
  <1>1. OfRepo(log, r) \in Seq(Records)
    <2>1. {i \in DOMAIN log : log[i].repo = r} \in SUBSET (DOMAIN log)
          OBVIOUS
    <2> QED
        BY <2>1, LogIs, PickOf, OfRepoIs
  <1> QED
      BY <1>1, LogIs, SeqIs

\* Since stops at the first that is too old, from the back; a scan passes them all.
LEMMA SinceIs ==
  ASSUME ViewsIInv, NEW r \in RepoIds, NEW t \in Int
  PROVE  LET mine == OfRepo(log, r)
             len == Len(mine)
         IN
         /\ hasIndex => \E p \in 0 .. len :
              /\ Since(r, t) = [n \in 1 .. p |-> mine[len - p + n]]
              /\ \A n \in 1 .. p : mine[len - p + n].at >= t
              /\ p < len => mine[len - p].at < t
         /\ ~hasIndex => Since(r, t) = Pick(mine, {i \in DOMAIN mine : mine[i].at >= t})
  <1> DEFINE mine == OfRepo(log, r)
             len == Len(mine)
  <1>1. /\ mine \in Seq(Records) /\ len \in Nat /\ DOMAIN mine = 1 .. len
        /\ \A i \in 1 .. len : mine[i] \in Records /\ mine[i].at \in Nat
        BY MineIs
  <1>2. CASE ~hasIndex
    <2> DEFINE I == {i \in DOMAIN log : log[i].repo = r}
               B == {x \in Records : x.at >= t}
    <2>1. Since(r, t) = Pick(log, {i \in DOMAIN log : log[i].repo = r /\ log[i].at >= t})
          BY <1>2 DEF Since, Select
    <2>2. /\ {i \in DOMAIN log : log[i].repo = r /\ log[i].at >= t} = I \cap Where(log, B)
          /\ {i \in DOMAIN mine : mine[i].at >= t} = Where(mine, B)
          BY <1>1, LogIs DEF Where
    <2>3. mine = Pick(log, I) /\ I \in SUBSET (DOMAIN log)
          BY OfRepoIs
    <2> HIDE DEF I, B, mine
    <2>4. Pick(mine, Where(mine, B)) = Pick(log, I \cap Where(log, B))
          BY <2>3, LogIs, PickTwice
    <2>5. Since(r, t) = Pick(mine, {i \in DOMAIN mine : mine[i].at >= t})
          BY <2>1, <2>2, <2>4
    <2> QED
        BY <1>2, <2>5 DEF mine
  <1>3. CASE hasIndex
    <2> DEFINE back == Back(r)
               stops == {i \in DOMAIN back : ~(back[i].at >= t)}
               kept == IF stops = {} THEN back ELSE SubSeq(back, 1, Min(stops) - 1)
    <2>1. Since(r, t) = Reverse(kept)
          BY <1>3 DEF Since, TakeWhile
    <2>2. back = Reverse(mine)
          BY <1>3, BackIs
    <2> HIDE DEF back, mine
    <2>3. /\ back = [i \in 1 .. len |-> mine[(len - i) + 1]]
          /\ \A i \in 1 .. len : (len - i) + 1 \in 1 .. len
          BY <1>1, <2>2 DEF Reverse
    <2>4. back \in [1 .. len -> Records]
          BY <1>1, <2>3
    <2>5. back \in Seq(Records) /\ Len(back) = len /\ DOMAIN back = 1 .. len
          BY <1>1, <2>4, SeqIs
    <2>6. PICK p \in 0 .. len : /\ kept = [i \in 1 .. p |-> back[i]]
                                /\ \A i \in 1 .. p : i \notin stops
                                /\ p < len => p + 1 \in stops
      <3>1. stops \in SUBSET (DOMAIN back)
            OBVIOUS
      <3> HIDE DEF stops
      <3> QED
          BY <2>5, <3>1, Cut
    <2> HIDE DEF kept
    <2>7. p \in Nat /\ kept \in [1 .. p -> Records]
          BY <1>1, <2>4, <2>6
    <2>8. Len(kept) = p
          BY <2>7, SeqIs
    <2>9. \A n \in 1 .. p : /\ p - n + 1 \in 1 .. p /\ p - n + 1 \in 1 .. len
                            /\ kept[p - n + 1] = mine[len - p + n]
      <3> SUFFICES ASSUME NEW n \in 1 .. p
                   PROVE  /\ p - n + 1 \in 1 .. p /\ p - n + 1 \in 1 .. len
                          /\ kept[p - n + 1] = mine[len - p + n]
          OBVIOUS
      <3>1. /\ p - n + 1 \in 1 .. p /\ p - n + 1 \in 1 .. len
            /\ (len - (p - n + 1)) + 1 = len - p + n
            BY <1>1, <2>7
      <3>2. kept[p - n + 1] = back[p - n + 1]
            BY <2>6, <3>1
      <3> QED
          BY <2>3, <3>1, <3>2
    <2>10. Since(r, t) = [n \in 1 .. p |-> mine[len - p + n]]
           BY <2>1, <2>8, <2>9 DEF Reverse
    <2>11. \A n \in 1 .. p : mine[len - p + n].at >= t
      <3> TAKE n \in 1 .. p
      <3>1. p - n + 1 \notin stops /\ back[p - n + 1] = kept[p - n + 1]
            BY <2>6, <2>9
      <3> QED
          BY <2>5, <2>9, <3>1
    <2>12. p < len => mine[len - p].at < t
      <3> SUFFICES ASSUME p < len PROVE mine[len - p].at < t
          OBVIOUS
      <3>1. p + 1 \in stops /\ p + 1 \in 1 .. len /\ (len - (p + 1)) + 1 = len - p
            BY <1>1, <2>6, <2>7
      <3>2. back[p + 1] = mine[len - p] /\ len - p \in 1 .. len
            BY <1>1, <2>3, <2>7, <3>1
      <3> QED
          BY <1>1, <3>1, <3>2
    <2> QED
        BY <1>3, <2>10, <2>11, <2>12 DEF mine
  <1> QED
      BY <1>2, <1>3

\* What is missing is at the front, and only records that are out of order are.
LEMMA SinceAgrees ==
  ASSUME ViewsIInv, NEW r \in RepoIds, NEW t \in Int
  PROVE  /\ IsSuffix(Since(r, t), OfRepo(log, r)) \/ ~hasIndex
         /\ InStep(OfRepo(log, r)) => Since(r, t) = Select(OfRepo(log, r), LAMBDA x : x.at >= t)
  <1> DEFINE mine == OfRepo(log, r)
             len == Len(mine)
             I == {i \in DOMAIN mine : mine[i].at >= t}
             since == Since(r, t)
  <1>1. /\ mine \in Seq(Records) /\ len \in Nat /\ DOMAIN mine = 1 .. len
        /\ mine \in [1 .. len -> Records]
        /\ \A i \in 1 .. len : mine[i].at \in Nat
        BY MineIs, SeqIs
  <1>2. Select(mine, LAMBDA x : x.at >= t) = Pick(mine, I)
        BY DEF Select
  <1>3. /\ hasIndex => \E p \in 0 .. len :
             /\ since = [n \in 1 .. p |-> mine[len - p + n]]
             /\ \A n \in 1 .. p : mine[len - p + n].at >= t
             /\ p < len => mine[len - p].at < t
        /\ ~hasIndex => since = Pick(mine, I)
        BY SinceIs
  <1> HIDE DEF mine, since
  <1>4. CASE ~hasIndex
        BY <1>2, <1>3, <1>4 DEF mine, since
  <1>5. CASE hasIndex
    <2>1. PICK p \in 0 .. len : /\ since = [n \in 1 .. p |-> mine[len - p + n]]
                                /\ \A n \in 1 .. p : mine[len - p + n].at >= t
                                /\ p < len => mine[len - p].at < t
          BY <1>3, <1>5
    <2>2. p \in Nat /\ p <= len /\ \A n \in 1 .. p : len - p + n \in 1 .. len
          BY <1>1, <2>1
    <2>3. since \in [1 .. p -> Records]
          BY <1>1, <2>1, <2>2
    <2>4. Len(since) = p
          BY <2>2, <2>3, SeqIs
    <2>5. IsSuffix(since, mine)
      <3>1. Reverse(since) = [i \in 1 .. p |-> mine[(len - i) + 1]]
        <4>1. \A i \in 1 .. p : (p - i) + 1 \in 1 .. p /\ len - p + ((p - i) + 1) = (len - i) + 1
              BY <1>1, <2>2
        <4>2. \A i \in 1 .. p : since[(p - i) + 1] = mine[(len - i) + 1]
              BY <2>1, <4>1
        <4> QED
            BY <2>4, <4>2 DEF Reverse
      <3>2. Reverse(mine) = [i \in 1 .. len |-> mine[(len - i) + 1]]
            BY DEF Reverse
      <3>3. /\ \A i \in 1 .. len : (len - i) + 1 \in 1 .. len
            /\ \A i \in 1 .. p : i \in 1 .. len
            BY <1>1, <2>2
      <3>4. Reverse(since) \in [1 .. p -> Records] /\ Reverse(mine) \in [1 .. len -> Records]
            BY <1>1, <3>1, <3>2, <3>3
      <3>5. /\ Len(Reverse(since)) = p /\ Reverse(since) \in Seq(Records)
            /\ Len(Reverse(mine)) = len /\ Reverse(mine) \in Seq(Records)
            BY <1>1, <2>2, <3>4, SeqIs
      <3>6. /\ SubSeq(Reverse(since), 1, p) = [i \in 1 .. p |-> mine[(len - i) + 1]]
            /\ SubSeq(Reverse(mine), 1, p) = [i \in 1 .. p |-> mine[(len - i) + 1]]
        <4>1. ASSUME NEW s \in Seq(Records), p <= Len(s)
              PROVE  SubSeq(s, 1, p) = [i \in 1 .. p |-> s[i]]
              BY <2>2, <4>1
        <4>2. /\ SubSeq(Reverse(since), 1, p) = [i \in 1 .. p |-> Reverse(since)[i]]
              /\ SubSeq(Reverse(mine), 1, p) = [i \in 1 .. p |-> Reverse(mine)[i]]
              BY <2>2, <3>5, <4>1
        <4> QED
            BY <3>1, <3>2, <3>3, <4>2
      <3> QED
          BY <2>2, <3>5, <3>6 DEF IsSuffix, IsPrefix
    <2>6. InStep(mine) => since = Pick(mine, I)
      <3> SUFFICES ASSUME InStep(mine) PROVE since = Pick(mine, I)
          OBVIOUS
      <3> DEFINE g == [n \in 1 .. p |-> len - p + n]
      <3>1. \A n \in 1 .. p : g[n] = len - p + n /\ g[n] \in I
            BY <1>1, <2>1, <2>2
      <3>2. \A i \in I : \E n \in 1 .. p : g[n] = i
        <4> TAKE i \in I
        <4>1. i \in 1 .. len /\ mine[i].at >= t
              BY <1>1
        <4>2. i > len - p
          <5> SUFFICES ASSUME i <= len - p PROVE FALSE
              BY <1>1, <2>2, <4>1
          <5>1. p < len /\ len - p \in 1 .. len /\ mine[len - p].at < t
                BY <1>1, <2>1, <2>2, <4>1
          <5>2. i < len - p => mine[i].at < mine[len - p].at
                BY <1>1, <4>1, <5>1 DEF InStep
          <5> QED
              BY <1>1, <4>1, <5>1, <5>2
        <4>3. i - (len - p) \in 1 .. p /\ len - p + (i - (len - p)) = i
              BY <1>1, <2>2, <4>1, <4>2
        <4> QED
            BY <3>1, <4>3
      <3>3. I \in SUBSET Int
            BY <1>1
      <3> HIDE DEF I
      <3>4. g \in [1 .. p -> I]
            BY <3>1
      <3>5. \A l, m \in 1 .. p : l < m => g[l] < g[m]
            BY <1>1, <2>2, <3>1
      <3> HIDE DEF g
      <3>6. Along(g, p, Rising(I), I)
            BY <2>2, <3>2, <3>3, <3>4, <3>5 DEF Along, Rising
      <3>7. Pick(mine, I) = [n \in 1 .. p |-> mine[g[n]]]
            BY <3>3, <3>6, PickIs
      <3> QED
          BY <2>1, <3>1, <3>7
    <2> QED
        BY <1>2, <2>5, <2>6 DEF mine, since
  <1> QED
      BY <1>4, <1>5

\* Since the beginning: all of them
LEMMA SinceAll ==
  ASSUME ViewsIInv, NEW r \in RepoIds
  PROVE  Since(r, 0) = OfRepo(log, r)
  <1> DEFINE mine == OfRepo(log, r)
             len == Len(mine)
             I == {i \in DOMAIN mine : mine[i].at >= 0}
  <1>1. /\ mine \in Seq(Records) /\ len \in Nat /\ DOMAIN mine = 1 .. len
        /\ mine = [i \in 1 .. len |-> mine[i]]
        /\ \A i \in 1 .. len : mine[i].at \in Nat
        BY MineIs, SeqIs
  <1>2. /\ hasIndex => \E p \in 0 .. len :
             /\ Since(r, 0) = [n \in 1 .. p |-> mine[len - p + n]]
             /\ \A n \in 1 .. p : mine[len - p + n].at >= 0
             /\ p < len => mine[len - p].at < 0
        /\ ~hasIndex => Since(r, 0) = Pick(mine, I)
    <2>1. 0 \in Int
          OBVIOUS
    <2> QED
        BY <2>1, SinceIs
  <1> HIDE DEF mine
  <1>3. CASE ~hasIndex
    <2>1. I = DOMAIN mine
          BY <1>1
    <2>2. Since(r, 0) = mine
          BY <1>1, <1>2, <1>3, <2>1, PickAll
    <2> QED
        BY <2>2 DEF mine
  <1>4. CASE hasIndex
    <2>1. PICK p \in 0 .. len : /\ Since(r, 0) = [n \in 1 .. p |-> mine[len - p + n]]
                                /\ p < len => mine[len - p].at < 0
          BY <1>2, <1>4
    <2>2. p = len
          BY <1>1, <2>1
    <2>3. \A n \in 1 .. len : len - p + n = n
          BY <1>1, <2>2
    <2>4. Since(r, 0) = mine
          BY <1>1, <2>1, <2>2, <2>3
    <2> QED
        BY <2>4 DEF mine
  <1> QED
      BY <1>3, <1>4

\* The newest of a repo by the index are the newest of a scan.
LEMMA RecentAgrees ==
  ASSUME ViewsIInv, NEW r \in RepoIds, NEW n
  PROVE  Recent(r, n) = FirstOf(Reverse(OfRepo(log, r)), n)
  <1>1. r # 0
        BY DEF RepoIds
  <1> QED
      BY <1>1, BackIs DEF Recent

\* A row of the page of a repo is the row of the overview.
LEMMA RowAgrees ==
  ASSUME ViewsIInv, NEW r \in RepoIds
  PROVE  DrillDown(r).row = Overview.rows[r]
  <1> DEFINE mine == OfRepo(log, r)
  <1>1. \A i \in DOMAIN mine : mine[i].repo = r
    <2> DEFINE I == {i \in DOMAIN log : log[i].repo = r}
               f == Places(I)
    <2>1. mine = Pick(log, I) /\ I \in SUBSET (DOMAIN log)
          BY OfRepoIs
    <2> HIDE DEF mine
    <2>2. \A i \in DOMAIN mine : mine[i] = log[f[i]] /\ f[i] \in I
      <3>1. log \in Seq(Records)
            BY LogIs
      <3> HIDE DEF I
      <3>2. /\ DOMAIN Pick(log, I) = 1 .. Cardinality(I)
            /\ f \in [1 .. Cardinality(I) -> I]
            /\ \A n \in 1 .. Cardinality(I) : Pick(log, I)[n] = log[f[n]]
            BY <2>1, <3>1, PickOf
      <3> HIDE DEF f
      <3>3. DOMAIN mine = 1 .. Cardinality(I)
            BY <2>1, <3>2
      <3> QED
          BY <2>1, <3>2, <3>3
    <2> QED
        BY <2>2
  <1>2. mine \in Seq(Records)
        BY MineIs
  <1>3. OfRepo(mine, r) = mine
    <2> HIDE DEF mine
    <2>1. {i \in DOMAIN mine : mine[i].repo = r} = DOMAIN mine
          BY <1>1
    <2> QED
        BY <1>2, <2>1, OfRepoIs, PickAll
  <1>4. RepoRow(mine, r) = RepoRow(log, r)
        BY <1>3 DEF RepoRow
  <1> QED
      BY <1>4, SinceAll DEF DrillDown, Overview

\* What is picked is at the places.
LEMMA RangePick ==
  ASSUME NEW S, NEW s \in Seq(S), NEW I \in SUBSET (DOMAIN s)
  PROVE  Range(Pick(s, I)) = {s[i] : i \in I}
  <1> DEFINE f == Places(I)
             c == Cardinality(I)
  <1>1. /\ DOMAIN Pick(s, I) = 1 .. c
        /\ f \in [1 .. c -> I]
        /\ \A i \in I : \E n \in 1 .. c : f[n] = i
        /\ \A n \in 1 .. c : Pick(s, I)[n] = s[f[n]]
        BY PickOf
  <1> HIDE DEF f, c
  <1>2. Range(Pick(s, I)) = {Pick(s, I)[n] : n \in 1 .. c}
        BY <1>1 DEF Range
  <1>3. \A n \in 1 .. c : f[n] \in I /\ Pick(s, I)[n] = s[f[n]]
        BY <1>1
  <1>4. \A i \in I : \E n \in 1 .. c : Pick(s, I)[n] = s[i]
        BY <1>1
  <1> QED
      BY <1>2, <1>3, <1>4

\* Who asks for as many as there are gets all.
LEMMA FirstAll ==
  ASSUME NEW S, NEW s \in Seq(S), NEW n \in Int, Len(s) <= n
  PROVE  FirstOf(s, n) = s
  <1>1. Len(s) \in Nat /\ s = [i \in 1 .. Len(s) |-> s[i]]
        BY SeqIs
  <1>2. FirstOf(s, n) = SubSeq(s, 1, Len(s))
        BY <1>1 DEF FirstOf
  <1>3. SubSeq(s, 1, Len(s)) = [i \in 1 .. Len(s) |-> s[i]]
        BY <1>1
  <1> QED
      BY <1>1, <1>2, <1>3

\* Backwards, the same members
LEMMA ReverseIs ==
  ASSUME NEW S, NEW s \in Seq(S)
  PROVE  /\ Reverse(s) \in Seq(S) /\ Len(Reverse(s)) = Len(s)
         /\ Range(Reverse(s)) = Range(s)
  <1> DEFINE n == Len(s)
             t == Reverse(s)
  <1>1. n \in Nat /\ DOMAIN s = 1 .. n /\ s \in [1 .. n -> S]
        BY SeqIs
  <1>2. t = [i \in 1 .. n |-> s[(n - i) + 1]]
        BY DEF Reverse
  <1>3. \A i \in 1 .. n : (n - i) + 1 \in 1 .. n /\ (n - ((n - i) + 1)) + 1 = i
        BY <1>1
  <1> HIDE DEF t, n
  <1>4. t \in [1 .. n -> S] /\ DOMAIN t = 1 .. n
        BY <1>1, <1>2, <1>3
  <1>5. t \in Seq(S) /\ Len(t) = n
        BY <1>1, <1>4, SeqIs
  <1>6. Range(t) = Range(s)
    <2>1. \A i \in 1 .. n : t[i] = s[(n - i) + 1] /\ s[i] = t[(n - i) + 1]
          BY <1>2, <1>3
    <2> QED
        BY <1>1, <1>3, <1>4, <2>1 DEF Range
  <1> QED
      BY <1>5, <1>6 DEF t, n

-----------------------------------------------------------------------------
(* Records by their time *)

\* No two records are of one time, written or about to be, and none is of the future.
Dates ==
  /\ \A i, j \in DOMAIN log : log[i].at = log[j].at => i = j
  /\ \A i \in DOMAIN log : log[i].at <= clock
  /\ \A w \in Stamped : rec[w].at <= clock /\ \A i \in DOMAIN log : log[i].at # rec[w].at
  /\ \A v, w \in Stamped : rec[v].at = rec[w].at => v = w

\* Records of the log are in order by their times, either way.
LEMMA DatesOrder ==
  ASSUME ViewsIInv, Dates, NEW X \in SUBSET Range(log)
  PROVE  /\ IsFiniteSet(X) /\ Cardinality(X) \in Nat /\ Cardinality(X) <= Len(log)
         /\ X \in SUBSET Records
         /\ \A x, y \in X : x.at = y.at => x = y
         /\ Orders(Newer(X), X) /\ Orders(Older(X), X)
  <1>1. /\ log \in Seq(Records) /\ Len(log) \in Nat /\ DOMAIN log = 1 .. Len(log)
        /\ \A x \in Records : x.at \in Nat
        /\ \A i \in DOMAIN log : log[i] \in Records
        BY LogIs
  <1>2. X \in SUBSET Records /\ \A x, y \in X : x.at = y.at => x = y
        BY <1>1 DEF Range, Dates
  <1>3. IsFiniteSet(Range(log)) /\ Cardinality(Range(log)) <= Len(log) /\ Cardinality(Range(log)) \in Nat
    <2>1. log \in Surjection(DOMAIN log, Range(log))
          BY <1>1 DEF Range, Surjection
    <2>2. IsFiniteSet(DOMAIN log) /\ Cardinality(DOMAIN log) = Len(log)
          BY <1>1, FS_Interval
    <2> QED
        BY <2>1, <2>2, FS_Surjection, FS_CardinalityType
  <1>4. /\ IsFiniteSet(X) /\ Cardinality(X) \in Nat /\ Cardinality(X) <= Len(log)
    <2>1. IsFiniteSet(X) /\ Cardinality(X) <= Cardinality(Range(log))
          BY <1>3, FS_Subset
    <2>2. Cardinality(X) \in Nat
          BY <2>1, FS_CardinalityType
    <2> QED
        BY <1>1, <1>3, <2>1, <2>2
  <1>5. Orders(Newer(X), X)
    <2>1. \A x, y \in X : <<x, y>> \in Newer(X) <=> x.at > y.at
          BY DEF Newer
    <2> QED
        BY <1>1, <1>2, <2>1 DEF Orders
  <1>6. Orders(Older(X), X)
    <2>1. \A x, y \in X : <<x, y>> \in Older(X) <=> x.at < y.at
          BY DEF Older
    <2> QED
        BY <1>1, <1>2, <2>1 DEF Orders
  <1> QED
      BY <1>2, <1>4, <1>5, <1>6

\* From the newest to the oldest, and from the oldest to the newest
LEMMA ByTimes ==
  ASSUME ViewsIInv, Dates, NEW X \in SUBSET Range(log)
  PROVE  LET q == Sorted(X, Newer(X))
             o == Sorted(X, Older(X))
             c == Cardinality(X)
         IN
         /\ c \in Nat
         /\ q \in [1 .. c -> X] /\ q \in Seq(Records) /\ Len(q) = c /\ DOMAIN q = 1 .. c
         /\ \A x \in X : \E n \in 1 .. c : q[n] = x
         /\ \A i, j \in 1 .. c : i < j => q[i].at > q[j].at
         /\ \A i, j \in 1 .. c : q[i] = q[j] => i = j
         /\ o \in [1 .. c -> X] /\ o \in Seq(Records) /\ Len(o) = c /\ DOMAIN o = 1 .. c
         /\ \A x \in X : \E n \in 1 .. c : o[n] = x
         /\ \A i, j \in 1 .. c : o[i] = o[j] => i = j
  <1> DEFINE q == Sorted(X, Newer(X))
             o == Sorted(X, Older(X))
             c == Cardinality(X)
  <1>1. /\ IsFiniteSet(X) /\ X \in SUBSET Records
        /\ Orders(Newer(X), X) /\ Orders(Older(X), X)
        BY DatesOrder
  <1>2. Lists(q, Newer(X), X) /\ Lists(o, Older(X), X) /\ c \in Nat
        BY <1>1, SortedLists
  <1> HIDE DEF q, o, c
  <1>3. /\ q \in [1 .. c -> X] /\ DOMAIN q = 1 .. c
        /\ \A x \in X : \E n \in 1 .. c : q[n] = x
        /\ \A i, j \in 1 .. c : i < j => <<q[i], q[j]>> \in Newer(X)
        /\ \A i, j \in 1 .. c : q[i] = q[j] => i = j
        BY <1>2 DEF Lists, c
  <1>4. /\ o \in [1 .. c -> X] /\ DOMAIN o = 1 .. c
        /\ \A x \in X : \E n \in 1 .. c : o[n] = x
        /\ \A i, j \in 1 .. c : o[i] = o[j] => i = j
        BY <1>2 DEF Lists, c
  <1>5. \A i, j \in 1 .. c : i < j => q[i].at > q[j].at
        BY <1>3 DEF Newer
  <1>6. q \in [1 .. c -> Records] /\ o \in [1 .. c -> Records]
        BY <1>1, <1>3, <1>4
  <1>7. q \in Seq(Records) /\ Len(q) = c /\ o \in Seq(Records) /\ Len(o) = c
        BY <1>2, <1>6, SeqIs
  <1> QED
      BY <1>2, <1>3, <1>4, <1>5, <1>7 DEF q, o, c

\* A repo's records are those of the log with its name.
LEMMA MineRange ==
  ASSUME ViewsIInv, NEW r \in RepoIds
  PROVE  /\ Range(OfRepo(log, r)) = {x \in Range(log) : x.repo = r}
         /\ Range(OfRepo(log, r)) \in SUBSET Range(log)
  <1> DEFINE I == {i \in DOMAIN log : log[i].repo = r}
  <1>1. Range(OfRepo(log, r)) = {log[i] : i \in I}
    <2>1. log \in Seq(Records) /\ I \in SUBSET (DOMAIN log)
          BY LogIs
    <2> QED
        BY <2>1, RangePick, OfRepoIs
  <1> QED
      BY <1>1 DEF Range

\* The whole log, on the history page
LEMMA HistoryIs ==
  ASSUME ViewsIInv, NEW n \in Int, Len(log) <= n
  PROVE  History(0, n) = Events(Sorted(Range(log), Newer(Range(log))))
  <1>1. /\ Reverse(log) \in Seq(Records) /\ Len(Reverse(log)) = Len(log)
        /\ Range(Reverse(log)) = Range(log)
        BY LogIs, ReverseIs
  <1>2. Recent(0, n) = Reverse(log)
        BY <1>1, FirstAll DEF Recent
  <1> QED
      BY <1>1, <1>2 DEF History, Latest

\* The timeline of a repo is what the history has of it.
LEMMA TimelineAgrees ==
  ASSUME ViewsIInv, Dates, NEW r \in RepoIds, Len(log) <= PageSize
  PROVE  DrillDown(r).timeline = Select(History(0, PageSize), LAMBDA e : e.repo = r)
  <1> DEFINE X == Range(log)
             M == {x \in X : x.repo = r}
             q == Sorted(X, Newer(X))
             c == Cardinality(X)
             J == {i \in DOMAIN q : q[i].repo = r}
             f == Places(J)
             d == Cardinality(J)
             g == [n \in 1 .. d |-> q[f[n]]]
  <1>0. PageSize \in Int /\ \A x : Event(x).repo = x.repo
        BY ViewsAssumption DEF Event
  <1>1. /\ c \in Nat /\ q \in [1 .. c -> X] /\ q \in Seq(Records) /\ DOMAIN q = 1 .. c
        /\ \A x \in X : \E n \in 1 .. c : q[n] = x
        /\ \A i, j \in 1 .. c : i < j => q[i].at > q[j].at
        BY ByTimes
  <1>2. /\ M \in SUBSET X /\ M \in SUBSET Records /\ Orders(Newer(M), M)
        /\ c <= Len(log) /\ Cardinality(M) <= Len(log) /\ Len(log) \in Nat
    <2>1. M \in SUBSET X
          OBVIOUS
    <2> HIDE DEF M
    <2> QED
        BY <2>1, DatesOrder, LogIs
  <1>3. History(0, PageSize) = Events(q)
        BY <1>0, HistoryIs
  <1>4. DrillDown(r).timeline = Events(FirstOf(Sorted(M, Newer(M)), PageSize))
    <2>1. Latest(OfRepo(log, r)) = Sorted(M, Newer(M))
          BY MineRange DEF Latest
    <2>2. DrillDown(r).timeline = Events(FirstOf(Latest(OfRepo(log, r)), PageSize))
          BY SinceAll DEF DrillDown
    <2> QED
        BY <2>1, <2>2
  <1> HIDE DEF q, X, c
  <1>5. J \in SUBSET (DOMAIN q)
        OBVIOUS
  <1>6. /\ d \in Nat /\ f \in [1 .. d -> J]
        /\ \A i \in J : \E n \in 1 .. d : f[n] = i
        /\ \A m, n \in 1 .. d : m < n <=> f[m] < f[n]
    <2>1. q \in Seq(Records)
          BY <1>1
    <2> HIDE DEF J
    <2> QED
        BY <1>5, <2>1, PickOf
  <1> HIDE DEF f, d
  <1>7. \A n \in 1 .. d : f[n] \in 1 .. c /\ q[f[n]] \in M /\ g[n] = q[f[n]]
        BY <1>1, <1>6
  <1>8. \A x \in M : \E n \in 1 .. d : g[n] = x
    <2> TAKE x \in M
    <2>1. PICK i \in 1 .. c : q[i] = x
          BY <1>1
    <2>2. i \in J
          BY <1>1, <2>1
    <2>3. PICK n \in 1 .. d : f[n] = i
          BY <1>6, <2>2
    <2> QED
        BY <1>7, <2>1, <2>3
  <1>9. \A l, m \in 1 .. d : l < m => <<g[l], g[m]>> \in Newer(M)
    <2> SUFFICES ASSUME NEW l \in 1 .. d, NEW m \in 1 .. d, l < m
                 PROVE  <<g[l], g[m]>> \in Newer(M)
        OBVIOUS
    <2>1. f[l] < f[m]
          BY <1>6
    <2>2. q[f[l]].at > q[f[m]].at
          BY <1>1, <1>7, <2>1
    <2> QED
        BY <1>7, <2>2 DEF Newer
  <1>10. Sorted(M, Newer(M)) = g /\ Cardinality(M) = d
    <2>1. g \in [1 .. d -> M]
          BY <1>7
    <2> HIDE DEF g, M
    <2>2. Along(g, d, Newer(M), M)
          BY <1>6, <1>8, <1>9, <2>1 DEF Along
    <2> QED
        BY <1>2, <2>2, SortedIs
  <1>11. FirstOf(g, PageSize) = g
    <2>1. g \in [1 .. d -> Records]
          BY <1>2, <1>7
    <2> HIDE DEF g
    <2>2. g \in Seq(Records) /\ Len(g) = d
          BY <1>6, <2>1, SeqIs
    <2>3. d <= PageSize
          BY <1>0, <1>2, <1>6, <1>10
    <2> QED
        BY <1>0, <2>2, <2>3, FirstAll
  <1>12. Select(Events(q), LAMBDA e : e.repo = r) = [n \in 1 .. d |-> Event(q[f[n]])]
    <2>1. DOMAIN Events(q) = DOMAIN q /\ \A i \in DOMAIN q : Events(q)[i] = Event(q[i])
          BY DEF Events
    <2>2. {i \in DOMAIN Events(q) : Events(q)[i].repo = r} = J
          BY <1>0, <2>1
    <2>3. Select(Events(q), LAMBDA e : e.repo = r) = Pick(Events(q), J)
          BY <2>2 DEF Select
    <2>4. DOMAIN f = 1 .. d /\ Pick(Events(q), J) = [n \in DOMAIN f |-> Events(q)[f[n]]]
          BY <1>6 DEF Pick, Places, f
    <2> QED
        BY <1>1, <1>7, <2>1, <2>3, <2>4
  <1>13. Events(g) = [n \in 1 .. d |-> Event(q[f[n]])]
         BY <1>7 DEF Events
  <1> QED
      BY <1>3, <1>4, <1>10, <1>11, <1>12, <1>13

\* What the look-ups and the pages of a log with its index have in common
LEMMA LookupsHold == ViewsIInv /\ Dates => LookupsAgree
  <1> SUFFICES ASSUME ViewsIInv, Dates, NEW r \in RepoIds
               PROVE  LET overview == Overview
                          mine == OfRepo(log, r)
                          page == DrillDown(r)
                      IN
                      /\ \A n \in 1 .. MaxRecords : Recent(r, n) = FirstOf(Reverse(mine), n)
                      /\ \A t \in 0 .. clock :
                           /\ IsSuffix(Since(r, t), mine) \/ ~hasIndex
                           /\ InStep(mine) => Since(r, t) = Select(mine, LAMBDA x : x.at >= t)
                      /\ page.row = overview.rows[r]
                      /\ Len(log) <= PageSize =>
                           page.timeline = Select(History(0, PageSize), LAMBDA e : e.repo = r)
      BY DEF LookupsAgree
  <1>1. \A n \in 1 .. MaxRecords : Recent(r, n) = FirstOf(Reverse(OfRepo(log, r)), n)
        BY RecentAgrees
  <1>2. \A t \in 0 .. clock :
          /\ IsSuffix(Since(r, t), OfRepo(log, r)) \/ ~hasIndex
          /\ InStep(OfRepo(log, r)) => Since(r, t) = Select(OfRepo(log, r), LAMBDA x : x.at >= t)
    <2> TAKE t \in 0 .. clock
    <2>1. t \in Int
          OBVIOUS
    <2> QED
        BY <2>1, SinceAgrees
  <1>3. DrillDown(r).row = Overview.rows[r]
        BY RowAgrees
  <1>4. Len(log) <= PageSize =>
          DrillDown(r).timeline = Select(History(0, PageSize), LAMBDA e : e.repo = r)
        BY TimelineAgrees
  <1> QED
      BY <1>1, <1>2, <1>3, <1>4

-----------------------------------------------------------------------------
(* Counting *)

\* Sets are of a size when one goes through the other.
LEMMA SameCount ==
  ASSUME NEW S, NEW T, NEW f \in [S -> T], IsFiniteSet(T),
         \A x, y \in S : f[x] = f[y] => x = y,
         \A z \in T : \E x \in S : f[x] = z
  PROVE  IsFiniteSet(S) /\ Cardinality(S) = Cardinality(T)
  <1>1. f \in Injection(S, T) /\ f \in Surjection(S, T)
        BY DEF Injection, Surjection, IsInjective
  <1> QED
      BY <1>1, FS_Injection

\* Two parts make the whole.
LEMMA PartsCount ==
  ASSUME NEW S, IsFiniteSet(S), NEW A \in SUBSET S, NEW B \in SUBSET S, A \cap B = {}
  PROVE  /\ Cardinality(A) \in Nat /\ Cardinality(B) \in Nat /\ Cardinality(S) \in Nat
         /\ Cardinality(A) + Cardinality(B) <= Cardinality(S)
         /\ S = A \cup B => Cardinality(S) = Cardinality(A) + Cardinality(B)
  <1>1. /\ IsFiniteSet(A) /\ IsFiniteSet(B) /\ A \cup B \in SUBSET S
        /\ Cardinality(A) \in Nat /\ Cardinality(B) \in Nat /\ Cardinality(S) \in Nat
        BY FS_Subset, FS_CardinalityType
  <1>2. Cardinality({}) = 0
        BY FS_EmptySet
  <1>3. Cardinality(A \cup B) = Cardinality(A) + Cardinality(B)
    <2>1. Cardinality(A \cup B) = Cardinality(A) + Cardinality(B) - Cardinality(A \cap B)
          BY <1>1, FS_Union
    <2>2. Cardinality(A \cap B) = 0
          BY <1>2
    <2> QED
        BY <1>1, <2>1, <2>2
  <1>4. Cardinality(A \cup B) <= Cardinality(S)
        BY <1>1, FS_Subset
  <1> QED
      BY <1>1, <1>3, <1>4

\* c[p] of B are of p.
Shares(c, of, B, N) == \A p \in N : c[p] = Cardinality({x \in B : of[x] = p})

\* Every member of B is in one part: as many as the parts have together.
LEMMA PartsSum ==
  ASSUME NEW B, IsFiniteSet(B), NEW N, NEW of \in [B -> N], NEW c, Shares(c, of, B, N)
  PROVE  Cardinality(UNION {{p} \X (1 .. c[p]) : p \in N}) = Cardinality(B)
  <1> DEFINE Part(p) == {x \in B : of[x] = p}
             U == UNION {{p} \X (1 .. c[p]) : p \in N}
             way == [p \in N |-> CHOOSE h : h \in Bijection(1 .. c[p], Part(p))]
             f == [z \in U |-> way[z[1]][z[2]]]
  <1>1. ASSUME NEW p \in N
        PROVE  way[p] \in Bijection(1 .. c[p], Part(p))
    <2>1. IsFiniteSet(Part(p))
          BY FS_Subset
    <2>2. ExistsBijection(1 .. Cardinality(Part(p)), Part(p))
          BY <2>1, FS_CardinalityType
    <2>3. c[p] = Cardinality(Part(p))
          BY DEF Shares
    <2>4. \E h : h \in Bijection(1 .. c[p], Part(p))
          BY <2>2, <2>3 DEF ExistsBijection
    <2> QED
        BY <2>4
  <1> HIDE DEF way
  <1>2. ASSUME NEW p \in N
        PROVE  /\ way[p] \in [1 .. c[p] -> Part(p)]
               /\ \A k, l \in 1 .. c[p] : way[p][k] = way[p][l] => k = l
               /\ \A x \in Part(p) : \E k \in 1 .. c[p] : way[p][k] = x
    <2> HIDE DEF Part
    <2> QED
        BY <1>1 DEF Bijection, Injection, Surjection, IsInjective
  <1>3. \A z \in U : z[1] \in N /\ z[2] \in 1 .. c[z[1]] /\ z = <<z[1], z[2]>>
        OBVIOUS
  <1>4. \A p \in N : \A k \in 1 .. c[p] : <<p, k>> \in U
        OBVIOUS
  <1> HIDE DEF U
  <1>5. \A z \in U : f[z] = way[z[1]][z[2]] /\ f[z] \in B /\ of[f[z]] = z[1]
    <2> SUFFICES ASSUME NEW z \in U
                 PROVE  f[z] = way[z[1]][z[2]] /\ f[z] \in B /\ of[f[z]] = z[1]
        OBVIOUS
    <2>1. way[z[1]][z[2]] \in Part(z[1])
      <3>1. z[1] \in N /\ z[2] \in 1 .. c[z[1]]
            BY <1>3
      <3> HIDE DEF Part
      <3>2. way[z[1]] \in [1 .. c[z[1]] -> Part(z[1])]
            BY <1>2, <3>1
      <3> QED
          BY <3>1, <3>2
    <2>2. f[z] = way[z[1]][z[2]]
          OBVIOUS
    <2> HIDE DEF f
    <2>3. f[z] \in B /\ of[f[z]] = z[1]
          BY <2>1, <2>2
    <2> QED
        BY <2>2, <2>3
  <1>6. \A y, z \in U : f[y] = f[z] => y = z
    <2> SUFFICES ASSUME NEW y \in U, NEW z \in U, f[y] = f[z] PROVE y = z
        OBVIOUS
    <2>1. y[1] = z[1]
          BY <1>5
    <2>2. y[2] = z[2]
          BY <1>2, <1>3, <1>5, <2>1
    <2> QED
        BY <1>3, <2>1, <2>2
  <1>7. \A x \in B : \E z \in U : f[z] = x
    <2> TAKE x \in B
    <2>1. of[x] \in N /\ x \in Part(of[x])
          OBVIOUS
    <2>2. PICK k \in 1 .. c[of[x]] : way[of[x]][k] = x
          BY <1>2, <2>1
    <2>3. <<of[x], k>> \in U
          BY <1>4, <2>1, <2>2
    <2>4. f[<<of[x], k>>] = x
          BY <1>5, <2>2, <2>3
    <2> QED
        BY <2>3, <2>4
  <1>8. f \in [U -> B]
        BY <1>5
  <1> HIDE DEF f
  <1>9. Cardinality(U) = Cardinality(B)
        BY <1>6, <1>7, <1>8, SameCount
  <1> QED
      BY <1>9 DEF U

\* Nobody is twice in the sequence.
Distinct(s) == \A i, j \in DOMAIN s : s[i] = s[j] => i = j

\* As many places as there are members
LEMMA CountIs ==
  ASSUME NEW S, NEW s \in Seq(S), Distinct(s), NEW B \in SUBSET Range(s)
  PROVE  /\ IsFiniteSet(B) /\ IsFiniteSet(Where(s, B))
         /\ Cardinality(Where(s, B)) = Cardinality(B) /\ Cardinality(B) \in Nat
  <1> DEFINE K == Where(s, B)
             f == [i \in K |-> s[i]]
  <1>1. K \in SUBSET (1 .. Len(s)) /\ Len(s) \in Nat
        BY SeqIs DEF Where
  <1>2. IsFiniteSet(K)
    <2>1. IsFiniteSet(1 .. Len(s))
          BY <1>1, FS_Interval
    <2> QED
        BY <1>1, <2>1, FS_Subset
  <1>3. f \in [K -> B] /\ \A x, y \in K : f[x] = f[y] => x = y
        BY DEF Where, Distinct
  <1>4. \A z \in B : \E x \in K : f[x] = z
        BY DEF Where, Range
  <1> HIDE DEF K, f
  <1>5. f \in Bijection(K, B)
        BY <1>3, <1>4 DEF Bijection, Injection, Surjection, IsInjective
  <1>6. ExistsBijection(K, B)
        BY <1>5 DEF ExistsBijection
  <1>7. IsFiniteSet(B) /\ Cardinality(K) = Cardinality(B) /\ Cardinality(B) \in Nat
        BY <1>2, <1>6, FS_Bijection, FS_CardinalityType
  <1> QED
      BY <1>2, <1>7 DEF K

\* Nobody is picked twice.
LEMMA PickDistinct ==
  ASSUME NEW S, NEW s \in Seq(S), NEW I \in SUBSET (DOMAIN s), Distinct(s)
  PROVE  Distinct(Pick(s, I))
  <1> DEFINE f == Places(I)
             c == Cardinality(I)
  <1>1. /\ DOMAIN Pick(s, I) = 1 .. c
        /\ f \in [1 .. c -> I]
        /\ \A m, n \in 1 .. c : f[m] = f[n] => m = n
        /\ \A n \in 1 .. c : Pick(s, I)[n] = s[f[n]]
        BY PickOf
  <1> HIDE DEF f, c
  <1> QED
      BY <1>1 DEF Distinct

\* A revert spoils one fix at most: the last before it.
LEMMA RevertsSpoil ==
  ASSUME NEW S, NEW acts \in Seq(S)
  PROVE  LET fixes == {i \in DOMAIN acts : acts[i] = "fix"}
             good == {i \in DOMAIN acts : acts[i] = "fix" /\ ~Reverted(acts, i)}
             reverts == {i \in DOMAIN acts : acts[i] = "revert"}
         IN  /\ Cardinality(fixes) \in Nat /\ Cardinality(good) \in Nat
             /\ Cardinality(reverts) \in Nat
             /\ Cardinality(fixes) - Cardinality(good) <= Cardinality(reverts)
  <1> DEFINE fixes == {i \in DOMAIN acts : acts[i] = "fix"}
             good == {i \in DOMAIN acts : acts[i] = "fix" /\ ~Reverted(acts, i)}
             spoilt == {i \in DOMAIN acts : acts[i] = "fix" /\ Reverted(acts, i)}
             reverts == {i \in DOMAIN acts : acts[i] = "revert"}
             Next1(i, j) == /\ j \in i + 1 .. Len(acts) /\ acts[j] = "revert"
                            /\ \A k \in i + 1 .. j - 1 : acts[k] # "fix"
             f == [i \in spoilt |-> CHOOSE j : Next1(i, j)]
  <1>1. Len(acts) \in Nat /\ DOMAIN acts = 1 .. Len(acts)
        BY SeqIs
  <1>2. \A i \in spoilt : Next1(i, f[i])
    <2> TAKE i \in spoilt
    <2>1. \E j : Next1(i, j)
          BY DEF Reverted
    <2> HIDE DEF Next1
    <2>2. Next1(i, CHOOSE j : Next1(i, j))
          BY <2>1
    <2> QED
        BY <2>2
  <1> HIDE DEF f
  <1>3. \A i \in spoilt : f[i] \in reverts /\ i \in Int /\ f[i] \in Int /\ i < f[i] /\ acts[i] = "fix"
        BY <1>1, <1>2
  <1>4. ASSUME NEW i \in spoilt, NEW j \in spoilt, i < j, f[i] = f[j] PROVE FALSE
    <2>1. j \in i + 1 .. f[i] - 1
          BY <1>3, <1>4
    <2>2. acts[j] # "fix"
          BY <1>2, <2>1
    <2> QED
        BY <1>3, <2>2
  <1>5. \A i, j \in spoilt : f[i] = f[j] => i = j
    <2> SUFFICES ASSUME NEW i \in spoilt, NEW j \in spoilt, f[i] = f[j], i # j PROVE FALSE
        OBVIOUS
    <2>1. i < j \/ j < i
          BY <1>3
    <2> QED
        BY <1>4, <2>1
  <1>6. f = [i \in spoilt |-> f[i]]
        BY DEF f
  <1>7. f \in Injection(spoilt, reverts)
        BY <1>3, <1>5, <1>6 DEF Injection, IsInjective
  <1>8. IsFiniteSet(fixes) /\ IsFiniteSet(reverts)
    <2>1. IsFiniteSet(DOMAIN acts)
          BY <1>1, FS_Interval
    <2> QED
        BY <2>1, FS_Subset
  <1>9. /\ Cardinality(good) \in Nat /\ Cardinality(spoilt) \in Nat
        /\ Cardinality(fixes) \in Nat
        /\ Cardinality(fixes) = Cardinality(good) + Cardinality(spoilt)
    <2>1. /\ good \in SUBSET fixes /\ spoilt \in SUBSET fixes /\ good \cap spoilt = {}
          /\ fixes = good \cup spoilt
          OBVIOUS
    <2> HIDE DEF good, spoilt, fixes
    <2> QED
        BY <1>8, <2>1, PartsCount
  <1>10. Cardinality(spoilt) <= Cardinality(reverts) /\ Cardinality(reverts) \in Nat
        BY <1>7, <1>8, FS_Injection, FS_CardinalityType
  <1> HIDE DEF good, spoilt, fixes, reverts
  <1>11. Cardinality(fixes) - Cardinality(good) <= Cardinality(reverts)
        BY <1>9, <1>10
  <1> QED
      BY <1>9, <1>10, <1>11 DEF good, fixes, reverts

-----------------------------------------------------------------------------
(* The scores *)

\* What was done of these records, and worked
DoneOf(X, act) == {x \in X : x.action = act /\ x.ok}

\* No record is twice in the log, nor in what a repo has of it.
LEMMA LogDistinct ==
  ASSUME ViewsIInv, Dates
  PROVE  Distinct(log) /\ \A r \in RepoIds : Distinct(OfRepo(log, r))
  <1>1. Distinct(log)
        BY DEF Distinct, Dates
  <1>2. ASSUME NEW r \in RepoIds PROVE Distinct(OfRepo(log, r))
    <2>1. {i \in DOMAIN log : log[i].repo = r} \in SUBSET (DOMAIN log) /\ log \in Seq(Records)
          BY LogIs
    <2> QED
        BY <1>1, <2>1, PickDistinct, OfRepoIs
  <1> QED
      BY <1>1, <1>2

\* What the KPIs count is what worked, and a revert spoils one fix at most.
LEMMA KPIIs ==
  ASSUME ViewsIInv, Dates, NEW recs, Range(recs) \in SUBSET Range(log)
  PROVE  LET X == Range(recs) IN
         /\ KPI(recs).fixes = Cardinality(DoneOf(X, "fix"))
         /\ KPI(recs).reverts = Cardinality(DoneOf(X, "revert"))
         /\ KPI(recs).fixes - KPI(recs).good <= KPI(recs).reverts
  <1> DEFINE X == Range(recs)
             o == Sorted(X, Older(X))
             I == {i \in DOMAIN o : o[i].ok}
             done == Pick(o, I)
             acts == [i \in DOMAIN done |-> done[i].action]
             Actions1 == {x.action : x \in Records}
  <1>1. done = Counted(ByTime(recs))
        BY DEF Counted, Select, ByTime
  <1>2. /\ o \in Seq(Records) /\ Distinct(o) /\ Range(o) = X
    <2> DEFINE c == Cardinality(X)
    <2>1. X \in SUBSET Range(log)
          OBVIOUS
    <2> HIDE DEF X
    <2>2. /\ o \in [1 .. c -> X] /\ o \in Seq(Records) /\ DOMAIN o = 1 .. c
          /\ \A x \in X : \E n \in 1 .. c : o[n] = x
          /\ \A i, j \in 1 .. c : o[i] = o[j] => i = j
          BY <2>1, ByTimes
    <2> HIDE DEF o
    <2> QED
        BY <2>2 DEF Distinct, Range
  <1>3. I \in SUBSET (DOMAIN o)
        OBVIOUS
  <1>4. /\ done \in Seq(Records) /\ Distinct(done) /\ Range(done) = {x \in X : x.ok}
    <2> HIDE DEF o, X
    <2>1. {o[i] : i \in I} = {x \in X : x.ok}
          BY <1>2 DEF Range
    <2> HIDE DEF I
    <2> QED
        BY <1>2, <1>3, <2>1, PickOf, PickDistinct, RangePick
  <1> DEFINE n == Len(done)
  <1> HIDE DEF done, X, n
  <1>5. n \in Nat /\ DOMAIN done = 1 .. n /\ done \in [1 .. n -> Records]
        BY <1>4, SeqIs DEF n
  <1>6. ASSUME NEW act
        PROVE  /\ Count(done, act) = Cardinality(DoneOf(X, act))
               /\ Count(done, act) = Cardinality({i \in DOMAIN acts : acts[i] = act})
    <2>1. DoneOf(X, act) \in SUBSET Range(done)
          BY <1>4 DEF DoneOf
    <2>2. Where(done, DoneOf(X, act)) = {i \in DOMAIN done : done[i].action = act}
      <3>1. \A i \in DOMAIN done : done[i] \in X /\ done[i].ok
            BY <1>4 DEF Range
      <3> QED
          BY <3>1 DEF Where, DoneOf
    <2>3. Cardinality(Where(done, DoneOf(X, act))) = Cardinality(DoneOf(X, act))
          BY <1>4, <2>1, CountIs
    <2>4. {i \in DOMAIN acts : acts[i] = act} = {i \in DOMAIN done : done[i].action = act}
          OBVIOUS
    <2> QED
        BY <2>2, <2>3, <2>4 DEF Count
  <1>7. acts \in Seq(Actions1)
    <2>1. acts \in [1 .. n -> Actions1]
          BY <1>5
    <2> HIDE DEF acts
    <2> QED
        BY <1>5, <2>1, SeqIs
  <1>8. /\ KPI(recs).fixes = Count(done, "fix") /\ KPI(recs).reverts = Count(done, "revert")
        /\ KPI(recs).good = Cardinality({i \in DOMAIN acts : acts[i] = "fix" /\ ~Reverted(acts, i)})
        BY <1>1 DEF KPI
  <1> HIDE DEF acts
  <1>9. Count(done, "fix") - Cardinality({i \in DOMAIN acts : acts[i] = "fix" /\ ~Reverted(acts, i)})
          <= Count(done, "revert")
    <2>1. /\ Count(done, "fix") = Cardinality({i \in DOMAIN acts : acts[i] = "fix"})
          /\ Count(done, "revert") = Cardinality({i \in DOMAIN acts : acts[i] = "revert"})
          BY <1>6
    <2> QED
        BY <1>7, <2>1, RevertsSpoil
  <1> QED
      BY <1>6, <1>8, <1>9 DEF X

\* The fixes of the log that worked, at their places
FixPlaces == {i \in DOMAIN log : log[i].action = "fix" /\ log[i].ok}

\* As many places as fixes
LEMMA FixPlacesIs ==
  ASSUME ViewsIInv, Dates
  PROVE  IsFiniteSet(FixPlaces) /\ Cardinality(FixPlaces) = Cardinality(DoneOf(Range(log), "fix"))
  <1>1. FixPlaces = Where(log, DoneOf(Range(log), "fix"))
        BY DEF FixPlaces, Where, DoneOf, Range
  <1>2. DoneOf(Range(log), "fix") \in SUBSET Range(log)
        BY DEF DoneOf
  <1> QED
      BY <1>1, <1>2, LogIs, LogDistinct, CountIs

\* Every fix has its one provider.
LEMMA Credited ==
  ASSUME ViewsIInv, Dates
  PROVE  LET names == ProviderNames \cup {Fallback}
             acts == [i \in DOMAIN log |-> log[i].action]
         IN
         /\ Cardinality(UNION {{p} \X (1 .. Stats(log, p).fixes) : p \in names})
              = Cardinality(FixPlaces)
         /\ Cardinality(UNION {{p} \X (1 .. Stats(log, p).success) : p \in names})
              = Cardinality({i \in FixPlaces : ~Reverted(acts, i)})
  <1> DEFINE names == ProviderNames \cup {Fallback}
             acts == [i \in DOMAIN log |-> log[i].action]
             F == FixPlaces
             G == {i \in F : ~Reverted(acts, i)}
             of == [i \in F |-> RanBy(log[i])]
             og == [i \in G |-> RanBy(log[i])]
             c == [p \in names |-> Stats(log, p).fixes]
             d == [p \in names |-> Stats(log, p).success]
  <1>1. \A i \in F : RanBy(log[i]) \in names
    <2> TAKE i \in F
    <2>1. log[i] \in Records
          BY LogIs DEF FixPlaces
    <2>2. log[i].provider \in ProviderNames \cup {Fallback, Nothing}
          BY <2>1 DEF Records
    <2> QED
        BY <2>2 DEF RanBy
  <1>2. of \in [F -> names] /\ og \in [G -> names]
        BY <1>1
  <1>3. IsFiniteSet(F) /\ IsFiniteSet(G)
        BY FixPlacesIs, FS_Subset
  <1>4. ASSUME NEW p
        PROVE  /\ Stats(log, p).fixes = Cardinality({i \in F : of[i] = p})
               /\ Stats(log, p).success = Cardinality({i \in G : og[i] = p})
    <2> DEFINE mine == {i \in DOMAIN log : acts[i] = "fix" /\ log[i].ok /\ RanBy(log[i]) = p}
    <2>1. /\ Stats(log, p).fixes = Cardinality(mine)
          /\ Stats(log, p).success = Cardinality({i \in mine : ~Reverted(acts, i)})
          BY DEF Stats
    <2>2. /\ mine = {i \in F : of[i] = p}
          /\ {i \in mine : ~Reverted(acts, i)} = {i \in G : og[i] = p}
          BY DEF FixPlaces
    <2> QED
        BY <2>1, <2>2
  <1>5. Shares(c, of, F, names) /\ Shares(d, og, G, names)
        BY <1>4 DEF Shares
  <1>6. /\ {{p} \X (1 .. Stats(log, p).fixes) : p \in names} = {{p} \X (1 .. c[p]) : p \in names}
        /\ {{p} \X (1 .. Stats(log, p).success) : p \in names} = {{p} \X (1 .. d[p]) : p \in names}
        OBVIOUS
  <1> HIDE DEF names, F, G, of, og, c, d
  <1>7. Cardinality(UNION {{p} \X (1 .. c[p]) : p \in names}) = Cardinality(F)
        BY <1>2, <1>3, <1>5, PartsSum
  <1>8. Cardinality(UNION {{p} \X (1 .. d[p]) : p \in names}) = Cardinality(G)
        BY <1>2, <1>3, <1>5, PartsSum
  <1> QED
      BY <1>6, <1>7, <1>8 DEF names, F, G

\* The activity feed has every fix that worked as ok.
LEMMA FeedAgrees ==
  ASSUME ViewsIInv, Dates
  PROVE  LET page == History(0, MaxRecords)
         IN  Cardinality({i \in DOMAIN page : page[i].action = "fix" /\ page[i].ok})
               = Cardinality(DoneOf(Range(log), "fix"))
  <1> DEFINE X == Range(log)
             q == Sorted(X, Newer(X))
             D == DoneOf(X, "fix")
             page == History(0, MaxRecords)
  <1>1. MaxRecords \in Int /\ Len(log) <= MaxRecords
    <2>1. Busy \subseteq Workers
          BY DEF Busy
    <2>2. Cardinality(Busy) \in Nat
          BY <2>1, FS_Subset, FS_CardinalityType, ViewsAssumption
    <2> QED
        BY <2>2, LogIs, ViewsAssumption DEF ViewsIInv, RoomLeft
  <1>2. page = Events(q)
        BY <1>1, HistoryIs
  <1>3. q \in Seq(Records) /\ Distinct(q) /\ Range(q) = X
    <2> DEFINE c == Cardinality(X)
    <2>1. X \in SUBSET Range(log)
          OBVIOUS
    <2> HIDE DEF X
    <2>2. /\ q \in [1 .. c -> X] /\ q \in Seq(Records) /\ DOMAIN q = 1 .. c
          /\ \A x \in X : \E n \in 1 .. c : q[n] = x
          /\ \A i, j \in 1 .. c : q[i] = q[j] => i = j
          BY <2>1, ByTimes
    <2> HIDE DEF q
    <2> QED
        BY <2>2 DEF Distinct, Range
  <1> HIDE DEF q, page
  <1>4. DOMAIN page = DOMAIN q /\ \A i \in DOMAIN q : page[i] = Event(q[i])
        BY <1>2 DEF Events
  <1>5. \A i \in DOMAIN q : q[i] \in X /\ q[i].ok \in BOOLEAN
        BY <1>3, LogIs, SeqIs DEF Range
  <1>6. \A i \in DOMAIN q : /\ page[i].action = q[i].action
                            /\ q[i].action = "fix" => page[i].ok = q[i].ok
        BY <1>4, <1>5 DEF Event
  <1>7. {i \in DOMAIN page : page[i].action = "fix" /\ page[i].ok} = Where(q, D)
    <2> HIDE DEF X
    <2> QED
        BY <1>4, <1>5, <1>6 DEF Where, DoneOf
  <1>8. D \in SUBSET Range(q)
        BY <1>3 DEF DoneOf
  <1> HIDE DEF D
  <1>9. Cardinality(Where(q, D)) = Cardinality(D)
        BY <1>3, <1>8, CountIs
  <1> QED
      BY <1>7, <1>9 DEF page, D

\* The overview counts what failed too.
LEMMA OverviewCounts ==
  ASSUME ViewsIInv, Dates, NEW act
  PROVE  Count(log, act)
           = Cardinality(DoneOf(Range(log), act))
               + Cardinality({i \in DOMAIN log : log[i].action = act /\ ~log[i].ok})
  <1> DEFINE S == {i \in DOMAIN log : log[i].action = act}
             A == {i \in DOMAIN log : log[i].action = act /\ log[i].ok}
             B == {i \in DOMAIN log : log[i].action = act /\ ~log[i].ok}
             D == DoneOf(Range(log), act)
  <1>1. Count(log, act) = Cardinality(S)
        BY DEF Count
  <1>2. Cardinality(A) = Cardinality(D)
    <2>1. A = Where(log, D)
          BY DEF Where, DoneOf, Range
    <2>2. D \in SUBSET Range(log)
          BY DEF DoneOf
    <2> HIDE DEF A, D
    <2> QED
        BY <2>1, <2>2, LogIs, LogDistinct, CountIs
  <1>3. IsFiniteSet(S)
        BY LogIs, FS_Subset
  <1>4. A \in SUBSET S /\ B \in SUBSET S /\ A \cap B = {} /\ S = A \cup B
        BY LogIs
  <1> HIDE DEF A, B, S
  <1>5. Cardinality(S) = Cardinality(A) + Cardinality(B)
        BY <1>3, <1>4, PartsCount
  <1> QED
      BY <1>1, <1>2, <1>5 DEF B

\* With nothing failed and the records in order, KPIs and router judge the fixes alike.
LEMMA JudgedAlike ==
  ASSUME ViewsIInv, Dates, InStep(log),
         \A x \in Range(log) : x.ok \/ x.action \notin {"fix", "revert"}
  PROVE  LET acts == [i \in DOMAIN log |-> log[i].action]
         IN  KPI(log).good = Cardinality({i \in FixPlaces : ~Reverted(acts, i)})
  <1> DEFINE X == Range(log)
             n == Len(log)
             I == {i \in DOMAIN log : log[i].ok}
             f == Places(I)
             c == Cardinality(I)
             done == Pick(log, I)
             acts == [i \in DOMAIN log |-> log[i].action]
             did == [i \in DOMAIN done |-> done[i].action]
             G == {i \in FixPlaces : ~Reverted(acts, i)}
             H == {i \in DOMAIN did : did[i] = "fix" /\ ~Reverted(did, i)}
  <1>1. log \in Seq(Records) /\ n \in Nat /\ DOMAIN log = 1 .. n
        BY LogIs
  <1>2. ByTime(log) = log
    <2>1. Orders(Older(X), X)
          BY DatesOrder
    <2>2. Along(log, n, Older(X), X)
      <3>1. log \in [1 .. n -> X] /\ \A x \in X : \E i \in 1 .. n : log[i] = x
            BY <1>1, SeqIs DEF Range
      <3>2. \A i, j \in 1 .. n : i < j => <<log[i], log[j]>> \in Older(X)
            BY <1>1, <3>1 DEF InStep, Older
      <3> QED
          BY <1>1, <3>1, <3>2 DEF Along
    <2> HIDE DEF X
    <2>3. Sorted(X, Older(X)) = log
          BY <2>1, <2>2, SortedIs
    <2> QED
        BY <2>3 DEF ByTime, X
  <1>3. KPI(log).good = Cardinality(H)
        BY <1>2 DEF KPI, Counted, Select
  <1>4. I \in SUBSET (DOMAIN log) /\ \A i \in I : log[i].ok
        OBVIOUS
  <1>5. /\ c \in Nat /\ f \in [1 .. c -> I]
        /\ \A i \in I : \E m \in 1 .. c : f[m] = i
        /\ \A l, m \in 1 .. c : l < m <=> f[l] < f[m]
        /\ \A l, m \in 1 .. c : f[l] = f[m] => l = m
        /\ DOMAIN done = 1 .. c /\ \A m \in 1 .. c : done[m] = log[f[m]]
        /\ done \in Seq(Records)
    <2> HIDE DEF I
    <2> QED
        BY <1>1, <1>4, PickOf
  <1> HIDE DEF f, c, done
  <1>6. \A m \in 1 .. c : f[m] \in 1 .. n /\ f[m] \in I
        BY <1>1, <1>4, <1>5
  <1>7. /\ DOMAIN acts = 1 .. n /\ Len(acts) = n
        /\ DOMAIN did = 1 .. c /\ Len(did) = c
        /\ \A m \in 1 .. c : did[m] = acts[f[m]]
    <2>1. acts \in [1 .. n -> {x.action : x \in Records}]
          BY <1>1, LogIs
    <2>2. did \in [1 .. c -> {x.action : x \in Records}]
      <3>1. \A m \in 1 .. c : done[m] \in Records
            BY <1>1, <1>5, <1>6, LogIs
      <3> QED
          BY <1>5, <3>1
    <2>3. \A m \in 1 .. c : did[m] = acts[f[m]]
          BY <1>1, <1>5, <1>6
    <2> HIDE DEF acts, did
    <2> QED
        BY <1>1, <1>5, <2>1, <2>2, <2>3, SeqIs
  <1>8. \A i \in 1 .. n : acts[i] \in {"fix", "revert"} => i \in I
    <2> TAKE i \in 1 .. n
    <2>1. log[i] \in Range(log) /\ log[i].ok \in BOOLEAN
          BY <1>1, LogIs DEF Range
    <2> QED
        BY <1>1, <2>1
  <1>9. FixPlaces = {i \in 1 .. n : i \in I /\ acts[i] = "fix"}
        BY <1>1 DEF FixPlaces
  <1> HIDE DEF acts, did, I
  <1>10. ASSUME NEW m \in 1 .. c
         PROVE  Reverted(did, m) <=> Reverted(acts, f[m])
    <2>0. f[m] \in 1 .. n /\ m \in Int
          BY <1>6
    <2>1. ASSUME Reverted(did, m) PROVE Reverted(acts, f[m])
      <3>1. PICK j \in m + 1 .. c : did[j] = "revert" /\ \A k \in m + 1 .. j - 1 : did[k] # "fix"
            BY <1>7, <2>1 DEF Reverted
      <3>2. j \in 1 .. c /\ m < j
            BY <1>5, <2>0
      <3>3. f[j] \in f[m] + 1 .. n /\ acts[f[j]] = "revert"
            BY <1>1, <1>5, <1>6, <1>7, <2>0, <3>1, <3>2
      <3>4. \A k \in f[m] + 1 .. f[j] - 1 : acts[k] # "fix"
        <4> SUFFICES ASSUME NEW k \in f[m] + 1 .. f[j] - 1, acts[k] = "fix" PROVE FALSE
            OBVIOUS
        <4>1. k \in 1 .. n /\ f[m] < k /\ k < f[j]
              BY <1>1, <1>6, <2>0, <3>2
        <4>2. PICK l \in 1 .. c : f[l] = k
              BY <1>5, <1>8, <4>1
        <4>3. l \in m + 1 .. j - 1
              BY <1>5, <3>2, <4>1, <4>2
        <4>4. did[l] = "fix"
              BY <1>7, <4>2
        <4> QED
            BY <3>1, <4>3, <4>4
      <3> QED
          BY <1>7, <3>3, <3>4 DEF Reverted
    <2>2. ASSUME Reverted(acts, f[m]) PROVE Reverted(did, m)
      <3>1. PICK i \in f[m] + 1 .. n : acts[i] = "revert" /\ \A k \in f[m] + 1 .. i - 1 : acts[k] # "fix"
            BY <1>7, <2>2 DEF Reverted
      <3>2. i \in 1 .. n /\ f[m] < i
            BY <1>1, <2>0
      <3>3. PICK j \in 1 .. c : f[j] = i
            BY <1>5, <1>8, <3>1, <3>2
      <3>4. j \in m + 1 .. c /\ did[j] = "revert"
            BY <1>5, <1>7, <3>1, <3>2, <3>3
      <3>5. \A k \in m + 1 .. j - 1 : did[k] # "fix"
        <4> TAKE k \in m + 1 .. j - 1
        <4>1. k \in 1 .. c /\ m < k /\ k < j
              BY <1>5, <2>0
        <4>2. f[m] < f[k] /\ f[k] < i /\ f[k] \in 1 .. n
              BY <1>5, <1>6, <3>3, <4>1
        <4>3. f[k] \in f[m] + 1 .. i - 1
              BY <2>0, <3>2, <4>2
        <4> QED
            BY <1>7, <3>1, <4>1, <4>3
      <3> QED
          BY <1>7, <3>4, <3>5 DEF Reverted
    <2> QED
        BY <2>1, <2>2
  <1> DEFINE h == [m \in H |-> f[m]]
  <1>11. \A m \in H : m \in 1 .. c /\ h[m] = f[m] /\ h[m] \in G
        BY <1>6, <1>7, <1>9, <1>10
  <1>12. \A i \in G : \E m \in H : h[m] = i
    <2> TAKE i \in G
    <2>1. PICK m \in 1 .. c : f[m] = i
          BY <1>5, <1>9
    <2>2. m \in H
          BY <1>7, <1>9, <1>10, <2>1
    <2> QED
        BY <2>1, <2>2
  <1>13. \A l, m \in H : h[l] = h[m] => l = m
        BY <1>5, <1>11
  <1>14. h \in [H -> G] /\ IsFiniteSet(G)
        BY <1>11, FixPlacesIs, FS_Subset
  <1> HIDE DEF h, G, H
  <1>15. Cardinality(H) = Cardinality(G)
        BY <1>12, <1>13, <1>14, SameCount
  <1> QED
      BY <1>3, <1>15 DEF G, acts

\* The newest of some records is one of them, and none is newer.
LEMMA NewestIs ==
  ASSUME ViewsIInv, Dates, NEW recs, Range(recs) \in SUBSET Range(log),
         NEW x \in Range(recs)
  PROVE  /\ NewestOf(recs) \in Range(recs) /\ x.at <= NewestOf(recs).at
         /\ NewestOf(recs) # Nothing
  <1> DEFINE X == Range(recs)
             q == Sorted(X, Newer(X))
             c == Cardinality(X)
  <1>1. recs # <<>>
        BY DEF Range
  <1>2. NewestOf(recs) = q[1]
        BY <1>1 DEF NewestOf, Latest
  <1>3. X \in SUBSET Range(log)
        OBVIOUS
  <1>4. X \in SUBSET Records /\ \A y \in X : y.at \in Nat
        BY <1>3, DatesOrder, LogIs
  <1> HIDE DEF X
  <1>5. /\ c \in Nat /\ q \in [1 .. c -> X]
        /\ \A y \in X : \E n \in 1 .. c : q[n] = y
        /\ \A i, j \in 1 .. c : i < j => q[i].at > q[j].at
        BY <1>3, ByTimes
  <1> HIDE DEF q, c
  <1>6. PICK n \in 1 .. c : q[n] = x
        BY <1>5 DEF X
  <1>7. 1 \in 1 .. c /\ q[1] \in X
        BY <1>5, <1>6
  <1>8. x.at <= q[1].at
    <2>1. n = 1 \/ 1 < n
          BY <1>5, <1>6
    <2>2. x.at \in Nat /\ q[1].at \in Nat
          BY <1>4, <1>7 DEF X
    <2> QED
        BY <1>5, <1>6, <1>7, <2>1, <2>2
  <1>9. q[1] # Nothing
        BY <1>4, <1>7, ViewsAssumption
  <1> QED
      BY <1>2, <1>7, <1>8, <1>9 DEF X

\* The last Promote that worked is on the page, or a newer one is.
LEMMA PromoteIsShown ==
  ASSUME ViewsIInv, Dates, NEW r \in RepoIds, LastPromote(r) # Nothing
  PROVE  /\ Overview.stages["promote"] = "pass"
         /\ LastPromote(r) <= Overview.rows[r].lastPromote
  <1> DEFINE mine == OfRepo(log, r)
             I == {i \in DOMAIN mine : mine[i].action = "promote" /\ mine[i].ok /\ mine[i].promoted}
             done == Pick(mine, I)
             x == Last(done)
             promotes == {i \in DOMAIN mine : mine[i].action = "promote"}
             all == {i \in DOMAIN log : log[i].action = "promote"}
  <1>1. mine \in Seq(Records) /\ I \in SUBSET (DOMAIN mine) /\ promotes \in SUBSET (DOMAIN mine)
        BY MineIs
  <1>2. Since(r, 0) = mine
        BY SinceAll
  <1>3. LastPromote(r) = IF done = <<>> THEN Nothing ELSE Last(done).at
        BY <1>2 DEF LastPromote, Select
  <1>4. done # <<>> /\ LastPromote(r) = x.at
        BY <1>3
  <1>5. NewestBy(mine, "promote") = NewestOf(Pick(mine, promotes))
        BY DEF NewestBy, Select
  <1>6. NewestBy(log, "promote") = NewestOf(Pick(log, all))
        BY DEF NewestBy, Select
  <1>7. /\ Range(Pick(log, all)) = {log[i] : i \in all}
    <2>1. log \in Seq(Records) /\ all \in SUBSET (DOMAIN log)
          BY LogIs
    <2> HIDE DEF all
    <2> QED
        BY <2>1, RangePick
  <1>8. Range(mine) \in SUBSET Range(log)
        BY MineRange
  <1> HIDE DEF mine
  <1>9. /\ Range(done) = {mine[i] : i \in I}
        /\ Range(Pick(mine, promotes)) = {mine[i] : i \in promotes}
        /\ done \in Seq(Records)
    <2> HIDE DEF I, promotes
    <2> QED
        BY <1>1, RangePick, PickOf
  <1> HIDE DEF done
  <1>10. x \in Range(done)
    <2>1. Len(done) \in Nat /\ DOMAIN done = 1 .. Len(done)
          BY <1>9, SeqIs
    <2>2. Len(done) # 0
          BY <1>4, <1>9
    <2> QED
        BY <2>1, <2>2 DEF Last, Range
  <1> HIDE DEF x
  <1>11. x \in Range(Pick(mine, promotes)) /\ x \in Range(Pick(log, all))
    <2>1. PICK i \in I : x = mine[i]
          BY <1>9, <1>10
    <2>2. x \in Range(Pick(mine, promotes)) /\ x \in Range(mine) /\ x.action = "promote"
          BY <1>9, <2>1 DEF Range
    <2>3. x \in Range(log)
          BY <1>8, <2>2
    <2> QED
        BY <1>7, <2>2, <2>3 DEF Range
  <1>12. /\ Range(Pick(mine, promotes)) \in SUBSET Range(log)
         /\ Range(Pick(log, all)) \in SUBSET Range(log)
    <2>1. Range(Pick(mine, promotes)) \in SUBSET Range(mine)
          BY <1>9 DEF Range
    <2> QED
        BY <1>7, <1>8, <2>1 DEF Range
  <1> HIDE DEF promotes, all
  <1>13. /\ x.at <= NewestBy(mine, "promote").at /\ NewestBy(mine, "promote") # Nothing
         /\ NewestBy(log, "promote") # Nothing
         BY <1>5, <1>6, <1>11, <1>12, NewestIs
  <1>14. Overview.rows[r].lastPromote = NewestBy(mine, "promote").at
    <2>1. Overview.rows[r] = RepoRow(log, r)
          BY DEF Overview
    <2>2. RepoRow(log, r).lastPromote = TimeOf(NewestBy(mine, "promote"))
          BY DEF RepoRow, mine
    <2> QED
        BY <1>13, <2>1, <2>2 DEF TimeOf
  <1>15. Overview.stages["promote"] = "pass"
    <2>1. Overview.stages["promote"] = Stage(log, "promote")
          BY DEF Overview
    <2>2. Stage(log, "promote") = PromoteStage(log)
          BY DEF Stage
    <2> QED
        BY <1>13, <2>1, <2>2 DEF PromoteStage
  <1> QED
      BY <1>4, <1>13, <1>14, <1>15

\* Whatever worked for a repo is an action that the flap guard sees.
LEMMA ActionsSeen ==
  ASSUME ViewsIInv, Dates, NEW r \in RepoIds
  PROVE  Len(ActionsSince(r, 0)) >= KPI(OfRepo(log, r)).fixes + KPI(OfRepo(log, r)).reverts
  <1> DEFINE mine == OfRepo(log, r)
             I == {i \in DOMAIN mine : mine[i].ok}
             done == Pick(mine, I)
             X == Range(mine)
             W == {x \in X : x.ok}
             Fx == DoneOf(X, "fix")
             Rv == DoneOf(X, "revert")
  <1>1. mine \in Seq(Records) /\ I \in SUBSET (DOMAIN mine) /\ Distinct(mine)
        BY MineIs, LogDistinct
  <1>2. ActionsSince(r, 0) = [i \in DOMAIN done |-> done[i].action]
        BY SinceAll DEF ActionsSince, Select
  <1>3. KPI(mine).fixes = Cardinality(Fx) /\ KPI(mine).reverts = Cardinality(Rv)
    <2>1. Range(mine) \in SUBSET Range(log)
          BY MineRange
    <2> HIDE DEF mine
    <2> QED
        BY <2>1, KPIIs
  <1> HIDE DEF mine
  <1>4. Len(ActionsSince(r, 0)) = Cardinality(I)
    <2>1. /\ done \in Seq(Records) /\ Cardinality(I) \in Nat /\ DOMAIN done = 1 .. Cardinality(I)
          /\ done \in [1 .. Cardinality(I) -> Records]
      <3> HIDE DEF I
      <3> QED
          BY <1>1, PickOf, SeqIs
    <2> HIDE DEF done
    <2>2. ActionsSince(r, 0) \in [1 .. Cardinality(I) -> {x.action : x \in Records}]
          BY <1>2, <2>1
    <2> QED
        BY <2>1, <2>2, SeqIs
  <1>5. IsFiniteSet(W) /\ Cardinality(I) = Cardinality(W)
    <2>1. I = Where(mine, W) /\ W \in SUBSET Range(mine)
          BY DEF Where, Range
    <2> HIDE DEF I, W
    <2> QED
        BY <1>1, <2>1, CountIs
  <1>6. Fx \in SUBSET W /\ Rv \in SUBSET W /\ Fx \cap Rv = {}
        BY DEF DoneOf
  <1> HIDE DEF Fx, Rv, W
  <1>7. /\ Cardinality(Fx) \in Nat /\ Cardinality(Rv) \in Nat /\ Cardinality(W) \in Nat
        /\ Cardinality(Fx) + Cardinality(Rv) <= Cardinality(W)
        BY <1>5, <1>6, PartsCount
  <1>8. Len(ActionsSince(r, 0)) >= KPI(mine).fixes + KPI(mine).reverts
        BY <1>3, <1>4, <1>5, <1>7
  <1> QED
      BY <1>8 DEF mine

\* The scores and the pages of a log
LEMMA ScoresHold == ViewsIInv /\ Dates => ScoresAgree
  <1> SUFFICES ASSUME ViewsIInv, Dates PROVE ScoresAgree
      OBVIOUS
  <1> DEFINE total == KPI(log)
             failed(act) == Cardinality({i \in DOMAIN log : log[i].action = act /\ ~log[i].ok})
             names == ProviderNames \cup {Fallback}
             credit == Cardinality(UNION {{p} \X (1 .. Stats(log, p).fixes) : p \in names})
             success == Cardinality(UNION {{p} \X (1 .. Stats(log, p).success) : p \in names})
             page == History(0, MaxRecords)
             overview == Overview
             acts == [i \in DOMAIN log |-> log[i].action]
  <1>1. /\ total.fixes = Cardinality(DoneOf(Range(log), "fix"))
        /\ total.reverts = Cardinality(DoneOf(Range(log), "revert"))
        /\ total.fixes - total.good <= total.reverts
        BY KPIIs
  <1>2. /\ credit = Cardinality(FixPlaces)
        /\ success = Cardinality({i \in FixPlaces : ~Reverted(acts, i)})
        BY Credited
  <1>3. Cardinality(FixPlaces) = Cardinality(DoneOf(Range(log), "fix"))
        BY FixPlacesIs
  <1>4. total.fixes = Cardinality({i \in DOMAIN page : page[i].action = "fix" /\ page[i].ok})
        BY <1>1, FeedAgrees
  <1>5. overview.today.fixes = Count(log, "fix") /\ overview.today.reverts = Count(log, "revert")
        BY DEF Overview, Today
  <1>6. /\ Count(log, "fix") = Cardinality(DoneOf(Range(log), "fix")) + failed("fix")
        /\ Count(log, "revert") = Cardinality(DoneOf(Range(log), "revert")) + failed("revert")
        BY OverviewCounts
  <1>7. (\A x \in Range(log) : x.ok \/ x.action \notin {"fix", "revert"}) /\ InStep(log)
          => success = total.good
        BY <1>2, JudgedAlike
  <1>8. \A r \in RepoIds : LastPromote(r) # Nothing =>
          /\ overview.stages["promote"] = "pass"
          /\ LastPromote(r) <= overview.rows[r].lastPromote
        BY PromoteIsShown
  <1>9. \A r \in RepoIds :
          Len(ActionsSince(r, 0)) >= KPI(OfRepo(log, r)).fixes + KPI(OfRepo(log, r)).reverts
        BY ActionsSeen
  <1> HIDE DEF total, failed, names, credit, success, page, overview
  <1>10. /\ credit = total.fixes
         /\ total.fixes - total.good <= total.reverts
         /\ total.fixes = Cardinality({i \in DOMAIN page : page[i].action = "fix" /\ page[i].ok})
         /\ overview.today.fixes = total.fixes + failed("fix")
         /\ overview.today.reverts = total.reverts + failed("revert")
         BY <1>1, <1>2, <1>3, <1>4, <1>5, <1>6
  <1> QED
      BY <1>7, <1>8, <1>9, <1>10
         DEF ScoresAgree, total, failed, names, credit, success, page, overview

\* Every step keeps the times apart: a stamp is of a new tick, and a record is written
\* as it was stamped.
LEMMA DatesStep ==
  ASSUME ViewsIInv, Dates, [ViewsNext]_viewsVars
  PROVE  Dates'
  <1>0. /\ log \in Seq(Records) /\ Len(log) \in Nat /\ DOMAIN log = 1 .. Len(log) /\ clock \in Nat
        /\ wpc \in [Workers -> {"idle", "dispatching", "stamped"}]
        /\ rec = [w \in Workers |-> rec[w]]
        /\ \A i \in DOMAIN log : log[i].at \in Nat
        /\ \A w \in Workers : wpc[w] # "idle" => rec[w] \in Records /\ rec[w].at \in Nat
    <2>1. \A w \in Workers : wpc[w] # "idle" => rec[w] \in Records
          BY DEF ViewsIInv, ViewsTyped
    <2> QED
        BY <2>1, LogIs DEF ViewsIInv, ViewsTyped, TicksStamped
  <1>1. ASSUME UNCHANGED <<log, clock>>, Stamped' = Stamped, \A w \in Stamped : rec'[w] = rec[w]
        PROVE  Dates'
        BY <1>1 DEF Dates
  <1>2. CASE Open \/ UNCHANGED viewsVars
        BY <1>1, <1>2 DEF Open, viewsVars, Stamped
  <1>3. ASSUME NEW w \in Workers, NEW r \in RepoIds, NEW s \in Signals, BeginDispatch(w, r, s)
        PROVE  Dates'
    <2>1. /\ wpc[w] = "idle" /\ wpc' = [wpc EXCEPT ![w] = "dispatching"]
          /\ UNCHANGED <<log, clock>> /\ \E x : rec' = [rec EXCEPT ![w] = x]
          BY <1>3 DEF BeginDispatch
    <2>2. Stamped' = Stamped /\ w \notin Stamped
          BY <1>0, <2>1 DEF Stamped
    <2>3. \A v \in Stamped : rec'[v] = rec[v]
          BY <1>0, <2>1, <2>2 DEF Stamped
    <2> QED
        BY <1>1, <2>1, <2>2, <2>3
  <1>4. ASSUME NEW w \in Workers, Stamp(w)
        PROVE  Dates'
    <2>1. /\ wpc[w] = "dispatching" /\ wpc' = [wpc EXCEPT ![w] = "stamped"]
          /\ clock' = clock + 1 /\ log' = log
          BY <1>4 DEF Stamp
    <2>2. PICK ok \in BOOLEAN, known \in BOOLEAN :
            rec' = [rec EXCEPT ![w].ok = ok, ![w].at = clock + 1, ![w].promoted = known]
          BY <1>4 DEF Stamp, Statuses
    <2>3. Stamped' = Stamped \cup {w} /\ w \notin Stamped
          BY <1>0, <2>1 DEF Stamped
    <2>4. rec'[w].at = clock + 1 /\ \A v \in Stamped : rec'[v] = rec[v]
      <3>1. rec[w] \in Records
            BY <1>0, <2>1
      <3> QED
          BY <1>0, <2>2, <2>3, <3>1 DEF Stamped, Records
    <2>5. \A v \in Stamped : rec[v].at \in Nat
          BY <1>0 DEF Stamped
    <2>6. /\ \A v \in Stamped' : rec'[v].at <= clock' /\ \A i \in DOMAIN log : log[i].at # rec'[v].at
          /\ \A v, x \in Stamped' : rec'[v].at = rec'[x].at => v = x
      <3>1. /\ \A v \in Stamped : rec[v].at <= clock /\ \A i \in DOMAIN log : log[i].at # rec[v].at
            /\ \A v, x \in Stamped : rec[v].at = rec[x].at => v = x
            /\ \A i \in DOMAIN log : log[i].at <= clock
            BY DEF Dates
      <3>2. \A v \in Stamped' :
              \/ v = w /\ rec'[v].at = clock + 1
              \/ v \in Stamped /\ rec'[v].at = rec[v].at
            BY <2>3, <2>4
      <3>a. clock \in Nat /\ clock' = clock + 1
            BY <1>0, <2>1
      <3>b. \A i \in DOMAIN log : log[i].at \in Nat /\ log[i].at < clock + 1
            BY <1>0, <3>1
      <3>c. \A v \in Stamped : rec[v].at < clock + 1 /\ rec[v].at # clock + 1
            BY <2>5, <3>1, <3>a
      <3>3. \A v \in Stamped' : rec'[v].at <= clock'
            BY <2>5, <3>2, <3>a, <3>c
      <3>4. \A v \in Stamped' : \A i \in DOMAIN log : log[i].at # rec'[v].at
            BY <3>1, <3>2, <3>a, <3>b
      <3>5. \A v, x \in Stamped' : rec'[v].at = rec'[x].at => v = x
            BY <3>1, <3>2, <3>c
      <3> QED
          BY <3>3, <3>4, <3>5
    <2>7. \A i \in DOMAIN log : log[i].at <= clock'
          BY <1>0, <2>1 DEF Dates
    <2> QED
        BY <2>1, <2>6, <2>7 DEF Dates
  <1>5. ASSUME NEW w \in Workers, Write(w)
        PROVE  Dates'
    <2>1. /\ wpc[w] = "stamped" /\ wpc' = [wpc EXCEPT ![w] = "idle"]
          /\ log' = Append(log, rec[w]) /\ rec' = [rec EXCEPT ![w] = Nothing]
          /\ clock' = clock
          BY <1>5 DEF Write
    <2>2. rec[w] \in Records
          BY <1>0, <2>1
    <2>3. /\ Len(log') = Len(log) + 1 /\ DOMAIN log' = 1 .. Len(log) + 1
          /\ log'[Len(log) + 1] = rec[w] /\ \A i \in DOMAIN log : log'[i] = log[i]
          BY <1>0, <2>1, <2>2, AppendProperties
    <2>4. DOMAIN log' = DOMAIN log \cup {Len(log) + 1} /\ Len(log) + 1 \notin DOMAIN log
          BY <1>0, <2>3
    <2>5. Stamped' = Stamped \ {w} /\ w \in Stamped
          BY <1>0, <2>1 DEF Stamped
    <2>6. \A v \in Stamped' : rec'[v] = rec[v] /\ v # w /\ v \in Stamped
          BY <1>0, <2>1, <2>5 DEF Stamped
    <2>7. /\ rec[w].at <= clock /\ \A i \in DOMAIN log : log[i].at # rec[w].at
          /\ \A v \in Stamped' : rec[v].at # rec[w].at
          BY <2>5, <2>6 DEF Dates
    <2>8. \A i, j \in DOMAIN log' : log'[i].at = log'[j].at => i = j
      <3>1. \A i, j \in DOMAIN log : log[i].at = log[j].at => i = j
            BY DEF Dates
      <3>2. \A i \in DOMAIN log' :
              \/ i \in DOMAIN log /\ log'[i] = log[i]
              \/ i = Len(log) + 1 /\ log'[i] = rec[w]
            BY <2>3, <2>4
      <3> QED
          BY <2>7, <3>1, <3>2
    <2>9. \A i \in DOMAIN log' : log'[i].at <= clock
      <3>1. \A i \in DOMAIN log : log[i].at <= clock
            BY DEF Dates
      <3>2. rec[w].at <= clock
            BY <2>7
      <3> SUFFICES ASSUME NEW i \in DOMAIN log' PROVE log'[i].at <= clock
          OBVIOUS
      <3>3. i \in DOMAIN log => log'[i] = log[i] /\ log[i].at <= clock
            BY <2>3, <3>1
      <3>4. i \notin DOMAIN log => log'[i] = rec[w]
            BY <2>3, <2>4
      <3> QED
          BY <3>2, <3>3, <3>4
    <2>10. \A v \in Stamped' : rec'[v].at <= clock /\ \A i \in DOMAIN log' : log'[i].at # rec'[v].at
      <3>1. \A v \in Stamped : rec[v].at <= clock /\ \A i \in DOMAIN log : log[i].at # rec[v].at
            BY DEF Dates
      <3> SUFFICES ASSUME NEW v \in Stamped'
                   PROVE  rec'[v].at <= clock /\ \A i \in DOMAIN log' : log'[i].at # rec'[v].at
          OBVIOUS
      <3>2. /\ rec'[v].at = rec[v].at /\ rec[v].at <= clock /\ rec[v].at # rec[w].at
            /\ \A i \in DOMAIN log : log[i].at # rec[v].at
            BY <2>6, <2>7, <3>1
      <3>3. \A i \in DOMAIN log' : log'[i].at # rec[v].at
            BY <2>3, <2>4, <3>2
      <3> QED
          BY <3>2, <3>3
    <2>11. \A v, x \in Stamped' : rec'[v].at = rec'[x].at => v = x
           BY <2>6 DEF Dates
    <2> QED
        BY <2>1, <2>8, <2>9, <2>10, <2>11 DEF Dates
  <1> QED
      BY <1>2, <1>3, <1>4, <1>5 DEF ViewsNext

\* No two records are ever of one time, whatever the order they are written in.
LEMMA DatesInvariance == ViewsSpec => [](ViewsIInv /\ Dates)
  <1>1. ViewsInit => Dates
    <2> SUFFICES ASSUME ViewsInit PROVE Dates
        OBVIOUS
    <2>1. Stamped = {} /\ clock = 0
          BY DEF ViewsInit, Stamped
    <2>2. /\ \A i \in DOMAIN log : i = 1 /\ log[i].at = 0
      <3>1. CASE log = <<>>
        <4>1. DOMAIN log = {}
              BY <3>1
        <4> QED
            BY <4>1
      <3>2. CASE log = <<Earlier>>
            BY <3>2 DEF Earlier
      <3> QED
          BY <3>1, <3>2 DEF ViewsInit
    <2> QED
        BY <2>1, <2>2 DEF Dates
  <1>2. ViewsIInv /\ Dates /\ [ViewsNext]_viewsVars => (ViewsIInv /\ Dates)'
        BY ViewsStep, DatesStep
  <1> QED
      BY <1>1, <1>2, ViewsInitially, PTL DEF ViewsSpec

-----------------------------------------------------------------------------
(* Policy and log together *)

\* A behaviour of the composition is one of each part: what is proved of a part holds of
\* the runs.
LEMMA FleetParts == AllSpec => Spec /\ ViewsSpec
  <1>1. AllInit => Init /\ ViewsInit
        BY DEF AllInit
  <1>2. [AllNext]_allVars => [Next]_vars /\ [ViewsNext]_viewsVars
        BY DEF AllNext, allVars
  <1> QED
      BY <1>1, <1>2, PTL DEF AllSpec, Spec, ViewsSpec

\* Flags and marks keep to the repos, and records and index to what Append writes.
THEOREM FleetTypesCorrect == AllSpec => []TypesOK
  <1>1. IInv /\ ViewsTypeOK => TypesOK
        BY DEF IInv, TypesOK
  <1> QED
      BY <1>1, FleetParts, Invariance, ViewsTypes, PTL

\* Whatever database is opened and whoever appends, the index answers as a scan of the
\* log would, a page shows of a repo what the overview and the history show, and the
\* scores of pages and router count the same log alike (Recent, Since, buildRepos,
\* buildKPIs, StatsFromRecords).
THEOREM ViewsAlwaysAgree == AllSpec => []ViewsAgree
  <1>1. ViewsIInv /\ Dates => ViewsAgree
        BY LookupsHold, ScoresHold DEF ViewsAgree
  <1> QED
      BY <1>1, FleetParts, DatesInvariance, PTL
=============================================================================
