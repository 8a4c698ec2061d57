------------------------------- MODULE Fleet -------------------------------
(***************************************************************************)
(* Fleet policy.  One worker per repo runs Orchestrator.handle; what they  *)
(* share is the breach flags (breachMu) and the patient-zero marks (pzMu). *)
(* suppressReason reads the flags twice, under the lock each time but not  *)
(* in between, and the marks are written when handle is about to return,   *)
(* after the audit row, so every other worker's verdicts interleave.       *)
(* The commit checks of a Fix are in FixLadder, the git side of Promote    *)
(* and Revert in Release; here an action succeeds or fails.                *)
(***************************************************************************)
EXTENDS Naturals, Sequences, FiniteSets

CONSTANTS
  Repos,       \* configured repositories
  Deps,        \* Deps[r]: r's depends_on
  Trip,        \* breaching repos that open the circuit; 0: no circuit breaker
  FlapMax,     \* FleetPolicy.FlapMaxCycles; 0: no flap guard
  PatientZero, \* FleetPolicy.PatientZero
  Gates,       \* Gates[r]: the verdicts r's gates, or operators, can bring
  Pins,        \* repos with promote pins
  MaxActions   \* bound of the model: successful actions of r in one flap window

\* The verdicts a signal can bring: of prod-health, of the dev gate and of CI
Verdicts == {"breach", "recovered", "blocked", "gate pass", "fail"}

ASSUME FleetAssumption ==
  /\ IsFiniteSet(Repos)
  /\ Deps \in [Repos -> SUBSET Repos]
  /\ Trip \in Nat /\ FlapMax \in Nat
  /\ MaxActions \in [Repos -> Nat]
  /\ PatientZero \in BOOLEAN
  /\ Gates \in [Repos -> SUBSET Verdicts]
  /\ Pins \subseteq Repos

VARIABLES
  breach,   \* Orchestrator.breach: repos whose flag is set
  fired,    \* Orchestrator.patientZeroFired
  queued,   \* upstreams with a patient-zero signal on its way to their worker
  recent,   \* recent[r]: r's successful actions in the flap window, in order
  pc,       \* pc[r]: where r's worker is in handle
  would,    \* would[r]: the action Decide chose
  ups,      \* ups[r]: upstreams suppressReason named and not yet offered a Fix
  marked,   \* marked[r]: the upstream r's worker has marked and not yet sent to
  standing, \* history: repos in breach since r's handle began, until it acts
  meant,    \* history: repos a patient-zero Fix was meant for this episode ...
  again,    \* history: ... and those it was meant for more than once
  blind,    \* history: repos acted on with the audit trail unreadable
  dropped   \* history: repos a patient-zero signal was ever dropped for

worker == <<pc, would, ups, marked>>
vars == <<breach, fired, queued, recent, worker, standing, meant, again, blind, dropped>>

Actions == {"fix", "revert", "promote", "noop"}
Nobody == {}

TypeOK ==
  /\ breach \subseteq Repos /\ fired \subseteq Repos /\ queued \subseteq Repos
  /\ recent \in [Repos -> Seq({"fix", "revert"})]
  /\ pc \in [Repos -> {"idle", "circuit", "deps", "act", "offer", "send"}]
  /\ would \in [Repos -> Actions]
  /\ ups \in [Repos -> SUBSET Repos] /\ marked \in [Repos -> SUBSET Repos]
  /\ standing \in [Repos -> SUBSET Repos]
  /\ meant \subseteq Repos /\ again \subseteq meant
  /\ blind \subseteq Repos /\ dropped \subseteq Repos

Init ==
  /\ breach = {} /\ fired = {} /\ queued = {}
  /\ recent = [r \in Repos |-> <<>>]
  /\ pc = [r \in Repos |-> "idle"]
  /\ would = [r \in Repos |-> "noop"]
  /\ ups = [r \in Repos |-> {}] /\ marked = [r \in Repos |-> Nobody]
  /\ standing = [r \in Repos |-> {}]
  /\ meant = {} /\ again = {} /\ blind = {} /\ dropped = {}

-----------------------------------------------------------------------------
(* Taking a signal: updateBreach and Decide *)

Decide(v) ==
  CASE v = "breach" -> "revert"
    [] v = "gate pass" -> "promote"
    [] v = "fail" -> "fix"
    [] OTHER -> "noop"

\* Mutant of UpdateBreach: a check that could not run clears the flag.
UpdateBreachBlocked(r, v) ==
  /\ breach' = CASE v = "breach" -> breach \cup {r}
                 [] v \in {"recovered", "blocked"} -> breach \ {r}
                 [] OTHER -> breach
  /\ fired' = IF v = "recovered" THEN fired \ {r} ELSE fired

\* Mutant of UpdateBreach: a breach re-arms patient-zero.
UpdateBreachRearms(r, v) ==
  /\ breach' = CASE v = "breach" -> breach \cup {r}
                 [] v = "recovered" -> breach \ {r}
                 [] OTHER -> breach
  /\ fired' = IF v \in {"recovered", "breach"} THEN fired \ {r} ELSE fired

\* A breach raises the flag, a pass clears it and the mark, under one lock;
\* a gate that could not run does neither.
UpdateBreach(r, v) ==
  /\ breach' = CASE v = "breach" -> breach \cup {r}
                 [] v = "recovered" -> breach \ {r}
                 [] OTHER -> breach
  /\ fired' = IF v = "recovered" THEN fired \ {r} ELSE fired

\* The worker's next signal: patient-zero's Fix for it, or any gate's verdict.
Start(r, v) ==
  /\ pc[r] = "idle"
  /\ UpdateBreach(r, v)
  /\ would' = [would EXCEPT ![r] = Decide(v)]
  /\ pc' = [pc EXCEPT ![r] = IF Decide(v) = "noop" THEN "idle" ELSE "circuit"]
  /\ standing' = [x \in Repos |->
       IF x = r THEN {d \in Repos : d \in breach'} ELSE
       IF v = "recovered" THEN standing[x] \ {r} ELSE standing[x]]
  /\ LET over == {x \in {r} : v = "recovered" \/ (v = "breach" /\ r \notin breach)}
     IN  meant' = meant \ over /\ again' = again \ over
  /\ UNCHANGED <<recent, ups, marked, blind, dropped>>

TakeSignal(r, v) == Start(r, v) /\ UNCHANGED queued

TakePatientZero(r) ==
  /\ r \in queued
  /\ Start(r, "fail")
  /\ queued' = queued \ {r}

\* A newer CI signal of r supersedes it in the worker's channel.
Superseded(r) ==
  /\ r \in queued
  /\ queued' = queued \ {r}
  /\ UNCHANGED <<breach, fired, recent, worker, standing, meant, again, blind, dropped>>

-----------------------------------------------------------------------------
(* suppressReason *)

\* Mutant of CircuitOpen: one repo too late.
CircuitOpenLate == Trip > 0 /\ Cardinality(breach) > Trip

CircuitOpen == Trip > 0 /\ Cardinality(breach) >= Trip

BreachingDeps(r) == Deps[r] \cap breach

\* The positions at which s alternates between fix and revert
Transitions(s) == {i \in 2 .. Len(s) : s[i] # s[i - 1]}

\* Mutant of Flapping: the limit is off by one.
FlappingLate(r) == FlapMax > 0 /\ Cardinality(Transitions(recent[r])) > FlapMax

Flapping(r) == FlapMax > 0 /\ Cardinality(Transitions(recent[r])) >= FlapMax

Idle(r) ==
  /\ pc' = [pc EXCEPT ![r] = "idle"]
  /\ would' = [would EXCEPT ![r] = "noop"]
  /\ standing' = [standing EXCEPT ![r] = {}]

\* A Fix whose evidence smells structural is not worth an agent.
SuppressStructural(r) ==
  /\ pc[r] = "circuit"
  /\ would[r] = "fix"
  /\ Idle(r)
  /\ UNCHANGED <<breach, fired, queued, recent, ups, marked, meant, again, blind, dropped>>

\* The first read of the flags: breachCount.
CheckCircuit(r) ==
  /\ pc[r] = "circuit"
  /\ \/ /\ CircuitOpen
        /\ Idle(r)
     \/ /\ ~CircuitOpen
        /\ pc' = [pc EXCEPT ![r] = "deps"]
        /\ UNCHANGED <<would, standing>>
  /\ UNCHANGED <<breach, fired, queued, recent, ups, marked, meant, again, blind, dropped>>

\* The second: breachingDeps.  A Revert gives way to its root cause, and
\* handle will offer the upstreams a Fix; a Promote waits for them.
SuppressUpstream(r) ==
  /\ pc[r] = "deps"
  /\ would[r] \in {"revert", "promote"}
  /\ BreachingDeps(r) # {}
  /\ IF would[r] = "revert" /\ PatientZero
     THEN /\ ups' = [ups EXCEPT ![r] = BreachingDeps(r)]
          /\ pc' = [pc EXCEPT ![r] = "offer"]
          /\ standing' = [standing EXCEPT ![r] = {}]
          /\ UNCHANGED would
     ELSE /\ Idle(r)
          /\ UNCHANGED ups
  /\ UNCHANGED <<breach, fired, queued, recent, marked, meant, again, blind, dropped>>

\* A dependency's prod tag is below its pin, or cannot be read.
SuppressPin(r) ==
  /\ pc[r] = "deps"
  /\ would[r] = "promote"
  /\ r \in Pins
  /\ BreachingDeps(r) = {}
  /\ Idle(r)
  /\ UNCHANGED <<breach, fired, queued, recent, ups, marked, meant, again, blind, dropped>>

SuppressFlap(r) ==
  /\ pc[r] = "deps"
  /\ would[r] = "fix" \/ (would[r] = "revert" /\ BreachingDeps(r) = {})
  /\ Flapping(r)
  /\ Idle(r)
  /\ UNCHANGED <<breach, fired, queued, recent, ups, marked, meant, again, blind, dropped>>

\* No reason is found: the action is dispatched.  If the audit trail cannot be
\* read the flap guard is passed over.
Dispatch(r) ==
  /\ pc[r] = "deps"
  /\ would[r] # "fix" => BreachingDeps(r) = {}
  /\ blind' = blind \cup {x \in {r} : would[r] # "promote" /\ Flapping(r)}
  /\ pc' = [pc EXCEPT ![r] = "act"]
  /\ standing' = [standing EXCEPT ![r] = {}]
  /\ UNCHANGED <<breach, fired, queued, recent, would, ups, marked,
                 meant, again, dropped>>

\* Mutant of Record: flapTransitions passes over nothing.
RecordAll(r, ok) ==
  /\ pc[r] = "act"
  /\ Len(recent[r]) < MaxActions[r]
  /\ recent' = [recent EXCEPT ![r] = Append(@, IF ok THEN would[r] ELSE "noop")]
  /\ Idle(r)
  /\ UNCHANGED <<breach, fired, queued, ups, marked, meant, again, blind, dropped>>

\* The action ends and the audit row is written.  ActionsSince returns the
\* successful ones and flapTransitions passes over promotes; a Fix that was
\* skipped, rerun or refused is recorded as another action.
Record(r, ok) ==
  /\ pc[r] = "act"
  /\ IF ok /\ would[r] # "promote"
     THEN /\ Len(recent[r]) < MaxActions[r]
          /\ recent' = [recent EXCEPT ![r] = Append(@, would[r])]
     ELSE UNCHANGED recent
  /\ Idle(r)
  /\ UNCHANGED <<breach, fired, queued, ups, marked, meant, again, blind, dropped>>

\* The oldest action leaves FlapWindow.
Expire(r) ==
  /\ recent[r] # <<>>
  /\ recent' = [recent EXCEPT ![r] = Tail(@)]
  /\ UNCHANGED <<breach, fired, queued, worker, standing, meant, again, blind, dropped>>

-----------------------------------------------------------------------------
(* enqueuePatientZero *)

\* markPatientZero: an upstream that is marked already is passed over.
Mark(r) ==
  /\ pc[r] = "offer"
  /\ \E u \in ups[r] :
       /\ ups' = [ups EXCEPT ![r] = @ \ {u}]
       /\ IF u \in fired
          THEN UNCHANGED <<fired, marked, pc, meant, again>>
          ELSE /\ fired' = fired \cup {u}
               /\ meant' = meant \cup {u}
               /\ again' = again \cup (meant \cap {u})
               /\ marked' = [marked EXCEPT ![r] = {u}]
               /\ pc' = [pc EXCEPT ![r] = "send"]
  /\ UNCHANGED <<breach, queued, recent, would, standing, blind, dropped>>

\* The select on Signals: sent, or ...
Send(r) ==
  /\ pc[r] = "send"
  /\ queued' = queued \cup marked[r]
  /\ marked' = [marked EXCEPT ![r] = Nobody]
  /\ pc' = [pc EXCEPT ![r] = "offer"]
  /\ UNCHANGED <<breach, fired, recent, would, ups, standing, meant, again, blind, dropped>>

\* ... dropped because Signals is full, and unmarked.
Drop(r) ==
  /\ pc[r] = "send"
  /\ fired' = fired \ marked[r]
  /\ dropped' = dropped \cup marked[r]
  /\ marked' = [marked EXCEPT ![r] = Nobody]
  /\ pc' = [pc EXCEPT ![r] = "offer"]
  /\ UNCHANGED <<breach, queued, recent, would, ups, standing, meant, again, blind>>

Offered(r) ==
  /\ pc[r] = "offer"
  /\ ups[r] = {}
  /\ Idle(r)
  /\ UNCHANGED <<breach, fired, queued, recent, ups, marked, meant, again, blind, dropped>>

-----------------------------------------------------------------------------
Next == \E r \in Repos :
  \/ \E v \in Gates[r] : TakeSignal(r, v)
  \/ TakePatientZero(r) \/ Superseded(r)
  \/ SuppressStructural(r) \/ CheckCircuit(r)
  \/ SuppressUpstream(r) \/ SuppressPin(r) \/ SuppressFlap(r)
  \/ Dispatch(r) \/ Expire(r)
  \/ \E ok \in BOOLEAN : Record(r, ok)
  \/ Mark(r) \/ Send(r) \/ Drop(r) \/ Offered(r)

Spec == Init /\ [][Next]_vars

-----------------------------------------------------------------------------
(* Safety properties *)

Dispatches(r) == pc[r] = "deps" /\ pc'[r] = "act"

\* While an upstream of a repo stays in breach - as it has ever since handle took the
\* signal, whatever gates could not run meanwhile - the repo is neither rolled back nor
\* promoted, and while as many repos as open the circuit do, nothing is done to any.
BreachesHold ==
  [][\A r \in Repos : Dispatches(r) =>
       /\ would[r] # "fix" => standing[r] \cap Deps[r] = {}
       /\ Trip > 0 => Cardinality(standing[r]) < Trip]_vars

\* Fixes and Reverts of one repo alternate no more than FlapMax times in a
\* window, however they are asked for, as long as the trail can be read.
FlapBounded ==
  FlapMax > 0 => \A r \in Repos \ blind : Cardinality(Transitions(recent[r])) <= FlapMax

\* However many leaves suffer from it and however often they say so, an
\* upstream gets one patient-zero Fix per breach episode, unless one was dropped
\* on a full channel.
PatientZeroOnce == again \subseteq dropped

\* What is done for one and the same trouble has an end: a repo does not go back and
\* forth, and its upstream is not fixed once for each leaf that suffers.
TroubleIsBounded == FlapBounded /\ PatientZeroOnce
=============================================================================
