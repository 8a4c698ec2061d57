-------------------------------- MODULE Intake --------------------------------
(***************************************************************************)
(* The door of the webhook server: the rate limiter that its routes share, *)
(* and GitHub's route from the request to the signal.  GitHub delivers a   *)
(* workflow_run under an id, gives up waiting for the answer, and delivers *)
(* again under the same id; every request is served in a goroutine of its  *)
(* own.  The ids are kept in memory: dedupe.seen, and dedupe.order for     *)
(* their eviction.  What the other routes do past the door is in Gates.    *)
(***************************************************************************)
EXTENDS Integers, Sequences, FiniteSets, Functions

CONSTANTS
  Deliveries,  \* GitHub's delivery ids; NoId of a delivery that has none
  NoId,
  Payload,     \* Payload[d]: what the delivery says (see Bodies)
  Branch,      \* Branch[r]: the tracked branch of the configured repo r
  Secret,      \* server.github_webhook_secret_env's value, "" if it is not set
  RequireSecret, \* server.require_webhook_secret
  CIWorkflows, \* gates.ci.workflows
  Handlers,    \* requests that can be in flight at once
  QueueCap,    \* capacity of Orchestrator.Signals
  DedupeMax,   \* 4096
  TTL,         \* 30 minutes
  Rate, Burst, \* server.webhook_rate_per_sec and _burst
  LastMoment,  \* bound of the model
  MaxStarts    \* bound of the model: restarts of the daemon

VARIABLES
  moment,    \* the clock
  queued,    \* Orchestrator.Signals: the deliveries whose signals are in it
  tokens,    \* Limiter.tokens
  refilled,  \* Limiter.last
  seen,      \* dedupe.seen
  order,     \* dedupe.order
  hpc, hid,  \* hpc[h], hid[h]: where the request is that h serves, and its id
  starts,    \* restarts so far
  passes,    \* history: passes[t] requests the limiter has let pass up to time t
  accepted,  \* history: when the id was last taken as a new one, in this process
  crowded,   \* history: ids that may have been evicted since, the set at its limit
  answered,  \* history: ids answered 200 or 202 in this process
  emitted    \* history: ids whose signals this process has sent

limiter == <<tokens, refilled>>
dedupe == <<seen, order>>
requests == <<hpc, hid>>
intakeHist == <<passes, accepted, crowded, answered, emitted>>
intakeVars == <<moment, queued, limiter, dedupe, requests, starts, intakeHist>>

Ids == Deliveries \ {NoId}
Empty == [x \in {} |-> 0]

\* A workflow run, as far as the handler looks at it: its repo by the full name, whether
\* it ran code of the repo itself, and the names the workflow may be listed by
Bodies ==
  [event : {"workflow_run", "ping"}, action : {"completed", "requested"},
   own : BOOLEAN, trigger : {"push", "pull_request"}, hex : BOOLEAN,
   repo : DOMAIN Branch \cup {"unknown"}, branch : STRING, workflow : SUBSET STRING]

\* A delivery may have no id, and a set of ids has room for one.
ASSUME IntakeAssumption ==
  /\ NoId \in Deliveries /\ \A d \in Deliveries : Payload[d] \in Bodies
  /\ QueueCap \in Nat /\ DedupeMax \in Nat \ {0} /\ TTL \in Nat /\ Rate \in Nat /\ Burst \in Nat
  /\ LastMoment \in Nat /\ MaxStarts \in Nat

-----------------------------------------------------------------------------
(* The limiter *)

Least(a, b) == IF a < b THEN a ELSE b

\* Mutant of Refill: the tokens of a quiet time are all kept.
RefillAll == tokens + (moment - refilled) * Rate

\* refill
Refill == Least(tokens + (moment - refilled) * Rate, Burst)

\* Allow
Allowed ==
  /\ Refill >= 1
  /\ tokens' = Refill - 1 /\ refilled' = moment
  /\ passes' = [t \in 0 .. LastMoment |-> IF t >= moment THEN passes[t] + 1 ELSE passes[t]]

Refused == Refill < 1 /\ tokens' = Refill /\ refilled' = moment /\ UNCHANGED passes

-----------------------------------------------------------------------------
(* dedupe *)

Live(d) == d \in DOMAIN seen /\ moment - seen[d] < TTL

\* The oldest ids that are evicted for a new one: every expired one, and one more
\* when the set is at its limit.
Evicted ==
  LET kept(n) == n = Len(order) \/ (Live(order[n + 1]) /\ Cardinality(DOMAIN seen) - n < DedupeMax)
      n == CHOOSE n \in 0 .. Len(order) : kept(n) /\ \A m \in 0 .. n - 1 : ~kept(m)
  IN  [ids |-> {order[i] : i \in 1 .. n}, rest |-> SubSeq(order, n + 1, Len(order))]

\* Mutant of Record: an expired id that comes again keeps the time it had.
RecordStale(d) ==
  IF d \in DOMAIN seen THEN UNCHANGED dedupe
  ELSE /\ seen' = [x \in (DOMAIN seen \ Evicted.ids) \cup {d} |-> IF x = d THEN moment ELSE seen[x]]
       /\ order' = Append(Evicted.rest, d)

\* seenBefore of an id that is not live.  An expired one is refreshed where it is in
\* the order: it may be the next one to go.
Record(d) ==
  IF d \in DOMAIN seen THEN seen' = [seen EXCEPT ![d] = moment] /\ UNCHANGED order
  ELSE /\ seen' = [x \in (DOMAIN seen \ Evicted.ids) \cup {d} |-> IF x = d THEN moment ELSE seen[x]]
       /\ order' = Append(Evicted.rest, d)

-----------------------------------------------------------------------------
(* What is rejected *)

\* matchCIWorkflow
MatchCIWorkflow(names) == CIWorkflows = {} \/ names \cap CIWorkflows # {}

\* The answer to a completed run, from handleGitHub's filters; 202 is for a signal.
Status(p) ==
  IF p.action # "completed" \/ ~p.own \/ p.trigger # "push" THEN 204
  ELSE IF ~p.hex THEN 400
  ELSE IF p.repo \notin DOMAIN Branch THEN 204
  ELSE IF p.branch # Branch[p.repo] \/ ~MatchCIWorkflow(p.workflow) THEN 204 ELSE 202

Wanted(d) == Status(Payload[d]) = 202

\* checkSharedSecret, and handleGitHub's check of the signature: what is asked is the
\* secret that is set, and where none is set a request is refused if one is required.
Trusted(given) == IF Secret # "" THEN given = Secret ELSE ~RequireSecret

-----------------------------------------------------------------------------
(* The steps *)

IntakeTypeOK ==
  /\ moment \in 0 .. LastMoment /\ starts \in 0 .. MaxStarts
  /\ queued \in Seq(Deliveries) /\ Len(queued) <= QueueCap
  /\ tokens \in 0 .. Burst /\ refilled \in 0 .. moment
  /\ DOMAIN seen \subseteq Ids /\ (\A d \in DOMAIN seen : seen[d] \in 0 .. moment)
  /\ order \in Seq(Ids) /\ IsInjective(order) /\ Range(order) = DOMAIN seen
  /\ Len(order) <= DedupeMax
  /\ hpc \in [Handlers -> {"idle", "read", "emit"}] /\ hid \in [Handlers -> Deliveries]
  /\ passes \in [0 .. LastMoment -> Nat] /\ accepted \in [Ids -> -1 .. moment]
  /\ crowded \subseteq Ids /\ answered \subseteq Ids /\ emitted \subseteq Ids

IntakeInit ==
  /\ moment = 0 /\ starts = 0 /\ queued = <<>>
  /\ tokens = Burst /\ refilled = 0
  /\ seen = Empty /\ order = <<>>
  /\ hpc = [h \in Handlers |-> "idle"] /\ hid = [h \in Handlers |-> NoId]
  /\ passes = [t \in 0 .. LastMoment |-> 0] /\ accepted = [d \in Ids |-> -1]
  /\ crowded = {} /\ answered = {} /\ emitted = {}

TickIntake ==
  /\ moment < LastMoment
  /\ moment' = moment + 1
  /\ UNCHANGED <<queued, limiter, dedupe, requests, starts, intakeHist>>

\* A request of GitHub's comes: the first one of a delivery, or another of it.
Receive(h, d) ==
  /\ hpc[h] = "idle"
  /\ \/ /\ Allowed
        /\ hpc' = [hpc EXCEPT ![h] = "read"] /\ hid' = [hid EXCEPT ![h] = d]
     \/ Refused /\ UNCHANGED requests
  /\ UNCHANGED <<moment, queued, dedupe, starts, accepted, crowded, answered, emitted>>

\* A request of another route, which takes from the same tokens
ReceiveOther ==
  /\ Allowed \/ Refused
  /\ UNCHANGED <<moment, queued, dedupe, requests, starts, accepted, crowded, answered, emitted>>

Done(h) == hpc' = [hpc EXCEPT ![h] = "idle"] /\ hid' = [hid EXCEPT ![h] = NoId]

\* It is read, trusted, and tells of a workflow run.
Heard(h) ==
  /\ hpc[h] = "read"
  /\ \E given \in {Secret, "other"} : Trusted(given)
  /\ Payload[hid[h]].event = "workflow_run"

\* The body is too large or breaks off, is not signed as it should be, or tells of
\* something else: the id is not looked at.
Reject(h) ==
  /\ hpc[h] = "read"
  /\ Done(h)
  /\ UNCHANGED <<moment, queued, limiter, dedupe, starts, intakeHist>>

Seen(h) ==
  /\ Heard(h) /\ Live(hid[h])
  /\ answered' = answered \cup {hid[h]}
  /\ Done(h)
  /\ UNCHANGED <<moment, queued, limiter, dedupe, starts, passes, accepted, crowded, emitted>>

\* A new id is recorded before anything else is known of the run.
TakeID(h) ==
  LET d == hid[h] IN
  /\ Heard(h) /\ ~Live(d)
  /\ IF d = NoId THEN UNCHANGED <<dedupe, accepted, crowded>>
     ELSE /\ Record(d)
          /\ accepted' = [accepted EXCEPT ![d] = moment]
          /\ crowded' = (IF d \notin DOMAIN seen /\ Cardinality(DOMAIN seen) = DedupeMax
                         THEN Ids ELSE crowded) \ {d}
  /\ IF Wanted(d) THEN hpc' = [hpc EXCEPT ![h] = "emit"] /\ UNCHANGED hid ELSE Done(h)
  /\ UNCHANGED <<moment, queued, limiter, starts, passes, answered, emitted>>

\* Mutant of Enqueue: what does not fit is dropped.
EnqueueOrDrop(d) == queued' = IF Len(queued) < QueueCap THEN Append(queued, d) ELSE queued

\* s.Signals <- sig, which waits for room
Enqueue(d) == Len(queued) < QueueCap /\ queued' = Append(queued, d)

EmitRun(h) ==
  LET d == hid[h] IN
  /\ hpc[h] = "emit"
  /\ Enqueue(d)
  /\ emitted' = (IF queued' = queued THEN emitted ELSE emitted \cup {d}) \ {NoId}
  /\ answered' = (answered \cup {d}) \ {NoId}
  /\ Done(h)
  /\ UNCHANGED <<moment, limiter, dedupe, starts, passes, accepted, crowded>>

\* The orchestrator takes a signal.
Deliver ==
  /\ queued # <<>>
  /\ queued' = Tail(queued)
  /\ UNCHANGED <<moment, limiter, dedupe, requests, starts, intakeHist>>

\* The daemon stops, or dies, and starts: all of it was in memory.
RestartServer ==
  /\ starts < MaxStarts
  /\ starts' = starts + 1
  /\ queued' = <<>> /\ seen' = Empty /\ order' = <<>>
  /\ tokens' = Burst /\ refilled' = moment
  /\ hpc' = [h \in Handlers |-> "idle"] /\ hid' = [h \in Handlers |-> NoId]
  /\ passes' = [t \in 0 .. LastMoment |-> 0] /\ accepted' = [d \in Ids |-> -1]
  /\ crowded' = {} /\ answered' = {} /\ emitted' = {}
  /\ UNCHANGED moment

IntakeNext ==
  \/ TickIntake \/ ReceiveOther \/ Deliver \/ RestartServer
  \/ \E h \in Handlers :
       \/ Reject(h) \/ Seen(h) \/ TakeID(h) \/ EmitRun(h)
       \/ \E d \in Deliveries : Receive(h, d)

IntakeSpec == IntakeInit /\ [][IntakeNext]_intakeVars

-----------------------------------------------------------------------------
(* Properties *)

\* A delivery that comes again is not acted on again for TTL, unless the daemon has
\* restarted or so many other ids have come that the set was at its limit.
TakenOnce ==
  [][ \A d \in Ids : accepted[d] >= 0 /\ accepted'[d] > accepted[d] =>
        accepted'[d] - accepted[d] >= TTL \/ d \in crowded ]_intakeVars

LetPass(s, t) == passes[t] - IF s = 0 THEN 0 ELSE passes[s - 1]

\* GitHub is told that a run was taken, or seen before, only if its signal has been
\* sent or some handler still holds it - with the channel full, too; and in no stretch
\* of time do all routes together let pass more than the burst and the rate of it.
TakenIsSent ==
  /\ \A d \in answered : Wanted(d) =>
       d \in emitted \/ \E h \in Handlers : hpc[h] = "emit" /\ hid[h] = d
  /\ \A s \in 0 .. moment : LetPass(s, moment) <= Burst + Rate * (moment - s)
=============================================================================
