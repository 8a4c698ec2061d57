---------------------------- MODULE DeployProofs ----------------------------
(***************************************************************************)
(* The way to prod: what the gates ask for is earned (Gates), for any      *)
(* requests, alerts, slots and capacities, and what Promote and Revert put *)
(* there is gated, whole and theirs to undo (Release), for histories of    *)
(* any length.                                                             *)
(***************************************************************************)
EXTENDS MCDeploy, FiniteSetTheorems, SequenceTheorems, TLAPS

-----------------------------------------------------------------------------
(* Gates *)

\* The poller's signal: of its gate; blank until the probe, of a commit that was on
\* the branch by then, and with a verdict only when it is sent
PollerSignal ==
  /\ psig.source = Source
  /\ ppc # "send" => psig.kind = "blocked"
  /\ ppc \in {"idle", "sha", "probe"} => psig.seen = NoSHA
  /\ Pinned /\ ppc \in {"probe", "check", "send"} => psig.sha # NoSHA /\ psig.sha <= tip
  /\ MadeOf(psig)

\* A delivery's signal, likewise
DeliverySignals == \A d \in Requests :
  /\ rpc[d] \in {"new", "sha", "probe"} => rsig[d].seen = NoSHA
  /\ rpc[d] = "probe" => rsig[d].sha # NoSHA /\ rsig[d].sha <= tip
  /\ rpc[d] = "check" => rsig[d].seen # NoSHA
  /\ MadeOf(rsig[d])

\* What the poller took for an edge last is what it found last and what it sent last.
OneMemory == last = told /\ told = found

\* The route's own edge, against what it has decided for
EdgesCount == breaches <= resolves + IF prodEdge = "breach" THEN 1 ELSE 0

GatesIInv ==
  /\ TypeOK /\ PollerSignal /\ DeliverySignals
  /\ \A i \in DOMAIN signals : MadeOf(signals[i])
  /\ SlotsHeld /\ OneMemory /\ EdgesCount

\* What the fields of a signal are.
LEMMA SignalFields ==
  /\ \A s \in Signal : /\ s.source \in {"ci", "dev-gate", "prod-health"} /\ s.kind \in Kinds
                       /\ s.sha \in SHAs \cup {NoSHA} /\ s.seen \in SHAs \cup {NoSHA}
  /\ \A s \in Signal : s.sha \in Nat /\ s.seen \in Nat
  /\ SHAs \subseteq Nat \ {0} /\ NoSHA = 0
  /\ \A h \in SHAs : h \in Nat /\ h # NoSHA /\ h <= h
  /\ {SignalsCap, MaxChecks, MaxTip} \subseteq Nat \ {0}
  /\ NoSignal \in Signal /\ NoSignal.seen = NoSHA /\ NoSignal.source = Source
  /\ NoSignal.kind = "blocked"
  /\ \A source \in {"ci", "dev-gate", "prod-health"}, kind \in Kinds :
       /\ Unprobed(source, kind) \in Signal /\ Unprobed(source, kind).seen = NoSHA
  BY GatesAssumption DEF Signal, SHAs, NoSHA, Kinds, NoSignal, Unprobed

\* A signal with one field set differs in that field.
LEMMA FieldsSet ==
  ASSUME NEW s \in Signal
  PROVE  /\ \A h \in SHAs \cup {NoSHA} : /\ [s EXCEPT !.sha = h] \in Signal
                                      /\ [s EXCEPT !.sha = h].sha = h
                                      /\ [s EXCEPT !.sha = h].seen = s.seen
                                      /\ [s EXCEPT !.sha = h].kind = s.kind
                                      /\ [s EXCEPT !.sha = h].source = s.source
         /\ \A h \in SHAs \cup {NoSHA} : /\ [s EXCEPT !.seen = h] \in Signal
                                      /\ [s EXCEPT !.seen = h].seen = h
                                      /\ [s EXCEPT !.seen = h].sha = s.sha
                                      /\ [s EXCEPT !.seen = h].kind = s.kind
                                      /\ [s EXCEPT !.seen = h].source = s.source
         /\ \A k \in Kinds : /\ [s EXCEPT !.kind = k] \in Signal
                            /\ [s EXCEPT !.kind = k].kind = k
                            /\ [s EXCEPT !.kind = k].sha = s.sha
                            /\ [s EXCEPT !.kind = k].seen = s.seen
                            /\ [s EXCEPT !.kind = k].source = s.source
         /\ [s EXCEPT !.source = "dev-gate"] \in Signal
         /\ [s EXCEPT !.source = "dev-gate"].sha = s.sha
         /\ [s EXCEPT !.source = "dev-gate"].seen = s.seen
  BY DEF Signal

\* The channel after a send, and after a receive.
LEMMA PutIn ==
  ASSUME signals \in Seq(Signal), Len(signals) <= SignalsCap, NEW s \in Signal, Put(s)
  PROVE  /\ signals' \in Seq(Signal) /\ Len(signals') <= SignalsCap
         /\ (\A i \in DOMAIN signals : MadeOf(signals[i])) /\ MadeOf(s)
              => \A i \in DOMAIN signals' : MadeOf(signals'[i])
  <1>1. SignalsCap \in Nat /\ Len(signals) \in Nat /\ DOMAIN signals = 1 .. Len(signals)
        BY SignalFields, LenProperties
  <1>2. /\ signals' \in Seq(Signal) /\ Len(signals') = Len(signals) + 1
        /\ \A i \in 1 .. Len(signals) : signals'[i] = signals[i]
        /\ signals'[Len(signals) + 1] = s
        BY AppendProperties DEF Put
  <1>3. DOMAIN signals' = 1 .. Len(signals) + 1
        BY <1>2, LenProperties
  <1> QED
      BY <1>1, <1>2, <1>3 DEF Put

LEMMA Taken ==
  ASSUME signals \in Seq(Signal), Len(signals) <= SignalsCap, Handle
  PROVE  /\ signals' \in Seq(Signal) /\ Len(signals') <= SignalsCap
         /\ (\A i \in DOMAIN signals : MadeOf(signals[i]))
              => \A i \in DOMAIN signals' : MadeOf(signals'[i])
         /\ Head(signals) \in Signal
  <1>1. SignalsCap \in Nat /\ DOMAIN signals = 1 .. Len(signals)
        BY SignalFields, LenProperties
  <1>2. /\ Head(signals) \in Signal
        /\ signals' \in Seq(Signal) /\ Len(signals) \in Nat /\ Len(signals') = Len(signals) - 1
        /\ \A i \in 1 .. Len(signals) - 1 : signals'[i] = signals[i + 1]
        BY HeadTailProperties, LenProperties, EmptySeq DEF Handle
  <1>3. DOMAIN signals' = 1 .. Len(signals')
        BY <1>2, LenProperties
  <1> QED
      BY <1>1, <1>2, <1>3

\* What Alertmanager says is a sequence of verdicts.
LEMMA PayloadsAreSaid == Payloads \subseteq Seq({"pass", "breach"})
  <1> SUFFICES ASSUME NEW S \in SUBSET {x \in Alerts : alert[x] # "quiet"},
                      NEW q \in Injection(1 .. Cardinality(S), S)
               PROVE  [i \in DOMAIN q |-> IF alert[q[i]] = "firing" THEN "breach" ELSE "pass"]
                        \in Seq({"pass", "breach"})
      BY DEF Payloads
  <1>1. IsFiniteSet(S)
        BY GatesAssumption, FS_Subset
  <1>2. Cardinality(S) \in Nat
        BY <1>1, FS_CardinalityType
  <1>3. DOMAIN q = 1 .. Cardinality(S)
        BY DEF Injection
  <1> QED
      BY <1>2, <1>3, SeqDef

-----------------------------------------------------------------------------
\* What the polled gate can say of itself
Verdicts == {"pass", IF Source = "prod-health" THEN "breach" ELSE "fail"}

\* Every step keeps the types and the bounds: of the channel, and of the smoke checks.
LEMMA GatesTypes ==
  ASSUME TypeOK, SlotsHeld, [Next]_vars
  PROVE  TypeOK'
  <1> USE DEF TypeOK, env, memory, past, poller, edges, handlers, Return
  <1>0. /\ \A d \in Requests : HasSlot(d) => slots \in 1 .. MaxChecks
        /\ MaxChecks \in Nat /\ slots \in 0 .. MaxChecks
    <2>1. MaxChecks \in Nat /\ slots \in 0 .. MaxChecks
          BY SignalFields
    <2>2. ASSUME NEW d \in Requests, HasSlot(d) PROVE slots # 0
      <3>1. IsFiniteSet({e \in Requests : HasSlot(e)})
            BY GatesAssumption, FS_Subset
      <3>2. {e \in Requests : HasSlot(e)} # {}
            BY <2>2
      <3> QED
          BY <3>1, <3>2, FS_EmptySet DEF SlotsHeld
    <2> QED
        BY <2>1, <2>2
  <1>1. CASE Push
    <2>1. tip' \in SHAs
          BY <1>1, SignalFields DEF Push, SHAs
    <2> QED
        BY <1>1, <2>1 DEF Push
  <1>2. CASE Handle
        BY <1>2, Taken, ZenonT(60) DEF Handle
  <1>3. ASSUME NEW y \in Alerts, Fire(y) PROVE TypeOK'
        BY <1>3 DEF Fire
  <1>4. ASSUME NEW y \in Alerts, Resolve(y) PROVE TypeOK'
        BY <1>4 DEF Resolve
  <1>5. CASE Tick
        BY <1>5 DEF Tick
  <1>6. CASE Deadline
        BY <1>6 DEF Deadline
  <1>7. CASE ReadSHA
    <2>1. psig' = [psig EXCEPT !.sha = tip] \/ psig' = NoSignal
          BY <1>7 DEF ReadSHA
    <2>2. psig' \in Signal
      <3>1. [psig EXCEPT !.sha = tip] \in Signal /\ NoSignal \in Signal
            BY SignalFields, FieldsSet
      <3> QED
          BY <2>1, <3>1
    <2> QED
        BY <1>7, <2>2 DEF ReadSHA
  <1>8. CASE Probe
        BY <1>8, SignalFields, FieldsSet DEF Probe
  <1>9. CASE TimedOut
        BY <1>9, SignalFields DEF TimedOut
  <1>10. CASE Sent
        BY <1>10, SignalFields, PutIn DEF Sent
  <1>11. CASE WindowPasses
        BY <1>11 DEF WindowPasses
  <1>12. ASSUME NEW k \in Verdicts, Checked(k) PROVE TypeOK'
    <2>1. k \in Kinds /\ k \in {"pass", "fail", "breach"}
          BY DEF Verdicts, Kinds
    <2>2. <<k, psig.sha>> \in Verdict
          BY <2>1, SignalFields DEF Verdict
    <2>3. psig' \in Signal
      <3>1. psig' = [psig EXCEPT !.kind = k] \/ psig' = NoSignal
            BY <1>12 DEF Checked
      <3>2. [psig EXCEPT !.kind = k] \in Signal /\ NoSignal \in Signal
            BY <2>1, SignalFields, FieldsSet
      <3> QED
          BY <3>1, <3>2
    <2>4. last' \in Verdict /\ told' \in Verdict /\ found' \in Verdict
          BY <1>12, <2>2 DEF Checked
    <2> QED
        BY <1>12, <2>3, <2>4 DEF Checked
  <1>13. ASSUME NEW reason \in Reasons, Blocked(reason) PROVE TypeOK'
        BY <1>13, SignalFields DEF Blocked
  <1>14. ASSUME NEW d \in Requests, Notify(d) PROVE TypeOK'
        BY <1>14, PayloadsAreSaid DEF Notify
  <1>15. ASSUME NEW d \in Requests, NextAlert(d) PROVE TypeOK'
    <2>1. todo[d] \in Seq({"pass", "breach"}) /\ todo[d] # <<>>
          BY <1>15 DEF NextAlert
    <2>2. Head(todo[d]) \in {"pass", "breach"} /\ Tail(todo[d]) \in Seq({"pass", "breach"})
          BY <2>1, HeadTailProperties
    <2>3. todo' \in [Requests -> Seq({"pass", "breach"})]
          BY <1>15, <2>2 DEF NextAlert
    <2>4. CASE AlertEdge(Head(todo[d]))
      <3>1. /\ prodEdge' = Head(todo[d])
            /\ rsig' = [rsig EXCEPT ![d] = Unprobed("prod-health", Head(todo[d]))]
            /\ rpc' = [rpc EXCEPT ![d] = "emit"]
            /\ breaches' = breaches + IF Head(todo[d]) = "breach" THEN 1 ELSE 0
            /\ resolves' = resolves + IF Head(todo[d]) = "pass" THEN 1 ELSE 0
            /\ well' \in BOOLEAN
            BY <1>15, <2>4 DEF NextAlert
      <3>2. Unprobed("prod-health", Head(todo[d])) \in Signal
            BY <2>2, SignalFields DEF Kinds
      <3>3. rsig' \in [Requests -> Signal] /\ breaches' \in Nat /\ resolves' \in Nat
            BY <3>1, <3>2
      <3> QED
          BY <1>15, <2>2, <2>3, <3>1, <3>3 DEF NextAlert
    <2>5. CASE ~AlertEdge(Head(todo[d]))
          BY <1>15, <2>3, <2>5 DEF NextAlert
    <2> QED
        BY <2>4, <2>5
  <1>16. ASSUME NEW d \in Requests, Answer(d) PROVE TypeOK'
        BY <1>16 DEF Answer
  <1>17. ASSUME NEW d \in Requests, Manual(d) PROVE TypeOK'
        BY <1>17, SignalFields DEF Manual, ManualSignals, Kinds
  <1>18. ASSUME NEW d \in Requests, Sync(d) PROVE TypeOK'
    <2>1. CASE slots < MaxChecks
      <3>1. /\ slots' = slots + 1 /\ rpc' = [rpc EXCEPT ![d] = "sha"]
            /\ rsig' = [rsig EXCEPT ![d] = [rsig[d] EXCEPT !.source = "dev-gate"]]
            BY <1>18, <2>1 DEF Sync
      <3>2. rsig' \in [Requests -> Signal]
            BY <3>1, FieldsSet
      <3>3. slots' \in 0 .. MaxChecks
            BY <1>0, <2>1, <3>1
      <3> QED
          BY <1>18, <3>1, <3>2, <3>3 DEF Sync
    <2>2. CASE ~(slots < MaxChecks)
          BY <1>18, <2>2 DEF Sync
    <2> QED
        BY <2>1, <2>2
  <1>19. ASSUME NEW d \in Requests, SyncSHA(d) PROVE TypeOK'
    <2>1. rpc[d] = "sha" /\ HasSlot(d)
          BY <1>19 DEF SyncSHA, HasSlot
    <2>2. slots' \in 0 .. MaxChecks
          BY <1>0, <1>19, <2>1 DEF SyncSHA, Release
    <2>3. rsig' \in [Requests -> Signal]
      <3>1. \/ rsig' = [rsig EXCEPT ![d] = [rsig[d] EXCEPT !.sha = tip]]
            \/ rsig' = [rsig EXCEPT ![d] = NoSignal]
            BY <1>19 DEF SyncSHA
      <3>2. [rsig[d] EXCEPT !.sha = tip] \in Signal /\ NoSignal \in Signal
            BY SignalFields, FieldsSet
      <3> QED
          BY <3>1, <3>2
    <2> QED
        BY <1>19, <2>2, <2>3, ZenonT(60) DEF SyncSHA
  <1>20. ASSUME NEW d \in Requests, SyncProbe(d) PROVE TypeOK'
    <2>1. rsig' = [rsig EXCEPT ![d] = [rsig[d] EXCEPT !.seen = tip]]
          BY <1>20 DEF SyncProbe
    <2>2. rsig' \in [Requests -> Signal]
          BY <2>1, FieldsSet
    <2> QED
        BY <1>20, <2>2 DEF SyncProbe
  <1>21. ASSUME NEW d \in Requests, Emit(d) PROVE TypeOK'
        BY <1>21, <1>0, PutIn, SignalFields DEF Emit, Release
  <1>22. ASSUME NEW d \in Requests, NEW k \in {"pass", "fail", "blocked"}, SyncChecked(d, k)
        PROVE  TypeOK'
    <2>1. rsig' = [rsig EXCEPT ![d] = [rsig[d] EXCEPT !.kind = k]] /\ k \in Kinds
          BY <1>22 DEF SyncChecked, Kinds
    <2>2. rsig' \in [Requests -> Signal]
          BY <2>1, FieldsSet
    <2> QED
        BY <1>22, <2>2 DEF SyncChecked
  <1>23. CASE UNCHANGED vars
        BY <1>23 DEF vars
  <1> QED
      BY <1>1, <1>2, <1>3, <1>4, <1>5, <1>6, <1>7, <1>8, <1>9, <1>10, <1>11, <1>12,
         <1>13, <1>14, <1>15, <1>16, <1>17, <1>18, <1>19, <1>20, <1>21, <1>22, <1>23 DEF Next, Verdicts

\* Every step keeps the poller's signal to its commit.
LEMMA PollerStep ==
  ASSUME TypeOK, PollerSignal, [Next]_vars
  PROVE  PollerSignal'
  <1> USE DEF PollerSignal, env, memory, past, poller, edges, handlers, Return, MadeOf, Pinned
  <1>0. /\ psig \in Signal /\ tip \in SHAs /\ tip \in Nat /\ tip # NoSHA
        /\ psig.sha \in Nat /\ psig.seen \in Nat
        /\ NoSignal.seen = NoSHA /\ NoSignal.source = Source /\ NoSignal.kind = "blocked"
        BY SignalFields DEF TypeOK
  <1>1. CASE Push
    <2>1. tip' = tip + 1 /\ UNCHANGED <<psig, ppc>>
          BY <1>1 DEF Push
    <2> QED
        BY <1>0, <2>1
  <1>2. CASE Handle
        BY <1>2 DEF Handle
  <1>3. ASSUME NEW y \in Alerts, Fire(y) PROVE PollerSignal'
        BY <1>3 DEF Fire
  <1>4. ASSUME NEW y \in Alerts, Resolve(y) PROVE PollerSignal'
        BY <1>4 DEF Resolve
  <1>5. CASE Tick
        BY <1>0, <1>5 DEF Tick
  <1>6. CASE Deadline
        BY <1>6 DEF Deadline
  <1>7. CASE ReadSHA
    <2>1. /\ [psig EXCEPT !.sha = tip].sha = tip /\ [psig EXCEPT !.sha = tip].seen = psig.seen
          /\ [psig EXCEPT !.sha = tip].kind = psig.kind
          /\ [psig EXCEPT !.sha = tip].source = psig.source
          BY <1>0, FieldsSet
    <2>2. UNCHANGED tip /\ ppc = "sha" /\ tip <= tip
          BY <1>0, <1>7 DEF ReadSHA
    <2>3. CASE ppc' = "probe" /\ psig' = [psig EXCEPT !.sha = tip]
          BY <1>0, <2>1, <2>2, <2>3
    <2>4. CASE ppc' = "idle" /\ psig' = NoSignal
          BY <1>0, <2>2, <2>4
    <2> QED
        BY <1>7, <2>3, <2>4 DEF ReadSHA
  <1>8. CASE Probe
        BY <1>0, <1>8, FieldsSet DEF Probe
  <1>9. CASE TimedOut
        BY <1>0, <1>9 DEF TimedOut
  <1>10. CASE Sent
        BY <1>0, <1>10 DEF Sent
  <1>11. CASE WindowPasses
        BY <1>11 DEF WindowPasses
  <1>12. ASSUME NEW k \in Verdicts, Checked(k) PROVE PollerSignal'
    <2>1. k \in Kinds
          BY DEF Verdicts, Kinds
    <2>2. /\ [psig EXCEPT !.kind = k].sha = psig.sha /\ [psig EXCEPT !.kind = k].seen = psig.seen
          /\ [psig EXCEPT !.kind = k].source = psig.source
          BY <1>0, <2>1, FieldsSet
    <2> QED
        BY <1>0, <1>12, <2>2 DEF Checked
  <1>13. ASSUME NEW reason \in Reasons, Blocked(reason) PROVE PollerSignal'
        BY <1>0, <1>13 DEF Blocked
  <1>14. ASSUME NEW d \in Requests, Notify(d) PROVE PollerSignal'
        BY <1>14 DEF Notify
  <1>15. ASSUME NEW d \in Requests, NextAlert(d) PROVE PollerSignal'
        BY <1>15 DEF NextAlert
  <1>16. ASSUME NEW d \in Requests, Answer(d) PROVE PollerSignal'
        BY <1>16 DEF Answer
  <1>17. ASSUME NEW d \in Requests, Manual(d) PROVE PollerSignal'
        BY <1>17 DEF Manual
  <1>18. ASSUME NEW d \in Requests, Sync(d) PROVE PollerSignal'
        BY <1>18 DEF Sync
  <1>19. ASSUME NEW d \in Requests, SyncSHA(d) PROVE PollerSignal'
        BY <1>19 DEF SyncSHA
  <1>20. ASSUME NEW d \in Requests, SyncProbe(d) PROVE PollerSignal'
        BY <1>20 DEF SyncProbe
  <1>21. ASSUME NEW d \in Requests, Emit(d) PROVE PollerSignal'
        BY <1>21 DEF Emit
  <1>22. ASSUME NEW d \in Requests, NEW k \in {"pass", "fail", "blocked"}, SyncChecked(d, k)
        PROVE  PollerSignal'
        BY <1>22 DEF SyncChecked
  <1>23. CASE UNCHANGED vars
        BY <1>23 DEF vars
  <1> QED
      BY <1>1, <1>2, <1>3, <1>4, <1>5, <1>6, <1>7, <1>8, <1>9, <1>10, <1>11, <1>12,
         <1>13, <1>14, <1>15, <1>16, <1>17, <1>18, <1>19, <1>20, <1>21, <1>22, <1>23 DEF Next, Verdicts

\* Every step keeps what the deliveries are about to send to its commit.
LEMMA DeliveriesStep ==
  ASSUME TypeOK, DeliverySignals, [Next]_vars
  PROVE  DeliverySignals'
  <1> USE DEF DeliverySignals, env, memory, past, poller, edges, handlers, MadeOf
  <1>0. /\ tip \in SHAs /\ tip \in Nat /\ tip # NoSHA /\ NoSignal.seen = NoSHA
        /\ rsig \in [Requests -> Signal]
        /\ rpc \in [Requests -> {"new", "alerts", "sha", "probe", "check", "emit", "done"}]
        /\ \A d \in Requests : rsig[d].sha \in Nat /\ rsig[d].seen \in Nat
        BY SignalFields DEF TypeOK
  <1>1. CASE Push
    <2>1. tip' = tip + 1 /\ UNCHANGED <<rsig, rpc>>
          BY <1>1 DEF Push
    <2> QED
        BY <1>0, <2>1
  <1>2. CASE Handle
        BY <1>2 DEF Handle
  <1>3. ASSUME NEW y \in Alerts, Fire(y) PROVE DeliverySignals'
        BY <1>3 DEF Fire
  <1>4. ASSUME NEW y \in Alerts, Resolve(y) PROVE DeliverySignals'
        BY <1>4 DEF Resolve
  <1>5. CASE Tick
        BY <1>5 DEF Tick
  <1>6. CASE Deadline
        BY <1>6 DEF Deadline
  <1>7. CASE ReadSHA
        BY <1>7 DEF ReadSHA
  <1>8. CASE Probe
        BY <1>8 DEF Probe
  <1>9. CASE TimedOut
        BY <1>9 DEF TimedOut
  <1>10. CASE Sent
        BY <1>10 DEF Sent
  <1>11. CASE WindowPasses
        BY <1>11 DEF WindowPasses
  <1>12. ASSUME NEW k \in Verdicts, Checked(k) PROVE DeliverySignals'
        BY <1>12 DEF Checked
  <1>13. ASSUME NEW reason \in Reasons, Blocked(reason) PROVE DeliverySignals'
        BY <1>13 DEF Blocked
  <1>14. ASSUME NEW d \in Requests, Notify(d) PROVE DeliverySignals'
        BY <1>0, <1>14 DEF Notify
  <1>15. ASSUME NEW d \in Requests, NextAlert(d) PROVE DeliverySignals'
    <2>1. UNCHANGED <<rsig, rpc>> \/
            \E k \in {"pass", "breach"} : /\ rsig' = [rsig EXCEPT ![d] = Unprobed("prod-health", k)]
                                       /\ rpc' = [rpc EXCEPT ![d] = "emit"]
      <3>1. Head(todo[d]) \in {"pass", "breach"}
            BY <1>15, HeadTailProperties DEF NextAlert, TypeOK
      <3> QED
          BY <1>15, <3>1 DEF NextAlert
    <2>2. \A k \in {"pass", "breach"} : Unprobed("prod-health", k).seen = NoSHA
          BY SignalFields DEF Kinds
    <2>3. UNCHANGED tip
          BY <1>15 DEF NextAlert
    <2> QED
        BY <1>0, <2>1, <2>2, <2>3
  <1>16. ASSUME NEW d \in Requests, Answer(d) PROVE DeliverySignals'
        BY <1>0, <1>16 DEF Answer
  <1>17. ASSUME NEW d \in Requests, Manual(d) PROVE DeliverySignals'
    <2>1. PICK m \in ManualSignals : rsig' = [rsig EXCEPT ![d] = m]
          BY <1>17 DEF Manual
    <2>2. m.seen = NoSHA
          BY SignalFields DEF ManualSignals, Kinds
    <2> QED
        BY <1>0, <1>17, <2>1, <2>2 DEF Manual
  <1>18. ASSUME NEW d \in Requests, Sync(d) PROVE DeliverySignals'
    <2>1. [rsig[d] EXCEPT !.source = "dev-gate"].seen = rsig[d].seen
          BY <1>0, FieldsSet
    <2>2. \/ /\ rpc' = [rpc EXCEPT ![d] = "sha"]
             /\ rsig' = [rsig EXCEPT ![d] = [rsig[d] EXCEPT !.source = "dev-gate"]]
          \/ rpc' = [rpc EXCEPT ![d] = "done"] /\ UNCHANGED rsig
          BY <1>18 DEF Sync
    <2>3. UNCHANGED tip /\ rpc[d] = "new"
          BY <1>18 DEF Sync
    <2> QED
        BY <1>0, <2>1, <2>2, <2>3
  <1>19. ASSUME NEW d \in Requests, SyncSHA(d) PROVE DeliverySignals'
    <2>1. /\ [rsig[d] EXCEPT !.sha = tip].seen = rsig[d].seen
          /\ [rsig[d] EXCEPT !.sha = tip].sha = tip
          BY <1>0, FieldsSet
    <2>2. \/ /\ rpc' = [rpc EXCEPT ![d] = "probe"]
             /\ rsig' = [rsig EXCEPT ![d] = [rsig[d] EXCEPT !.sha = tip]]
          \/ rpc' = [rpc EXCEPT ![d] = "done"] /\ rsig' = [rsig EXCEPT ![d] = NoSignal]
          BY <1>19 DEF SyncSHA
    <2>3. UNCHANGED tip /\ rpc[d] = "sha" /\ tip <= tip
          BY <1>0, <1>19 DEF SyncSHA
    <2>4. ASSUME NEW e \in Requests \ {d} PROVE rsig'[e] = rsig[e] /\ rpc'[e] = rpc[e]
          BY <1>0, <2>2
    <2>5. \/ rpc'[d] = "probe" /\ rsig'[d] = [rsig[d] EXCEPT !.sha = tip]
          \/ rpc'[d] = "done" /\ rsig'[d] = NoSignal
          BY <1>0, <2>2
    <2> QED
        BY <1>0, <2>1, <2>3, <2>4, <2>5, ZenonT(60)
  <1>20. ASSUME NEW d \in Requests, SyncProbe(d) PROVE DeliverySignals'
    <2>1. /\ [rsig[d] EXCEPT !.seen = tip].seen = tip
          /\ [rsig[d] EXCEPT !.seen = tip].sha = rsig[d].sha
          BY <1>0, FieldsSet
    <2>2. /\ rpc' = [rpc EXCEPT ![d] = "check"] /\ UNCHANGED tip /\ rpc[d] = "probe"
          /\ rsig' = [rsig EXCEPT ![d] = [rsig[d] EXCEPT !.seen = tip]]
          BY <1>20 DEF SyncProbe
    <2> QED
        BY <1>0, <2>1, <2>2
  <1>21. ASSUME NEW d \in Requests, Emit(d) PROVE DeliverySignals'
        BY <1>0, <1>21 DEF Emit
  <1>22. ASSUME NEW d \in Requests, NEW k \in {"pass", "fail", "blocked"}, SyncChecked(d, k)
        PROVE  DeliverySignals'
    <2>1. /\ [rsig[d] EXCEPT !.kind = k].seen = rsig[d].seen
          /\ [rsig[d] EXCEPT !.kind = k].sha = rsig[d].sha
          /\ [rsig[d] EXCEPT !.kind = k].source = rsig[d].source
          BY <1>0, FieldsSet DEF Kinds
    <2>2. /\ rpc' = [rpc EXCEPT ![d] = "emit"] /\ UNCHANGED tip /\ rpc[d] = "check"
          /\ rsig' = [rsig EXCEPT ![d] = [rsig[d] EXCEPT !.kind = k]]
          BY <1>22 DEF SyncChecked
    <2> QED
        BY <1>0, <2>1, <2>2
  <1>23. CASE UNCHANGED vars
        BY <1>23 DEF vars
  <1> QED
      BY <1>1, <1>2, <1>3, <1>4, <1>5, <1>6, <1>7, <1>8, <1>9, <1>10, <1>11, <1>12,
         <1>13, <1>14, <1>15, <1>16, <1>17, <1>18, <1>19, <1>20, <1>21, <1>22, <1>23 DEF Next, Verdicts

\* Every step keeps what is sent to what was about to be sent.
LEMMA ChannelStep ==
  ASSUME TypeOK, PollerSignal, DeliverySignals, \A i \in DOMAIN signals : MadeOf(signals[i]),
         [Next]_vars
  PROVE  \A i \in DOMAIN signals' : MadeOf(signals'[i])
  <1> USE DEF PollerSignal, DeliverySignals
  <1>0. signals \in Seq(Signal) /\ Len(signals) <= SignalsCap /\ psig \in Signal
        BY DEF TypeOK
  <1>1. CASE UNCHANGED signals
        BY <1>1
  <1>2. CASE Handle
        BY <1>0, <1>2, Taken
  <1>3. CASE Put(psig)
        BY <1>0, <1>3, PutIn
  <1>4. ASSUME NEW d \in Requests, Put(rsig[d])
        PROVE  \A i \in DOMAIN signals' : MadeOf(signals'[i])
    <2>1. rsig[d] \in Signal /\ MadeOf(rsig[d])
          BY DEF TypeOK
    <2> QED
        BY <1>0, <1>4, <2>1, PutIn
  <1> QED
      BY <1>1, <1>2, <1>3, <1>4
         DEF Next, vars, Push, Fire, Resolve, Tick, Deadline, ReadSHA, Probe, TimedOut, Sent,
             WindowPasses, Checked, Blocked, Notify, NextAlert, Answer, Manual, Sync, SyncSHA,
             SyncProbe, Emit, SyncChecked

\* Only an alert's edge moves the route's edge and its counts, and only a check that
\* could run what the poller remembers.
LEMMA Untouched ==
  ASSUME [Next]_vars
  PROVE  /\ \/ UNCHANGED <<prodEdge, breaches, resolves>>
            \/ \E d \in Requests : NextAlert(d)
         /\ \/ UNCHANGED <<last, found, told>>
            \/ \E k \in Verdicts : Checked(k)
  BY DEF Next, Verdicts, vars, env, memory, past, poller, edges, handlers, Push, Handle, Fire,
         Resolve, Tick, Deadline, ReadSHA, Probe, TimedOut, Sent, WindowPasses, Checked, Blocked,
         Notify, NextAlert, Answer, Manual, Sync, SyncSHA, SyncProbe, Emit, SyncChecked

\* Every step keeps the poller's one memory, and the route's edge to its counts.
LEMMA MemoryStep ==
  ASSUME TypeOK, OneMemory, EdgesCount, [Next]_vars
  PROVE  OneMemory' /\ EdgesCount'
  <1>1. OneMemory'
    <2>1. ASSUME NEW k \in Verdicts, Checked(k) PROVE OneMemory'
          BY <2>1 DEF Checked, IsEdge, OneMemory
    <2> QED
        BY <2>1, Untouched DEF OneMemory
  <1>2. EdgesCount'
    <2>1. ASSUME NEW d \in Requests, NextAlert(d) PROVE EdgesCount'
      <3>1. /\ breaches \in Nat /\ resolves \in Nat /\ prodEdge \in {"none", "pass", "breach"}
            /\ Head(todo[d]) \in {"pass", "breach"}
            BY <2>1, HeadTailProperties DEF NextAlert, TypeOK
      <3>2. CASE AlertEdge(Head(todo[d]))
        <4>1. /\ prodEdge' = Head(todo[d]) /\ prodEdge # Head(todo[d])
              /\ breaches' = breaches + IF Head(todo[d]) = "breach" THEN 1 ELSE 0
              /\ resolves' = resolves + IF Head(todo[d]) = "pass" THEN 1 ELSE 0
              BY <2>1, <3>2 DEF NextAlert, AlertEdge
        <4> QED
            BY <3>1, <4>1 DEF EdgesCount
      <3>3. CASE ~AlertEdge(Head(todo[d]))
            BY <2>1, <3>3 DEF NextAlert, edges, EdgesCount
      <3> QED
          BY <3>2, <3>3
    <2> QED
        BY <2>1, Untouched DEF EdgesCount
  <1> QED
      BY <1>1, <1>2

\* One delivery more, or one less, that holds a slot
LEMMA SlotsCounted ==
  ASSUME TypeOK, SlotsHeld, NEW d \in Requests,
         \A e \in Requests \ {d} : HasSlot(e)' <=> HasSlot(e),
         slots' = slots + (IF HasSlot(d)' /\ ~HasSlot(d) THEN 1 ELSE 0)
                        - (IF HasSlot(d) /\ ~HasSlot(d)' THEN 1 ELSE 0)
  PROVE  SlotsHeld'
  <1> DEFINE S == {e \in Requests : HasSlot(e)}
             T == {e \in Requests : HasSlot(e)'}
  <1>1. IsFiniteSet(S) /\ Cardinality(S) = slots /\ slots \in Int
        BY GatesAssumption, FS_Subset, SignalFields DEF SlotsHeld, TypeOK
  <1>2. CASE HasSlot(d) <=> HasSlot(d)'
    <2>1. T = S /\ slots' = slots
          BY <1>1, <1>2
    <2> QED
        BY <1>1, <2>1 DEF SlotsHeld
  <1>3. CASE HasSlot(d)' /\ ~HasSlot(d)
    <2>1. T = S \cup {d} /\ d \notin S /\ slots' = slots + 1
          BY <1>1, <1>3
    <2> HIDE DEF S, T
    <2>2. Cardinality(T) = slots'
          BY <1>1, <2>1, FS_AddElement
    <2> QED
        BY <2>2 DEF SlotsHeld, T
  <1>4. CASE HasSlot(d) /\ ~HasSlot(d)'
    <2>1. T = S \ {d} /\ d \in S /\ slots' = slots - 1
          BY <1>1, <1>4
    <2> HIDE DEF S, T
    <2>2. Cardinality(T) = slots'
          BY <1>1, <2>1, FS_RemoveElement
    <2> QED
        BY <2>2 DEF SlotsHeld, T
  <1> QED
      BY <1>2, <1>3, <1>4

\* Every step keeps the slots to the deliveries being verified.
LEMMA SlotsHeldStep ==
  ASSUME TypeOK, DeliverySignals, SlotsHeld, [Next]_vars
  PROVE  SlotsHeld'
  <1> USE DEF handlers, poller, edges
  <1>0. /\ rsig \in [Requests -> Signal] /\ slots \in Nat
        /\ rpc \in [Requests -> {"new", "alerts", "sha", "probe", "check", "emit", "done"}]
        /\ NoSignal.seen = NoSHA
        /\ tip \in SHAs /\ tip # NoSHA
        BY SignalFields DEF TypeOK
  <1>1. CASE UNCHANGED <<rpc, rsig, slots>>
        BY <1>1 DEF SlotsHeld, HasSlot
  <1>2. ASSUME NEW d \in Requests, rpc[d] \in {"new", "alerts"},
               rpc'[d] \in {"alerts", "emit", "done"}, UNCHANGED slots,
               rsig'[d].seen = NoSHA \/ rpc'[d] # "emit",
               \A e \in Requests \ {d} : rpc'[e] = rpc[e] /\ rsig'[e] = rsig[e]
        PROVE  SlotsHeld'
    <2>1. ~HasSlot(d) /\ ~HasSlot(d)' /\ \A e \in Requests \ {d} : HasSlot(e)' <=> HasSlot(e)
          BY <1>2 DEF HasSlot
    <2> QED
        BY <1>0, <1>2, <2>1, SlotsCounted
  <1>3. ASSUME NEW d \in Requests, Notify(d) \/ Answer(d) PROVE SlotsHeld'
        BY <1>0, <1>2, <1>3 DEF Notify, Answer
  <1>4. ASSUME NEW d \in Requests, Manual(d) PROVE SlotsHeld'
    <2>1. PICK m \in ManualSignals : rsig' = [rsig EXCEPT ![d] = m]
          BY <1>4 DEF Manual
    <2>2. m.seen = NoSHA
          BY SignalFields DEF ManualSignals, Kinds
    <2> QED
        BY <1>0, <1>2, <1>4, <2>1, <2>2 DEF Manual
  <1>5. ASSUME NEW d \in Requests, NextAlert(d) PROVE SlotsHeld'
    <2>1. Head(todo[d]) \in {"pass", "breach"}
          BY <1>5, HeadTailProperties DEF NextAlert, TypeOK
    <2>2. Unprobed("prod-health", Head(todo[d])).seen = NoSHA
          BY <2>1, SignalFields DEF Kinds
    <2>3. CASE AlertEdge(Head(todo[d]))
      <3>1. /\ rsig' = [rsig EXCEPT ![d] = Unprobed("prod-health", Head(todo[d]))]
            /\ rpc' = [rpc EXCEPT ![d] = "emit"] /\ rpc[d] = "alerts" /\ UNCHANGED slots
            BY <1>5, <2>3 DEF NextAlert
      <3> QED
          BY <1>0, <1>2, <2>2, <3>1
    <2>4. CASE ~AlertEdge(Head(todo[d]))
          BY <1>1, <1>5, <2>4 DEF NextAlert
    <2> QED
        BY <2>3, <2>4
  <1>6. ASSUME NEW d \in Requests, Sync(d) PROVE SlotsHeld'
    <2>1. CASE slots < MaxChecks
      <3>1. /\ slots' = slots + 1 /\ rpc[d] = "new" /\ rpc'[d] = "sha"
            /\ \A e \in Requests \ {d} : rpc'[e] = rpc[e] /\ rsig'[e] = rsig[e]
            BY <1>0, <1>6, <2>1 DEF Sync
      <3>2. ~HasSlot(d) /\ HasSlot(d)' /\ \A e \in Requests \ {d} : HasSlot(e)' <=> HasSlot(e)
            BY <3>1 DEF HasSlot
      <3> QED
          BY <1>0, <3>1, <3>2, SlotsCounted
    <2>2. CASE ~(slots < MaxChecks)
          BY <1>0, <1>2, <1>6, <2>2 DEF Sync
    <2> QED
        BY <2>1, <2>2
  <1>7. ASSUME NEW d \in Requests, SyncSHA(d) PROVE SlotsHeld'
    <2>1. /\ rpc[d] = "sha" /\ HasSlot(d)
          /\ \A e \in Requests \ {d} : rpc'[e] = rpc[e] /\ rsig'[e] = rsig[e]
          BY <1>0, <1>7 DEF SyncSHA, HasSlot
    <2>2. \A e \in Requests \ {d} : HasSlot(e)' <=> HasSlot(e)
          BY <2>1 DEF HasSlot
    <2>3. \/ rpc'[d] = "probe" /\ slots' = slots
          \/ rpc'[d] = "done" /\ slots' = slots - 1
          BY <1>0, <1>7, <2>1 DEF SyncSHA, Release
    <2>4. IF rpc'[d] = "probe" THEN HasSlot(d)' ELSE ~HasSlot(d)'
          BY <2>3 DEF HasSlot
    <2> QED
        BY <1>0, <2>1, <2>2, <2>3, <2>4, SlotsCounted
  <1>8. ASSUME NEW d \in Requests, SyncProbe(d) PROVE SlotsHeld'
    <2>1. /\ rpc[d] = "probe" /\ rpc'[d] = "check" /\ UNCHANGED slots
          /\ \A e \in Requests \ {d} : rpc'[e] = rpc[e] /\ rsig'[e] = rsig[e]
          BY <1>0, <1>8 DEF SyncProbe
    <2>2. HasSlot(d) /\ HasSlot(d)' /\ \A e \in Requests \ {d} : HasSlot(e)' <=> HasSlot(e)
          BY <2>1 DEF HasSlot
    <2> QED
        BY <1>0, <2>1, <2>2, SlotsCounted
  <1>9. ASSUME NEW d \in Requests, NEW k \in {"pass", "fail", "blocked"}, SyncChecked(d, k)
        PROVE  SlotsHeld'
    <2>1. [rsig[d] EXCEPT !.kind = k].seen = rsig[d].seen /\ rsig[d].seen # NoSHA
          BY <1>0, <1>9, FieldsSet DEF Kinds, SyncChecked, DeliverySignals
    <2>2. /\ rpc[d] = "check" /\ rpc'[d] = "emit" /\ UNCHANGED slots
          /\ rsig'[d] = [rsig[d] EXCEPT !.kind = k]
          /\ \A e \in Requests \ {d} : rpc'[e] = rpc[e] /\ rsig'[e] = rsig[e]
          BY <1>0, <1>9 DEF SyncChecked
    <2>3. HasSlot(d) /\ HasSlot(d)' /\ \A e \in Requests \ {d} : HasSlot(e)' <=> HasSlot(e)
          BY <2>1, <2>2 DEF HasSlot
    <2> QED
        BY <1>0, <2>2, <2>3, SlotsCounted
  <1>10. ASSUME NEW d \in Requests, Emit(d) PROVE SlotsHeld'
    <2>1. /\ slots' = IF HasSlot(d) THEN slots - 1 ELSE slots
          /\ rpc'[d] \in {"done", "alerts"}
          /\ \A e \in Requests \ {d} : rpc'[e] = rpc[e] /\ rsig'[e] = rsig[e]
          BY <1>0, <1>10 DEF Emit, Release
    <2>2. ~HasSlot(d)' /\ \A e \in Requests \ {d} : HasSlot(e)' <=> HasSlot(e)
          BY <2>1 DEF HasSlot
    <2> QED
        BY <1>0, <2>1, <2>2, SlotsCounted
  <1> QED
      BY <1>1, <1>3, <1>4, <1>5, <1>6, <1>7, <1>8, <1>9, <1>10
         DEF Next, vars, Push, Handle, Fire, Resolve, Tick, Deadline, ReadSHA, Probe, TimedOut,
             Sent, WindowPasses, Checked, Blocked

-----------------------------------------------------------------------------
(* The theorems of the gates *)

\* A daemon that has just started holds the invariant.
LEMMA GatesInit ==
  ASSUME Init
  PROVE  GatesIInv
  <1> USE DEF Init
  <1>1. TypeOK
    <2>1. <<>> \in Seq(Signal) /\ <<>> \in Seq({"pass", "breach"}) /\ Len(<<>>) = 0
          BY EmptySeq
    <2>2. 1 \in SHAs /\ 0 \in 0 .. MaxChecks /\ 0 <= SignalsCap /\ NoSignal \in Signal
          BY SignalFields DEF SHAs
    <2> QED
        BY <2>1, <2>2 DEF TypeOK, Verdict
  <1>2. PollerSignal /\ DeliverySignals
        BY SignalFields DEF PollerSignal, DeliverySignals, MadeOf
  <1>3. SlotsHeld
    <2>1. {d \in Requests : HasSlot(d)} = {}
          BY DEF HasSlot
    <2> QED
        BY <2>1, FS_EmptySet DEF SlotsHeld
  <1>4. OneMemory /\ EdgesCount
        BY DEF OneMemory, EdgesCount
  <1>5. \A i \in DOMAIN signals : MadeOf(signals[i])
        BY EmptySeq
  <1> QED
      BY <1>1, <1>2, <1>3, <1>4, <1>5 DEF GatesIInv

\* The inductive invariant: of what commit every signal is that somebody has in hand,
\* whose every smoke slot is, and that the edges' memories agree with what was sent.
THEOREM GatesInvariance == Spec => []GatesIInv
  <1>1. ASSUME GatesIInv, [Next]_vars PROVE GatesIInv'
    <2>1. TypeOK' /\ SlotsHeld'
          BY <1>1, GatesTypes, SlotsHeldStep DEF GatesIInv
    <2>2. PollerSignal' /\ DeliverySignals' /\ OneMemory' /\ EdgesCount'
          BY <1>1, PollerStep, DeliveriesStep, MemoryStep DEF GatesIInv
    <2>3. \A i \in DOMAIN signals' : MadeOf(signals'[i])
          BY <1>1, ChannelStep DEF GatesIInv
    <2> QED
        BY <2>1, <2>2, <2>3 DEF GatesIInv, MadeOf
  <1> QED
      BY GatesInit, <1>1, PTL DEF Spec

\* Every variable keeps its type, no more smoke checks run than there are slots, and the
\* channel holds no more signals than it has room for.
THEOREM GatesTypeCorrect == Spec => []TypeOK
  <1>1. GatesIInv => TypeOK
        BY DEF GatesIInv
  <1> QED
      BY <1>1, GatesInvariance, PTL

\* The smoke slots taken are those of the deliveries being verified: no way out of
\* handleArgoCD leaks one or gives back another's.
THEOREM SlotsStayHeld == Spec => []SlotsHeld
  <1>1. GatesIInv => SlotsHeld
        BY DEF GatesIInv
  <1> QED
      BY <1>1, GatesInvariance, PTL

\* A dev-gate verdict, in the hand of the poller or a handler or in the channel, is of a
\* commit that was on the branch when its probe began, and the Alertmanager route has
\* decided for at most one breach more than for recoveries, however deliveries overlap.
THEOREM SignalsStayEarned == Spec => []SignalsAreEarned
  <1>1. GatesIInv => PinnedBeforeProbe
        BY DEF GatesIInv, PollerSignal, DeliverySignals, PinnedBeforeProbe
  <1>2. GatesIInv => OneBreachPerRecovery
    <2>1. ASSUME TypeOK, EdgesCount PROVE OneBreachPerRecovery
      <3>1. breaches \in Nat /\ resolves \in Nat
            BY <2>1 DEF TypeOK
      <3> QED
          BY <2>1, <3>1 DEF EdgesCount, OneBreachPerRecovery
    <2> QED
        BY <2>1 DEF GatesIInv
  <1>3. GatesIInv => SignalsAreEarned
        BY <1>1, <1>2 DEF SignalsAreEarned
  <1> QED
      BY <1>3, GatesInvariance, PTL

\* The poller sends a verdict only when it differs from the last one sent, with whatever
\* checks that could not run in between, and when it rests what it sent last is what it
\* found last: no edge is repeated and none is lost.
THEOREM PollerSpeaksOnEdges == Spec => SpeaksOnEdges
  <1> DEFINE Edge == /\ ppc = "check" /\ ppc' = "send" /\ psig'.kind # "blocked"
                          => <<psig'.kind, psig'.sha>> # told
                     /\ ppc' = "idle" => told' = found'
  <1>1. ASSUME GatesIInv, GatesIInv', Next PROVE Edge
    <2>1. told' = found' /\ last = told
          BY <1>1 DEF GatesIInv, OneMemory
    <2>2. ASSUME ppc = "check", ppc' = "send", psig'.kind # "blocked"
          PROVE  <<psig'.kind, psig'.sha>> # told
      <3>1. psig.kind = "blocked" /\ psig \in Signal
            BY <1>1, <2>2 DEF GatesIInv, PollerSignal, TypeOK
      <3>2. PICK k \in Verdicts : Checked(k)
            BY <1>1, <2>2, <3>1
               DEF Next, Verdicts, poller, Return, Push, Handle, Fire, Resolve, Tick, Deadline,
                   ReadSHA, Probe, TimedOut, Sent, WindowPasses, Blocked, Notify, NextAlert,
                   Answer, Manual, Sync, SyncSHA, SyncProbe, Emit, SyncChecked
      <3>3. /\ IsEdge(k) /\ psig' = [psig EXCEPT !.kind = k] /\ k \in Kinds
            BY <2>2, <3>2 DEF Checked, Return, Verdicts, Kinds
      <3>4. psig'.kind = k /\ psig'.sha = psig.sha
            BY <3>1, <3>3, FieldsSet
      <3> QED
          BY <2>1, <3>3, <3>4 DEF IsEdge
    <2> QED
        BY <2>1, <2>2
  <1>2. GatesIInv /\ GatesIInv' /\ [Next]_vars => [Edge]_vars
        BY <1>1
  <1> QED
      BY <1>2, GatesInvariance, PTL DEF Spec, SpeaksOnEdges

-----------------------------------------------------------------------------
(* Release: the commit graph *)

\* A commit is younger than its ancestors, itself aside, and has those of its ancestors.
Graph ==
  /\ commits \in Seq(Commit) /\ Len(commits) <= MaxCommits
  /\ \A c \in Ids : /\ c \in commits[c].anc /\ commits[c].anc \subseteq 1 .. c
                    /\ \A a \in commits[c].anc : commits[a].anc \subseteq commits[c].anc
                    /\ {commits[c].parent, commits[c].second} \subseteq Ids \cup {NoCommit}

\* The ids are numbers, and what git finds in a clone are ancestors.
LEMMA IdsAre ==
  ASSUME Graph
  PROVE  /\ Ids = 1 .. Len(commits) /\ Len(commits) \in Nat /\ Ids \subseteq Nat \ {0}
         /\ New \in Nat /\ New \notin Ids /\ NoCommit \notin Ids /\ New # NoCommit
         /\ \A c \in Ids : commits[c] \in Commit /\ commits[c].anc \subseteq Ids
  <1>1. Ids = 1 .. Len(commits) /\ Len(commits) \in Nat
        BY LenProperties DEF Graph, Ids
  <1>2. \A c \in Ids : commits[c] \in Commit
        BY <1>1, ElementOfSeq DEF Graph
  <1>3. ASSUME NEW c \in Ids PROVE commits[c].anc \subseteq Ids
    <2>1. commits[c].anc \subseteq 1 .. c
          BY DEF Graph
    <2> QED
        BY <1>1, <2>1
  <1> QED
      BY <1>1, <1>2, <1>3 DEF New, NoCommit

LEMMA ReachIsBack == \A cut, c : Reach(cut, c) \subseteq commits[c].anc
  BY DEF Reach

\* Two commits that are each other's ancestors are one.
LEMMA OneCommit ==
  ASSUME Graph, NEW a \in Ids, NEW c \in Ids, a \in commits[c].anc, c \in commits[a].anc
  PROVE  a = c
  <1>1. a \in Nat /\ c \in Nat /\ a \in 1 .. c /\ c \in 1 .. a
        BY IdsAre DEF Graph
  <1> QED
      BY ONLY <1>1

\* What a fetch makes of the grafts are commits again.
LEMMA FetchedAre ==
  ASSUME Graph
  PROVE  \A cut \in SUBSET (Ids \cup {NoCommit}), t \in Ids :
           Fetched(cut, t) \subseteq Ids \cup {NoCommit}
  BY DEF Graph, Fetched, Parents

\* A commit on top of p and, if there is one, of q.
LEMMA Grown ==
  ASSUME Graph, NEW p \in Ids, NEW q \in Ids \cup {NoCommit}, NEW tree \in Nat,
         NEW current \in BOOLEAN, NEW kind \in CommitKinds, AddCommit(p, q, tree, current, kind)
  PROVE  /\ Graph' /\ Ids' = Ids \cup {New}
         /\ \A c \in Ids : commits'[c] = commits[c]
         /\ commits'[New].parent = p /\ commits'[New].kind = kind
         /\ \A a : a \in commits'[New].anc <=> \/ a = New \/ a \in commits[p].anc
                                               \/ q # NoCommit /\ a \in commits[q].anc
  <1> DEFINE anc == {New} \cup UNION {commits[c].anc : c \in {p, q} \cap Ids}
             new == [parent |-> p, second |-> q, tree |-> tree, current |-> current,
                     kind |-> kind, anc |-> anc]
  <1>0. /\ Ids = 1 .. Len(commits) /\ Len(commits) \in Nat /\ New = Len(commits) + 1
        /\ New \notin Ids /\ NoCommit \notin Ids /\ p \in Nat /\ q \in Nat
        /\ \A c \in Ids : commits[c].anc \subseteq Ids
        BY IdsAre DEF New, NoCommit
  <1>1. New <= MaxCommits /\ commits' = Append(commits, new)
        BY DEF AddCommit
  <1>2. \A a : a \in anc <=> \/ a = New \/ a \in commits[p].anc
                             \/ q # NoCommit /\ a \in commits[q].anc
    <2> DEFINE both == {p, q} \cap Ids
    <2>1. /\ p \in both /\ (q # NoCommit => q \in both)
          /\ \A c \in both : c = p \/ (q # NoCommit /\ c = q)
      <3>1. p \in Ids /\ q \in Ids \cup {NoCommit} /\ NoCommit \notin Ids
            BY <1>0
      <3> QED
          BY ONLY <3>1
    <2>2. anc = {New} \cup UNION {commits[c].anc : c \in both}
          OBVIOUS
    <2>3. \A a : a \in UNION {commits[c].anc : c \in both}
                    <=> \E c \in both : a \in commits[c].anc
          OBVIOUS
    <2> HIDE DEF anc, both
    <2>4. \A a : a \in anc <=> a = New \/ \E c \in both : a \in commits[c].anc
          BY ONLY <2>2, <2>3
    <2> QED
        BY ONLY <2>1, <2>4
  <1>3. anc \subseteq 1 .. New
    <2> DEFINE upto == 1 .. New
    <2>1. /\ commits[p].anc \subseteq Ids /\ (q # NoCommit => commits[q].anc \subseteq Ids)
          /\ Ids \subseteq upto /\ New \in upto
          BY <1>0
    <2> HIDE DEF anc, upto
    <2>2. anc \subseteq upto
          BY ONLY <1>2, <2>1
    <2> QED
        BY ONLY <2>2 DEF upto
  <1>4. new \in Commit
    <2>1. New \in Nat /\ anc \subseteq Nat
      <3>1. New \in Nat /\ 1 .. New \subseteq Nat
            BY <1>0
      <3> HIDE DEF anc
      <3> QED
          BY <1>3, <3>1
    <2> HIDE DEF anc
    <2>2. anc \in SUBSET Nat
          BY ONLY <2>1
    <2> QED
        BY <1>0, <2>2 DEF Commit
  <1>5. new.parent = p /\ new.second = q /\ new.kind = kind /\ new.anc = anc
        OBVIOUS
  <1> HIDE DEF new, anc
  <1>6. /\ commits' \in Seq(Commit) /\ Len(commits') = Len(commits) + 1
        /\ \A c \in 1 .. Len(commits) : commits'[c] = commits[c]
        /\ commits'[Len(commits) + 1] = new
        BY <1>1, <1>4, AppendProperties DEF Graph
  <1>7. Ids' = 1 .. Len(commits')
        BY <1>6, LenProperties DEF Ids
  <1>8. Ids' = Ids \cup {New} /\ commits'[New] = new /\ \A c \in Ids : commits'[c] = commits[c]
        BY <1>0, <1>6, <1>7
  <1>9. ASSUME NEW c \in Ids'
        PROVE  /\ c \in commits'[c].anc /\ commits'[c].anc \subseteq 1 .. c
               /\ \A a \in commits'[c].anc : commits'[a].anc \subseteq commits'[c].anc
               /\ {commits'[c].parent, commits'[c].second} \subseteq Ids' \cup {NoCommit}
    <2>1. CASE c \in Ids
      <3>1. commits'[c] = commits[c] /\ commits[c].anc \subseteq Ids
            BY <1>0, <1>8, <2>1
      <3>2. \A a \in commits[c].anc : commits'[a] = commits[a]
            BY <1>8, <3>1
      <3> QED
          BY <1>8, <2>1, <3>1, <3>2 DEF Graph
    <2>2. CASE c = New
      <3>1. New \in anc /\ anc \subseteq 1 .. New
            BY <1>2, <1>3
      <3>2. ASSUME NEW a \in anc PROVE commits'[a].anc \subseteq anc
        <4>1. CASE a = New
              BY <1>5, <1>8, <4>1
        <4>2. CASE a \in commits[p].anc
          <5>1. a \in Ids /\ commits[a].anc \subseteq commits[p].anc
                BY <1>0, <4>2 DEF Graph
          <5> QED
              BY <1>2, <1>8, <5>1
        <4>3. CASE q # NoCommit /\ a \in commits[q].anc
          <5>1. q \in Ids
                BY <4>3
          <5>2. a \in Ids /\ commits[a].anc \subseteq commits[q].anc
                BY <1>0, <4>3, <5>1 DEF Graph
          <5> QED
              BY <1>2, <1>8, <4>3, <5>2
        <4> QED
            BY <1>2, <4>1, <4>2, <4>3
      <3> QED
          BY <1>5, <1>8, <2>2, <3>1, <3>2
    <2> QED
        BY <1>8, <2>1, <2>2
  <1>10. Graph'
         BY <1>0, <1>1, <1>6, <1>9 DEF Graph
  <1> QED
      BY <1>2, <1>5, <1>8, <1>10

-----------------------------------------------------------------------------
(* Release: the invariant *)

\* What the branches have.  Dev has every commit the gate has passed on, and a tag carry
\* it has is one prod has had; the commit on record is part of both.
OnBranches ==
  /\ \A g \in gated : g \in commits[dev].anc
  /\ prod \in landed
  /\ lastPromote # NoCommit => /\ lastPromote \in commits[prod].anc
                               /\ lastPromote \in commits[dev].anc
  /\ \A c \in commits[dev].anc :
       commits[c].kind = "carry" => \E l \in landed : c \in commits[l].anc

\* What the worker goes by.  While it checks, its clone's HEAD has the pin and dev has
\* had HEAD, so that a pin at dev's tip is HEAD; from then on the pin is a gated commit or
\* the tag carry on top of one.  What it has pushed is part of prod, and what it is about to
\* record, of dev too.
PinIsGated == \/ pin \in gated
              \/ commits[pin].kind = "carry" /\ commits[pin].parent \in gated
InHand ==
  /\ pc = "check" => /\ head \in Ids /\ head \in commits[dev].anc
                     /\ pin # NoCommit => pin \in gated /\ pin \in commits[head].anc
  /\ pc \in {"fetch", "push"} => head \in Ids /\ (pin # NoCommit => PinIsGated)
  /\ pc = "align" /\ pin # NoCommit => pin \in commits[prod].anc /\ pin \in landed
  /\ pc = "record" /\ promoted # NoCommit =>
       promoted \in commits[prod].anc /\ promoted \in commits[dev].anc
  /\ pc = "revert" => oldProd = lastPromote /\ lastPromote # NoCommit
  /\ pc = "realign" => head \in landed

ReleaseIInv == ReleaseTypeOK /\ Graph /\ OnBranches /\ InHand

\* The graph grows, branches and history with it.
Grows ==
  /\ Graph' /\ Ids \subseteq Ids' /\ \A c \in Ids : commits'[c] = commits[c]
  /\ dev' \in Ids' /\ prod' \in Ids'
  /\ commits[dev].anc \subseteq commits'[dev'].anc
  /\ commits[prod].anc \subseteq commits'[prod'].anc
  /\ gated \subseteq gated' /\ gated' \subseteq gated \cup {dev}
  /\ landed \subseteq landed' /\ landed' \subseteq Ids' /\ prod' \in landed'
  /\ \A c \in commits'[dev'].anc : \/ c \in commits[dev].anc
                                   \/ commits'[c].kind # "carry"
                                   \/ \E l \in landed' : c \in commits'[l].anc

\* As long as the record stays as it is, the branches have what they should.
LEMMA BranchesGrow ==
  ASSUME ReleaseIInv, Grows, lastPromote' = lastPromote
  PROVE  OnBranches'
  <1>1. /\ dev \in Ids /\ prod \in Ids /\ landed \subseteq Ids /\ gated \subseteq Ids
        /\ commits[dev].anc \subseteq Ids
        BY IdsAre DEF ReleaseIInv, ReleaseTypeOK
  <1>2. /\ \A g \in gated : g \in commits[dev].anc
        /\ dev \in commits[dev].anc
        BY <1>1 DEF ReleaseIInv, OnBranches, Graph
  <1>3. \A g \in gated' : g \in commits'[dev'].anc
        BY <1>2 DEF Grows
  <1>4. lastPromote' # NoCommit => /\ lastPromote' \in commits'[prod'].anc
                                   /\ lastPromote' \in commits'[dev'].anc
        BY DEF Grows, ReleaseIInv, OnBranches
  <1>5. ASSUME NEW c \in commits'[dev'].anc, commits'[c].kind = "carry"
        PROVE  \E l \in landed' : c \in commits'[l].anc
    <2>1. CASE c \in commits[dev].anc
      <3>1. c \in Ids /\ commits[c].kind = "carry"
            BY <1>1, <1>5, <2>1 DEF Grows
      <3>2. PICK l \in landed : c \in commits[l].anc
            BY <2>1, <3>1 DEF ReleaseIInv, OnBranches
      <3> QED
          BY <1>1, <3>2 DEF Grows
    <2> QED
        BY <1>5, <2>1 DEF Grows
  <1>6. prod' \in landed'
        BY DEF Grows
  <1> QED
      BY <1>3, <1>4, <1>5, <1>6 DEF OnBranches

\* What others do leaves the worker what it goes by.
LEMMA OthersGrow ==
  ASSUME ReleaseIInv, Grows, UNCHANGED <<clone, lastPromote>>
  PROVE  ReleaseIInv'
  <1>1. /\ pc' = pc /\ pin' = pin /\ head' = head /\ promoted' = promoted
        /\ oldProd' = oldProd /\ fetched' = fetched /\ grafts' = grafts
        /\ lastPromote' = lastPromote
        BY DEF clone, worker
  <1>2. /\ dev \in Ids /\ prod \in Ids /\ landed \subseteq Ids /\ gated \subseteq Ids
        /\ {pin, head, promoted, oldProd, fetched, lastPromote} \subseteq Ids \cup {NoCommit}
        BY DEF ReleaseIInv, ReleaseTypeOK
  <1>3. ReleaseTypeOK'
        BY <1>1, <1>2 DEF ReleaseIInv, ReleaseTypeOK, Grows, Graph
  <1>4. Graph' /\ OnBranches'
        BY <1>1, BranchesGrow DEF Grows
  <1>5. InHand'
    <2>1. pc = "check" => /\ head \in Ids' /\ head \in commits'[dev'].anc
                          /\ pin # NoCommit => pin \in gated' /\ pin \in commits'[head].anc
          BY DEF ReleaseIInv, InHand, Grows
    <2>2. pc \in {"fetch", "push"} => head \in Ids' /\ (pin # NoCommit => PinIsGated')
          BY <1>1, <1>2 DEF ReleaseIInv, InHand, Grows, PinIsGated
    <2>3. pc = "align" /\ pin # NoCommit => pin \in commits'[prod'].anc /\ pin \in landed'
          BY DEF ReleaseIInv, InHand, Grows
    <2>4. pc = "record" /\ promoted # NoCommit =>
            promoted \in commits'[prod'].anc /\ promoted \in commits'[dev'].anc
          BY DEF ReleaseIInv, InHand, Grows
    <2>5. /\ pc = "revert" => oldProd = lastPromote /\ lastPromote # NoCommit
          /\ pc = "realign" => head \in landed'
          BY DEF ReleaseIInv, InHand, Grows
    <2> QED
        BY <1>1, <2>1, <2>2, <2>3, <2>4, <2>5 DEF InHand
  <1> QED
      BY <1>3, <1>4, <1>5 DEF ReleaseIInv

LEMMA ReleaseInitially == ReleaseInit => ReleaseIInv
  <1> SUFFICES ASSUME ReleaseInit PROVE ReleaseIInv
      OBVIOUS
  <1> DEFINE first == [parent |-> NoCommit, second |-> NoCommit, anc |-> {1}, tree |-> 1,
                       current |-> TRUE, kind |-> "human"]
  <1>1. first \in Commit
        BY DEF Commit, CommitKinds, NoCommit
  <1>2. /\ commits = <<first>> /\ dev = 1 /\ prod = 1 /\ gated = {} /\ landed = {1}
        /\ pc = "idle" /\ pin = NoCommit /\ head = NoCommit /\ promoted = NoCommit
        /\ oldProd = NoCommit /\ fetched = NoCommit /\ lastPromote = NoCommit
        /\ grafts \subseteq {NoCommit}
        BY DEF ReleaseInit
  <1>3. first.anc = {1} /\ first.kind = "human" /\ {first.parent, first.second} = {NoCommit}
        OBVIOUS
  <1> HIDE DEF first
  <1>4. commits \in Seq(Commit) /\ Len(commits) = 1 /\ Ids = {1} /\ commits[1] = first
    <2>1. Len(commits) = 1 /\ commits[1] = first
          BY <1>2
    <2>2. commits \in Seq(Commit)
          BY <1>1, <1>2
    <2>3. Ids = 1 .. Len(commits)
          BY <2>2, LenProperties DEF Ids
    <2> QED
        BY <2>1, <2>2, <2>3
  <1>5. Len(commits) <= MaxCommits
        BY <1>4, ReleaseAssumption
  <1>6. ReleaseTypeOK
        BY <1>2, <1>4, <1>5 DEF ReleaseTypeOK
  <1>7. Graph
    <2>1. 1 \in first.anc /\ first.anc \subseteq 1 .. 1 /\ \A a \in first.anc : a = 1
          BY <1>3
    <2>2. \A c \in Ids : c = 1
          BY <1>4
    <2> QED
        BY <1>3, <1>4, <1>5, <2>1, <2>2 DEF Graph
  <1>8. OnBranches
        BY <1>2, <1>3, <1>4 DEF OnBranches
  <1>9. InHand
        BY <1>2 DEF InHand
  <1> QED
      BY <1>6, <1>7, <1>8, <1>9 DEF ReleaseIInv

\* People, Fixes and the dev gate.
LEMMA PeopleStep ==
  ASSUME ReleaseIInv,
         \/ DevPush("merge", FALSE) \/ \E bump \in {FALSE, Carry} : DevPush("human", bump)
         \/ Hotfix \/ Reconcile \/ GatePass
  PROVE  ReleaseIInv'
  <1>0. /\ Graph /\ dev \in Ids /\ prod \in Ids /\ landed \subseteq Ids /\ gated \subseteq Ids
        /\ commits[dev].current \in BOOLEAN /\ commits[prod].current \in BOOLEAN
        /\ New \in Nat /\ Carry \in BOOLEAN /\ prod \in landed
        /\ New # NoCommit /\ NoCommit \notin Ids
        BY IdsAre, ReleaseAssumption DEF ReleaseIInv, ReleaseTypeOK, OnBranches, Commit
  <1>1. ASSUME NEW kind \in {"human", "merge"}, NEW bump \in BOOLEAN, DevPush(kind, bump)
        PROVE  ReleaseIInv'
    <2>1. /\ AddCommit(dev, NoCommit, New, commits[dev].current /\ ~bump, kind) /\ dev' = New
          /\ UNCHANGED <<prod, gated, landed, clone, lastPromote>>
          BY <1>1 DEF DevPush
    <2>2. kind \in CommitKinds /\ (commits[dev].current /\ ~bump) \in BOOLEAN
          BY <1>0 DEF CommitKinds
    <2>3. /\ Graph' /\ Ids' = Ids \cup {New} /\ \A c \in Ids : commits'[c] = commits[c]
          /\ commits'[New].kind = kind
          /\ \A a : a \in commits'[New].anc <=> a = New \/ a \in commits[dev].anc
          BY <1>0, <2>1, <2>2, Grown
    <2>4. Grows
          BY <1>0, <2>1, <2>3 DEF Grows
    <2> QED
        BY <2>1, <2>4, OthersGrow
  <1>2. CASE Hotfix
    <2>1. /\ AddCommit(prod, NoCommit, New, commits[prod].current, "hotfix") /\ prod' = New
          /\ landed' = landed \cup {New}
          /\ UNCHANGED <<dev, gated, clone, lastPromote>>
          BY <1>2 DEF Hotfix
    <2>2. /\ Graph' /\ Ids' = Ids \cup {New} /\ \A c \in Ids : commits'[c] = commits[c]
          /\ \A a : a \in commits'[New].anc <=> a = New \/ a \in commits[prod].anc
      <3>1. "hotfix" \in CommitKinds
            BY DEF CommitKinds
      <3> QED
          BY <1>0, <2>1, <3>1, Grown
    <2>3. Grows
          BY <1>0, <2>1, <2>2 DEF Grows
    <2> QED
        BY <2>1, <2>3, OthersGrow
  <1>3. CASE Reconcile
    <2>1. /\ AddCommit(dev, prod, New, commits[dev].current, "merge") /\ dev' = New
          /\ UNCHANGED <<prod, gated, clone, lastPromote, landed>>
          BY <1>3 DEF Reconcile
    <2>2. /\ Graph' /\ Ids' = Ids \cup {New} /\ \A c \in Ids : commits'[c] = commits[c]
          /\ commits'[New].kind = "merge"
          /\ \A a : a \in commits'[New].anc
                      <=> a = New \/ a \in commits[dev].anc \/ a \in commits[prod].anc
      <3>1. "merge" \in CommitKinds
            BY DEF CommitKinds
      <3>2. prod # NoCommit
            BY <1>0
      <3> QED
          BY <1>0, <2>1, <3>1, <3>2, Grown
    <2>3. Grows
          BY <1>0, <2>1, <2>2 DEF Grows
    <2> QED
        BY <2>1, <2>3, OthersGrow
  <1>4. CASE GatePass
    <2>1. /\ gated' = gated \cup {dev}
          /\ UNCHANGED <<commits, dev, prod, clone, lastPromote, landed>>
          BY <1>4 DEF GatePass
    <2>2. Graph' /\ Ids' = Ids
          BY <1>0, <2>1 DEF Graph, Ids
    <2>3. Grows
          BY <1>0, <2>1, <2>2 DEF Grows
    <2> QED
        BY <2>1, <2>3, OthersGrow
  <1> QED
      BY <1>0, <1>1, <1>2, <1>3, <1>4

\* With the commits and the branches as they are, the graph is what it was.
LEMMA OriginStays ==
  ASSUME ReleaseIInv, UNCHANGED <<origin, landed>>
  PROVE  /\ Graph' /\ Ids' = Ids
         /\ lastPromote' = lastPromote => OnBranches'
  BY DEF ReleaseIInv, Graph, Ids, OnBranches, origin

\* The steps that fetch, look, record or give up, and leave origin alone.
LEMMA LookingStep ==
  ASSUME ReleaseIInv,
         \/ \E c \in gated \cup {NoCommit} : PromoteStart(c)
         \/ PromoteFetch \/ PromoteRecord \/ RevertStart \/ RevertRefused \/ Abort
  PROVE  ReleaseIInv'
  <1>0. /\ Graph /\ dev \in Ids /\ prod \in Ids /\ gated \subseteq Ids
        /\ {pin, head, promoted, oldProd, fetched, lastPromote} \subseteq Ids \cup {NoCommit}
        /\ ReleaseTypeOK /\ OnBranches /\ InHand
        BY DEF ReleaseIInv, ReleaseTypeOK
  <1>1. /\ origin' = origin /\ landed' = landed
        /\ commits' = commits /\ dev' = dev /\ prod' = prod /\ gated' = gated
        BY DEF PromoteStart, PromoteFetch, PromoteRecord, RevertStart, RevertRefused, Abort,
               origin
  <1>2. Graph' /\ Ids' = Ids
        BY <1>1, OriginStays
  <1>3. grafts' \subseteq Ids \cup {NoCommit}
    <2>1. \A cut \in SUBSET (Ids \cup {NoCommit}), t \in Ids :
            Fetched(cut, t) \in SUBSET (Ids \cup {NoCommit})
          BY <1>0, FetchedAre
    <2>2. grafts \in SUBSET (Ids \cup {NoCommit})
          BY <1>0 DEF ReleaseTypeOK
    <2>3. /\ Fetched(Fetched(grafts, dev), prod) \in SUBSET (Ids \cup {NoCommit})
          /\ Fetched(Fetched(Fetched(grafts, dev), prod), dev) \in SUBSET (Ids \cup {NoCommit})
          BY <1>0, <2>1, <2>2
    <2>4. \/ grafts' = grafts
          \/ grafts' = Fetched(Fetched(grafts, dev), prod)
          \/ grafts' = Fetched(Fetched(Fetched(grafts, dev), prod), dev)
          BY DEF PromoteStart, PromoteFetch, PromoteRecord, RevertStart, RevertRefused, Abort,
                 FetchHeads, FetchForRevert, clone
    <2> QED
        BY <2>2, <2>3, <2>4
  <1>4. ASSUME pc' \in {"idle", "check", "fetch", "push", "align", "record", "revert", "realign"},
               {pin', head', promoted', oldProd', fetched', lastPromote'}
                 \subseteq Ids \cup {NoCommit}
        PROVE  ReleaseTypeOK'
        BY <1>0, <1>1, <1>2, <1>3, <1>4 DEF ReleaseTypeOK
  <1>5. ASSUME NEW c \in gated \cup {NoCommit}, PromoteStart(c) PROVE ReleaseIInv'
    <2>1. /\ pc' = "check" /\ pin' = c /\ head' = dev /\ lastPromote' = lastPromote
          /\ UNCHANGED <<promoted, oldProd, fetched>>
          BY <1>5 DEF PromoteStart
    <2>2. InHand'
      <3>1. c # NoCommit => c \in gated /\ c \in commits[dev].anc
            BY <1>0 DEF OnBranches
      <3>2. dev \in commits[dev].anc
            BY <1>0 DEF Graph
      <3> QED
          BY <1>0, <1>1, <1>2, <2>1, <3>1, <3>2 DEF InHand
    <2>3. ReleaseTypeOK'
          BY <1>0, <1>4, <2>1
    <2> QED
        BY <1>1, <2>1, <2>2, <2>3, OriginStays DEF ReleaseIInv
  <1>6. CASE PromoteFetch
    <2>1. /\ pc = "fetch" /\ pc' = "push"
          /\ UNCHANGED <<pin, head, promoted, oldProd, fetched, lastPromote>>
          BY <1>6 DEF PromoteFetch
    <2>2. InHand'
          BY <1>0, <1>1, <1>2, <2>1 DEF InHand, PinIsGated
    <2>3. ReleaseTypeOK'
          BY <1>0, <1>4, <2>1
    <2> QED
        BY <1>1, <2>1, <2>2, <2>3, OriginStays DEF ReleaseIInv
  <1>7. CASE PromoteRecord
    <2>1. /\ pc = "record" /\ pc' = "idle"
          /\ lastPromote' = IF promoted = NoCommit THEN lastPromote ELSE promoted
          /\ {pin', head', promoted', oldProd', fetched'} = {NoCommit}
          BY <1>7 DEF PromoteRecord, Done
    <2>2. InHand'
          BY <2>1 DEF InHand
    <2>3. lastPromote' # NoCommit => /\ lastPromote' \in commits[prod].anc
                                     /\ lastPromote' \in commits[dev].anc
          BY <1>0, <2>1 DEF InHand, OnBranches
    <2>4. OnBranches'
          BY <1>0, <1>1, <2>3 DEF OnBranches
    <2>5. lastPromote' \in Ids \cup {NoCommit}
          BY <1>0, <2>1
    <2>6. ReleaseTypeOK'
          BY <1>0, <1>4, <2>1, <2>5
    <2> QED
        BY <1>1, <2>2, <2>4, <2>6, OriginStays DEF ReleaseIInv
  <1>8. CASE RevertStart
    <2>1. /\ pc' = "revert" /\ oldProd' = prod /\ fetched' = dev /\ prod = lastPromote
          /\ lastPromote # NoCommit
          /\ UNCHANGED <<pin, head, promoted, lastPromote>>
          BY <1>8 DEF RevertStart, IsDeploy
    <2>2. InHand'
          BY <2>1 DEF InHand
    <2>3. ReleaseTypeOK'
          BY <1>0, <1>4, <2>1
    <2> QED
        BY <1>1, <2>1, <2>2, <2>3, OriginStays DEF ReleaseIInv
  <1>9. CASE RevertRefused
    <2>1. UNCHANGED <<pc, pin, head, promoted, oldProd, fetched, lastPromote>>
          BY <1>9 DEF RevertRefused, worker
    <2>2. InHand'
          BY <1>0, <1>1, <1>2, <2>1 DEF InHand, PinIsGated
    <2>3. ReleaseTypeOK'
          BY <1>0, <1>4, <2>1 DEF ReleaseTypeOK
    <2> QED
        BY <1>1, <2>1, <2>2, <2>3, OriginStays DEF ReleaseIInv
  <1>10. CASE Abort
    <2>1. /\ pc' = "idle" /\ lastPromote' = lastPromote
          /\ {pin', head', promoted', oldProd', fetched'} = {NoCommit}
          BY <1>10 DEF Abort, Done
    <2>2. InHand'
          BY <2>1 DEF InHand
    <2>3. ReleaseTypeOK'
          BY <1>0, <1>4, <2>1
    <2> QED
        BY <1>1, <2>1, <2>2, <2>3, OriginStays DEF ReleaseIInv
  <1> QED
      BY <1>5, <1>6, <1>7, <1>8, <1>9, <1>10

\* A grafted clone finds ancestors only.
LEMMA FoundIsAncestor ==
  \A a, c : /\ Precedes(a, c) => a \in commits[c].anc
            /\ PrecedesFetched(a, c) => a \in commits[c].anc
  BY ReachIsBack DEF Precedes, PrecedesFetched

\* A pin at dev's tip is HEAD of the clone.
LEMMA TipIsHead ==
  ASSUME ReleaseIInv, pc = "check", VerifyFetchedTip, pin # NoCommit
  PROVE  pin = head
  <1>1. /\ Graph /\ pin = dev /\ dev \in Ids /\ head \in Ids
        /\ head \in commits[dev].anc /\ pin \in commits[head].anc
        BY DEF ReleaseIInv, ReleaseTypeOK, InHand, VerifyFetchedTip
  <1> QED
      BY <1>1, OneCommit

\* The steps that push, or make what is pushed.
LEMMA PushingStep ==
  ASSUME ReleaseIInv, PromoteCheck \/ PromotePush \/ PromoteAlign \/ RevertPush \/ RevertAlign
  PROVE  ReleaseIInv'
  <1>0. /\ Graph /\ dev \in Ids /\ prod \in Ids /\ gated \subseteq Ids /\ landed \subseteq Ids
        /\ {pin, head, promoted, oldProd, fetched, lastPromote} \subseteq Ids \cup {NoCommit}
        /\ ReleaseTypeOK /\ OnBranches /\ InHand /\ prod \in landed
        /\ New # NoCommit /\ NoCommit \notin Ids
        /\ \A c \in Ids : commits[c] \in Commit /\ commits[c].anc \subseteq Ids
        /\ grafts \in SUBSET (Ids \cup {NoCommit})
        BY IdsAre DEF ReleaseIInv, ReleaseTypeOK, OnBranches
  <1>1. \A cut \in SUBSET (Ids \cup {NoCommit}), t \in Ids :
          Fetched(cut, t) \in SUBSET (Ids \cup {NoCommit})
        BY <1>0, FetchedAre
  <1>2. \A a, c : /\ Precedes(a, c) => a \in commits[c].anc
                  /\ PrecedesFetched(a, c) => a \in commits[c].anc
        BY FoundIsAncestor
  <1>3. \A a \in Ids : \A b \in commits[a].anc : commits[b].anc \subseteq commits[a].anc
        BY <1>0 DEF Graph
  <1>4. ASSUME Grows, grafts' \subseteq Ids \cup {NoCommit},
               pc' \in {"idle", "check", "fetch", "push", "align", "record", "revert", "realign"},
               {pin', head', promoted', oldProd', fetched', lastPromote'}
                 \subseteq Ids' \cup {NoCommit}
        PROVE  ReleaseTypeOK'
        BY <1>0, <1>4 DEF ReleaseTypeOK, Grows, Graph
  <1>5. CASE PromoteCheck
    <2>1. /\ pc = "check" /\ pc' = "fetch" /\ VerifyFetchedTip
          /\ grafts' = Fetched(Fetched(grafts, dev), prod)
          /\ UNCHANGED <<dev, prod, gated, promoted, oldProd, fetched, lastPromote, landed>>
          BY <1>5 DEF PromoteCheck, FetchHeads
    <2>2. grafts' \subseteq Ids \cup {NoCommit}
      <3>1. Fetched(grafts, dev) \in SUBSET (Ids \cup {NoCommit})
            BY <1>0, <1>1
      <3> QED
          BY <1>0, <1>1, <2>1, <3>1
    <2>3. head \in Ids /\ (pin # NoCommit => pin \in gated /\ pin = head)
          BY <1>0, <2>1, TipIsHead DEF InHand
    <2>4. CASE /\ AddCommit(head, NoCommit, New, TRUE, "carry") /\ head' = New
               /\ pin' = IF pin = NoCommit THEN NoCommit ELSE New
      <3>1. /\ Graph' /\ Ids' = Ids \cup {New} /\ \A c \in Ids : commits'[c] = commits[c]
            /\ commits'[New].kind = "carry" /\ commits'[New].parent = head
        <4>1. "carry" \in CommitKinds /\ New \in Nat
              BY IdsAre, <1>0 DEF CommitKinds
        <4> QED
            BY <1>0, <2>3, <2>4, <4>1, Grown
      <3>2. Grows
            BY <1>0, <2>1, <3>1 DEF Grows
      <3>3. InHand'
            BY <1>0, <2>1, <2>3, <2>4, <3>1 DEF InHand, PinIsGated
      <3>4. ReleaseTypeOK'
            BY <1>0, <1>4, <2>1, <2>2, <2>4, <3>1, <3>2
      <3> QED
          BY <2>1, <3>1, <3>2, <3>3, <3>4, BranchesGrow DEF ReleaseIInv
    <2>5. CASE UNCHANGED <<commits, head, pin>>
      <3>1. Graph' /\ Ids' = Ids
            BY <1>0, <2>5 DEF Graph, Ids
      <3>2. Grows
            BY <1>0, <2>1, <2>5, <3>1 DEF Grows
      <3>3. InHand'
            BY <1>0, <2>1, <2>3, <2>5, <3>1 DEF InHand, PinIsGated
      <3>4. ReleaseTypeOK'
            BY <1>0, <1>4, <2>1, <2>2, <2>5, <3>1, <3>2
      <3> QED
          BY <2>1, <3>1, <3>2, <3>3, <3>4, BranchesGrow DEF ReleaseIInv
    <2> QED
        BY <1>5, <2>4, <2>5 DEF PromoteCheck
  <1>6. CASE PromotePush
    <2>1. /\ pc = "push" /\ pc' = "align" /\ prod' = Pushed /\ landed' = landed \cup {Pushed}
          /\ prod \in commits[Pushed].anc
          /\ UNCHANGED <<commits, dev, gated, pin, head, grafts, promoted, oldProd, fetched,
                         lastPromote>>
          BY <1>2, <1>6 DEF PromotePush
    <2>2. Pushed \in Ids /\ (pin # NoCommit => Pushed = pin)
          BY <1>0, <2>1 DEF InHand, Pushed
    <2>3. Graph' /\ Ids' = Ids /\ Pushed \in commits[Pushed].anc
          BY <1>0, <2>1, <2>2 DEF Graph, Ids
    <2>4. Grows
          BY <1>0, <1>3, <2>1, <2>2, <2>3 DEF Grows
    <2>5. InHand'
          BY <2>1, <2>2, <2>3 DEF InHand
    <2>6. ReleaseTypeOK'
          BY <1>0, <1>4, <2>1, <2>3, <2>4
    <2> QED
        BY <2>1, <2>3, <2>4, <2>5, <2>6, BranchesGrow DEF ReleaseIInv
  <1>7. CASE PromoteAlign
    <2>1. /\ pc = "align" /\ pc' = "record"
          /\ UNCHANGED <<commits, prod, gated, pin, head, oldProd, fetched, lastPromote, landed>>
          BY <1>7 DEF PromoteAlign
    <2>2. Graph' /\ Ids' = Ids
          BY <1>0, <2>1 DEF Graph, Ids
    <2>3. prod \in commits[prod].anc
          BY <1>0 DEF Graph
    <2>4. CASE /\ promoted' = IF pin = NoCommit THEN prod ELSE pin
               /\ IF pin = NoCommit THEN FetchHeads(prod, dev) ELSE FetchHead(dev)
               /\ PrecedesFetched(dev, promoted')
               /\ dev' = promoted'
      <3>1. /\ promoted' \in Ids /\ promoted' \in landed /\ promoted' \in commits[prod].anc
            /\ dev \in commits[promoted'].anc
            BY <1>0, <1>2, <2>1, <2>3, <2>4 DEF InHand
      <3>2. grafts' \subseteq Ids \cup {NoCommit}
            BY <1>0, <1>1, <2>4 DEF FetchHeads, FetchHead
      <3>3. promoted' \in commits[promoted'].anc
            BY <1>0, <3>1 DEF Graph
      <3>4. Grows
            BY <1>0, <1>3, <2>1, <2>2, <2>4, <3>1 DEF Grows
      <3>5. InHand'
            BY <2>1, <2>4, <3>1, <3>3 DEF InHand
      <3>6. ReleaseTypeOK'
            BY <1>0, <1>4, <2>1, <2>2, <3>1, <3>2, <3>4
      <3> QED
          BY <2>1, <2>2, <3>4, <3>5, <3>6, BranchesGrow DEF ReleaseIInv
    <2>5. CASE pin = NoCommit /\ promoted' = NoCommit /\ UNCHANGED <<dev, grafts>>
      <3>1. Grows
            BY <1>0, <2>1, <2>2, <2>5 DEF Grows
      <3>2. InHand'
            BY <2>1, <2>5 DEF InHand
      <3>3. ReleaseTypeOK'
            BY <1>0, <1>4, <2>1, <2>2, <2>5, <3>1
      <3> QED
          BY <2>1, <2>2, <3>1, <3>2, <3>3, BranchesGrow DEF ReleaseIInv
    <2> QED
        BY <1>7, <2>4, <2>5 DEF PromoteAlign
  <1>8. CASE RevertPush
    <2>1. /\ pc = "revert" /\ pc' = "realign" /\ prod' = New /\ head' = New
          /\ landed' = landed \cup {New} /\ prod \in commits[oldProd].anc
          /\ commits[oldProd].parent # NoCommit
          /\ UNCHANGED <<dev, gated, pin, grafts, promoted, oldProd, fetched, lastPromote>>
          BY <1>2, <1>8 DEF RevertPush
    <2>2. oldProd \in Ids /\ commits[oldProd].parent \in Ids
      <3>1. oldProd \in Ids
            BY <1>0, <2>1 DEF InHand
      <3> QED
          BY <1>0, <2>1, <3>1 DEF Graph
    <2>3. PICK tree \in Nat, current \in BOOLEAN :
            AddCommit(oldProd, NoCommit, tree, current, "revert")
      <3>1. EmptyTree \in Nat /\ TRUE \in BOOLEAN
            BY DEF EmptyTree
      <3>2. /\ commits[commits[oldProd].parent].tree \in Nat
            /\ commits[commits[oldProd].parent].current \in BOOLEAN
            BY <1>0, <2>2 DEF Commit
      <3> QED
          BY <1>8, <3>1, <3>2 DEF RevertPush
    <2>4. /\ Graph' /\ Ids' = Ids \cup {New} /\ \A c \in Ids : commits'[c] = commits[c]
          /\ \A a : a \in commits'[New].anc <=> a = New \/ a \in commits[oldProd].anc
      <3>1. "revert" \in CommitKinds
            BY DEF CommitKinds
      <3> QED
          BY <1>0, <2>2, <2>3, <3>1, Grown
    <2>5. Grows
          BY <1>0, <1>3, <2>1, <2>2, <2>4 DEF Grows
    <2>6. InHand'
          BY <2>1 DEF InHand
    <2>7. ReleaseTypeOK'
          BY <1>0, <1>4, <2>1, <2>4, <2>5
    <2> QED
        BY <2>1, <2>4, <2>5, <2>6, <2>7, BranchesGrow DEF ReleaseIInv
  <1>9. CASE RevertAlign
    <2>1. /\ pc = "realign" /\ pc' = "idle"
          /\ {pin', head', promoted', oldProd', fetched'} = {NoCommit}
          /\ UNCHANGED <<commits, prod, gated, grafts, lastPromote, landed>>
          /\ dev' = dev \/ (dev' = head /\ dev \in commits[head].anc)
          BY <1>2, <1>9 DEF RevertAlign, Done
    <2>2. Graph' /\ Ids' = Ids /\ head \in landed /\ head \in Ids
          BY <1>0, <2>1 DEF Graph, Ids, InHand
    <2>3. Grows
          BY <1>0, <1>3, <2>1, <2>2 DEF Grows
    <2>4. InHand'
          BY <2>1 DEF InHand
    <2>5. ReleaseTypeOK'
          BY <1>0, <1>4, <2>1, <2>2, <2>3
    <2> QED
        BY <2>1, <2>2, <2>3, <2>4, <2>5, BranchesGrow DEF ReleaseIInv
  <1> QED
      BY <1>5, <1>6, <1>7, <1>8, <1>9

LEMMA ReleaseStep == ReleaseIInv /\ [ReleaseNext]_releaseVars => ReleaseIInv'
  <1> SUFFICES ASSUME ReleaseIInv, [ReleaseNext]_releaseVars PROVE ReleaseIInv'
      OBVIOUS
  <1>1. CASE UNCHANGED releaseVars
    <2>1. UNCHANGED <<commits, dev, prod, gated, pc, pin, head, promoted, oldProd, fetched,
                      grafts, lastPromote, landed>>
          BY <1>1 DEF releaseVars, origin, clone, worker
    <2> QED
        BY <2>1 DEF ReleaseIInv, ReleaseTypeOK, Graph, OnBranches, InHand, PinIsGated, Ids
  <1>2. CASE ReleaseNext
        BY <1>2, PeopleStep, LookingStep, PushingStep DEF ReleaseNext
  <1> QED
      BY <1>1, <1>2

\* The invariant holds of every repository, however long its history: dev keeps what was
\* gated, and what the worker goes by stays true while others push.
THEOREM ReleaseInvariance == ReleaseSpec => []ReleaseIInv
  BY ReleaseInitially, ReleaseStep, PTL DEF ReleaseSpec

\* Every variable of Release keeps its type.
THEOREM ReleaseTypeCorrect == ReleaseSpec => []ReleaseTypeOK
  <1>1. ReleaseIInv => ReleaseTypeOK
        BY DEF ReleaseIInv
  <1> QED
      BY <1>1, ReleaseInvariance, PTL

\* A release is whole on dev or not there: what is on record is part of both branches,
\* and a tag carry that dev has is one prod has had.
THEOREM ReleasesStayWhole == ReleaseSpec => []ReleasesWhole
  <1>1. ReleaseIInv => ReleasesWhole
        BY DEF ReleaseIInv, OnBranches, ReleasesWhole, IsAncestor
  <1> QED
      BY <1>1, ReleaseInvariance, PTL

\* A pinned Promote puts on prod what the dev gate passed on, or the tag carry on top of
\* it; a Revert that lands has reverted the Promote on record, still prod's tip.
THEOREM ProdAlwaysMovesRightly == ReleaseSpec => ProdMovesRightly
  <1>1. ASSUME ReleaseIInv, [ReleaseNext]_releaseVars, Promotes, pin # NoCommit
        PROVE  \/ prod' \in gated
               \/ commits[prod'].kind = "carry" /\ commits[prod'].parent \in gated
    <2>1. PromotePush
          BY <1>1 DEF Promotes, ReleaseNext, releaseVars, clone, worker, DevPush, Hotfix, Reconcile,
                      GatePass, PromoteStart, PromoteCheck, PromoteFetch, PromoteAlign,
                      PromoteRecord, RevertStart, RevertRefused, RevertPush, RevertAlign, Abort, Done
    <2> QED
        BY <1>1, <2>1 DEF PromotePush, Pushed, ReleaseIInv, InHand, PinIsGated
  <1>2. ASSUME ReleaseIInv, [ReleaseNext]_releaseVars, Reverts
        PROVE  prod = lastPromote /\ commits'[prod'].parent = lastPromote
    <2>1. RevertPush
          BY <1>2 DEF Reverts, ReleaseNext, releaseVars, clone, worker, DevPush, Hotfix, Reconcile,
                      GatePass, PromoteStart, PromoteCheck, PromoteFetch, PromotePush, PromoteAlign,
                      PromoteRecord, RevertStart, RevertRefused, RevertAlign, Abort, Done
    <2>2. /\ Graph /\ prod \in Ids /\ oldProd \in Ids /\ oldProd = lastPromote
          /\ lastPromote \in commits[prod].anc /\ prod \in commits[oldProd].anc
          BY <1>2, <2>1, FoundIsAncestor, IdsAre
             DEF RevertPush, ReleaseIInv, ReleaseTypeOK, InHand, OnBranches
    <2>3. prod = lastPromote
          BY <2>2, OneCommit
    <2>4. commits' = Append(commits, commits'[New]) /\ commits'[New].parent = oldProd
      <3>1. commits \in Seq(Commit)
            BY <2>2 DEF Graph
      <3>2. PICK tree, current : AddCommit(oldProd, NoCommit, tree, current, "revert")
            BY <2>1 DEF RevertPush
      <3>3. PICK new : commits' = Append(commits, new) /\ new.parent = oldProd
            BY <3>2 DEF AddCommit
      <3>4. commits'[New] = new
            BY <3>1, <3>3 DEF New
      <3> QED
          BY <3>3, <3>4
    <2> QED
        BY <2>1, <2>2, <2>3, <2>4 DEF RevertPush
  <1>3. ReleaseSpec => OnlyGatedPromoted
    <2>1. ReleaseIInv /\ [ReleaseNext]_releaseVars
            => [Promotes /\ pin # NoCommit =>
                  \/ prod' \in gated
                  \/ commits[prod'].kind = "carry" /\ commits[prod'].parent \in gated]_releaseVars
          BY <1>1
    <2> QED
        BY <2>1, ReleaseInvariance, PTL DEF ReleaseSpec, OnlyGatedPromoted
  <1>4. ReleaseSpec => RevertTargetsPromote
    <2>1. ReleaseIInv /\ [ReleaseNext]_releaseVars
            => [Reverts => prod = lastPromote /\ commits'[prod'].parent = lastPromote]_releaseVars
          BY <1>2
    <2> QED
        BY <2>1, ReleaseInvariance, PTL DEF ReleaseSpec, RevertTargetsPromote
  <1> QED
      BY <1>3, <1>4 DEF ProdMovesRightly

-----------------------------------------------------------------------------
(* The two together *)

\* A behaviour of the composition is one of either part: what is proved of a part holds of
\* the runs.
LEMMA DeployParts == AllSpec => Spec /\ ReleaseSpec
  <1>1. AllInit => Init /\ ReleaseInit
        BY DEF AllInit
  <1>2. [AllNext]_allVars => [Next]_vars /\ [ReleaseNext]_releaseVars
        BY DEF AllNext, allVars
  <1> QED
      BY <1>1, <1>2, PTL DEF AllSpec, Spec, ReleaseSpec

\* Gates and branches together keep to their types and bounds, for any number of
\* deliveries, slots, commits and pushes.
THEOREM DeployTypesCorrect == AllSpec => []TypesOK
  <1>1. TypeOK /\ ReleaseTypeOK => TypesOK
        BY DEF TypesOK
  <1> QED
      BY <1>1, DeployParts, GatesTypeCorrect, ReleaseTypeCorrect, PTL
=============================================================================
