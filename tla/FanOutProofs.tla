---------------------------- MODULE FanOutProofs ----------------------------
(* Proofs about FanOut for every set of repos and sources and every capacity *)
(* that FanOutAssumption allows.                                             *)
EXTENDS FanOut, TLAPS, FiniteSetTheorems, SequenceTheorems

\* What the fields of a signal are.
LEMMA Fields ==
  \A x \in Signal : x.id \in Nat \ {0} /\ x.repo \in Repos /\ x.source \in Sources
BY DEF Signal

\* A sequence of signals with one more at its back.
LEMMA AtBack ==
  ASSUME NEW q \in Seq(Signal), NEW x \in Signal
  PROVE  /\ Append(q, x) \in Seq(Signal)
         /\ Len(q) \in Nat
         /\ Len(Append(q, x)) = Len(q) + 1
         /\ \A i \in 1..Len(q) + 1 :
              Append(q, x)[i] = IF i = Len(q) + 1 THEN x ELSE q[i]
BY AppendProperties, LenProperties

\* A sequence of signals without the one at its front.
LEMMA FromFront ==
  ASSUME NEW q \in Seq(Signal), q # <<>>
  PROVE  /\ Head(q) = q[1]
         /\ Head(q) \in Signal
         /\ Tail(q) \in Seq(Signal)
         /\ Len(q) \in Nat \ {0}
         /\ Len(Tail(q)) = Len(q) - 1
         /\ \A i \in 1..Len(q) - 1 : Tail(q)[i] = q[i + 1]
BY HeadTailProperties, LenProperties, EmptySeq

\* The same of the elements, whatever the order.
LEMMA Elements == \A q \in Seq(Signal) : \A i \in 1..Len(q) : q[i] \in Signal
BY ElementOfSeq

\* The invariant holds initially.
LEMMA InitIInv == Init => IInv
<1> SUFFICES ASSUME Init PROVE IInv
  OBVIOUS
<1>1. Len(<<>>) = 0 /\ <<>> \in Seq(Signal)
  BY EmptySeq
<1>2. TypeOK
  <2>1. /\ signals \in Seq(Signal) /\ Len(signals) <= SignalsCap
        /\ keep \in Seq(Signal)
    BY <1>1, FanOutAssumption DEF Init
  <2>2. queue \in [Repos -> Seq(Signal)]
    BY <1>1 DEF Init
  <2>3. \A r \in Repos : Len(queue[r]) <= WorkerCap
    BY <1>1, FanOutAssumption DEF Init
  <2>4. QED
    BY <2>1, <2>2, <2>3 DEF Init, TypeOK, Pc
<1>3. Shape
  BY <1>1 DEF Init, Shape
<1>4. OnePerSource
  BY <1>1 DEF Init, OnePerSource
<1>5. ArrivalOrder
  <2>1. Started = {}
    BY DEF Init, Started
  <2>2. QED
    BY <1>1, <2>1 DEF Init, ArrivalOrder, Received
<1>6. QED
  BY <1>2, <1>3, <1>4, <1>5 DEF IInv

\* What Signals holds after it accepts a signal.
LEMMA AcceptSignal ==
  ASSUME TypeOK, NEW r \in Repos, NEW s \in Sources, Accept(r, s)
  PROVE  /\ accepted' = accepted + 1
         /\ accepted' \in Nat
         /\ signals' \in Seq(Signal)
         /\ Len(signals') = Len(signals) + 1
         /\ Len(signals') <= SignalsCap
         /\ \A i \in 1..Len(signals) : signals'[i] = signals[i]
         /\ signals'[Len(signals) + 1].id = accepted + 1
<1> DEFINE new == [id |-> accepted + 1, repo |-> r, source |-> s]
<1>1. new \in Signal
  BY DEF TypeOK, Signal
<1>2. signals \in Seq(Signal) /\ signals' = Append(signals, new)
  BY DEF TypeOK, Accept
<1>3. new.id = accepted + 1
  OBVIOUS
<1> HIDE DEF new
<1>4. /\ signals' \in Seq(Signal)
      /\ Len(signals) \in Nat
      /\ Len(signals') = Len(signals) + 1
      /\ \A i \in 1..Len(signals) + 1 :
           signals'[i] = IF i = Len(signals) + 1 THEN new ELSE signals[i]
  BY <1>1, <1>2, AtBack
<1>5. QED
  BY <1>3, <1>4, FanOutAssumption DEF TypeOK, Accept

\* The worker's channel after one signal is sent to it.
LEMMA SendTo ==
  ASSUME TypeOK, NEW r \in Repos, NEW x \in Signal, Len(queue[r]) < WorkerCap,
         queue' = [queue EXCEPT ![r] = Append(@, x)]
  PROVE  /\ queue' \in [Repos -> Seq(Signal)]
         /\ \A o \in Repos : Len(queue'[o]) <= WorkerCap
         /\ \A o \in Repos : o # r => queue'[o] = queue[o]
         /\ Len(queue[r]) \in Nat
         /\ Len(queue'[r]) = Len(queue[r]) + 1
         /\ \A i \in 1..Len(queue[r]) + 1 :
              queue'[r][i] = IF i = Len(queue[r]) + 1 THEN x ELSE queue[r][i]
<1>1. queue[r] \in Seq(Signal)
  BY DEF TypeOK
<1>2. queue'[r] = Append(queue[r], x) /\ \A o \in Repos : o # r => queue'[o] = queue[o]
  BY DEF TypeOK
<1>3. /\ queue'[r] \in Seq(Signal)
      /\ Len(queue[r]) \in Nat
      /\ Len(queue'[r]) = Len(queue[r]) + 1
      /\ \A i \in 1..Len(queue[r]) + 1 :
           queue'[r][i] = IF i = Len(queue[r]) + 1 THEN x ELSE queue[r][i]
  BY <1>1, <1>2, AtBack
<1>4. queue' \in [Repos -> Seq(Signal)]
  BY <1>2, <1>3 DEF TypeOK
<1>5. \A o \in Repos : Len(queue'[o]) <= WorkerCap
  BY <1>2, <1>3, FanOutAssumption DEF TypeOK
<1>6. QED
  BY <1>2, <1>3, <1>4, <1>5

\* The worker's channel after one signal is received from it.
LEMMA ReceiveFrom ==
  ASSUME TypeOK, NEW r \in Repos, queue[r] # <<>>,
         queue' = [queue EXCEPT ![r] = Tail(@)]
  PROVE  /\ queue' \in [Repos -> Seq(Signal)]
         /\ \A o \in Repos : Len(queue'[o]) <= WorkerCap
         /\ \A o \in Repos : o # r => queue'[o] = queue[o]
         /\ Len(queue[r]) \in Nat \ {0}
         /\ Head(queue[r]) = queue[r][1]
         /\ Head(queue[r]) \in Signal
         /\ Len(queue'[r]) = Len(queue[r]) - 1
         /\ \A i \in 1..Len(queue[r]) - 1 : queue'[r][i] = queue[r][i + 1]
<1>1. queue[r] \in Seq(Signal)
  BY DEF TypeOK
<1>2. queue'[r] = Tail(queue[r]) /\ \A o \in Repos : o # r => queue'[o] = queue[o]
  BY DEF TypeOK
<1>3. /\ Head(queue[r]) = queue[r][1]
      /\ Head(queue[r]) \in Signal
      /\ queue'[r] \in Seq(Signal)
      /\ Len(queue[r]) \in Nat \ {0}
      /\ Len(queue'[r]) = Len(queue[r]) - 1
      /\ \A i \in 1..Len(queue[r]) - 1 : queue'[r][i] = queue[r][i + 1]
  BY <1>1, <1>2, FromFront
<1>4. queue' \in [Repos -> Seq(Signal)]
  BY <1>2, <1>3 DEF TypeOK
<1>5. \A o \in Repos : Len(queue'[o]) <= WorkerCap
  BY <1>2, <1>3, FanOutAssumption DEF TypeOK
<1>6. QED
  BY <1>2, <1>3, <1>4, <1>5

\* Every step preserves the types and the capacities of the channels.
LEMMA NextTypeOK == TypeOK /\ Shape /\ [Next]_vars => TypeOK'
<1> SUFFICES ASSUME TypeOK, Shape, [Next]_vars PROVE TypeOK'
  OBVIOUS
<1>0. hand # NoSignal => hand \in Signal /\ hand.repo \in Repos
  BY Fields DEF TypeOK
<1>1. ASSUME NEW r \in Repos, NEW s \in Sources, Emit(r, s) PROVE TypeOK'
  <2>1. Accept(r, s)
    BY <1>1 DEF Emit
  <2>2. QED
    BY <1>1, <2>1, AcceptSignal DEF Emit, TypeOK, Pc
<1>2. CASE Receive
  <2>1. signals \in Seq(Signal) /\ signals # <<>>
    BY <1>2 DEF Receive, TypeOK
  <2>2. /\ hand' \in Signal
        /\ signals' \in Seq(Signal)
        /\ Len(signals') <= SignalsCap
    BY <1>2, <2>1, FromFront, FanOutAssumption DEF Receive, TypeOK
  <2>3. QED
    BY <1>2, <2>2 DEF Receive, TypeOK, Pc
<1>3. CASE DrainOne
  <2>1. hand.repo \in Repos
    BY <1>0, <1>3 DEF DrainOne, Shape
  <2>2. /\ queue' \in [Repos -> Seq(Signal)]
        /\ \A o \in Repos : Len(queue'[o]) <= WorkerCap
        /\ Head(queue[hand.repo]) \in Signal
    BY <1>3, <2>1, ReceiveFrom DEF DrainOne
  <2>3. CASE Head(queue[hand.repo]).source = hand.source
    BY <1>3, <2>2, <2>3 DEF DrainOne, TypeOK, Pc
  <2>4. CASE Head(queue[hand.repo]).source # hand.source
    <3>1. keep' = Append(keep, Head(queue[hand.repo])) /\ UNCHANGED superseded
      BY <1>3, <2>4 DEF DrainOne
    <3>2. keep' \in Seq(Signal)
      BY <2>2, <3>1, AtBack DEF TypeOK
    <3>3. QED
      BY <1>3, <2>2, <3>1, <3>2 DEF DrainOne, TypeOK, Pc
  <2>5. QED
    BY <2>3, <2>4
<1>4. CASE DrainDone
  BY <1>4 DEF DrainDone, TypeOK, Pc
<1>5. CASE Requeue
  <2>1. hand.repo \in Repos
    BY <1>0, <1>5 DEF Requeue, Shape
  <2>2. Head(keep) \in Signal /\ Tail(keep) \in Seq(Signal)
    BY <1>5, FromFront DEF Requeue, TypeOK
  <2>3. /\ queue' \in [Repos -> Seq(Signal)]
        /\ \A o \in Repos : Len(queue'[o]) <= WorkerCap
    BY <1>5, <2>1, <2>2, SendTo DEF Requeue
  <2>4. QED
    BY <1>5, <2>2, <2>3 DEF Requeue, TypeOK, Pc
<1>6. CASE RequeueDone
  BY <1>6 DEF RequeueDone, TypeOK, Pc
<1>7. CASE Send
  <2>1. hand \in Signal /\ hand.repo \in Repos
    BY <1>0, <1>7 DEF Send, Shape
  <2>2. /\ queue' \in [Repos -> Seq(Signal)]
        /\ \A o \in Repos : Len(queue'[o]) <= WorkerCap
    BY <1>7, <2>1, SendTo DEF Send
  <2>3. QED
    BY <1>7, <2>2 DEF Send, TypeOK, Pc
<1>8. CASE Exit
  <2>1. pc = "send" => hand \in Signal
    BY <1>0 DEF Shape
  <2>2. QED
    BY <1>8, <2>1 DEF Exit, TypeOK, Pc
<1>9. CASE Return
  BY <1>9 DEF Return, TypeOK, Pc
<1>10. ASSUME NEW r \in Repos, Take(r) PROVE TypeOK'
  <2>1. /\ queue' \in [Repos -> Seq(Signal)]
        /\ \A o \in Repos : Len(queue'[o]) <= WorkerCap
        /\ Head(queue[r]) \in Signal
    BY <1>10, ReceiveFrom DEF Take
  <2>2. owed' \in [Repos -> SUBSET Repos]
    BY <1>10 DEF Take, TypeOK
  <2>3. QED
    BY <1>10, <2>1, <2>2 DEF Take, TypeOK, Pc
<1>11. ASSUME NEW r \in Repos, Offer(r) PROVE TypeOK'
  <2>1. PICK up \in owed[r] :
          /\ owed' = [owed EXCEPT ![r] = @ \ {up}]
          /\ Accept(up, CI) \/ UNCHANGED <<accepted, signals>>
    BY <1>11 DEF Offer
  <2>2. up \in Repos /\ owed' \in [Repos -> SUBSET Repos]
    BY <2>1 DEF TypeOK
  <2>3. /\ accepted' \in Nat
        /\ signals' \in Seq(Signal)
        /\ Len(signals') <= SignalsCap
    BY <2>1, <2>2, AcceptSignal, FanOutAssumption DEF TypeOK
  <2>4. QED
    BY <1>11, <2>2, <2>3 DEF Offer, TypeOK, Pc
<1>12. ASSUME NEW r \in Repos, Finish(r) PROVE TypeOK'
  BY <1>12 DEF Finish, TypeOK, Pc
<1>13. CASE Cancel
  BY <1>13 DEF Cancel, TypeOK, Pc
<1>14. CASE UNCHANGED vars
  BY <1>14 DEF vars, TypeOK, Pc
<1>15. QED
  BY <1>1, <1>2, <1>3, <1>4, <1>5, <1>6, <1>7, <1>8, <1>9, <1>10, <1>11, <1>12,
     <1>13, <1>14 DEF Next, Dispatcher

\* What each step that moves a signal does to the channel of the repo in hand
\* (or, for Take, of the worker's repo) and to keep, index by index.
LEMMA InHand ==
  ASSUME TypeOK, Shape, pc \in {"drain", "requeue", "send"}
  PROVE  hand \in Signal /\ hand # NoSignal /\ hand.repo \in Repos /\ hand.source \in Sources
BY Fields DEF TypeOK, Shape

LEMMA DrainOneEffect ==
  ASSUME TypeOK, Shape, DrainOne
  PROVE  /\ \A o \in Repos : o # hand.repo => queue'[o] = queue[o]
         /\ Len(queue[hand.repo]) \in Nat \ {0}
         /\ queue[hand.repo][1] \in Signal
         /\ queue[hand.repo][1].repo = hand.repo
         /\ Len(queue'[hand.repo]) = Len(queue[hand.repo]) - 1
         /\ \A i \in 1..Len(queue'[hand.repo]) :
              /\ i + 1 \in 2..Len(queue[hand.repo])
              /\ queue'[hand.repo][i] = queue[hand.repo][i + 1]
         /\ Len(keep) \in Nat
         /\ \/ /\ queue[hand.repo][1].source = hand.source
               /\ superseded' = superseded \cup {queue[hand.repo][1]}
               /\ keep' = keep
            \/ /\ queue[hand.repo][1].source # hand.source
               /\ superseded' = superseded
               /\ Len(keep') = Len(keep) + 1
               /\ \A i \in 1..Len(keep) + 1 :
                    keep'[i] = IF i = Len(keep) + 1 THEN queue[hand.repo][1] ELSE keep[i]
<1>1. hand.repo \in Repos /\ queue[hand.repo] # <<>>
  BY InHand DEF DrainOne
<1>2. /\ \A o \in Repos : o # hand.repo => queue'[o] = queue[o]
      /\ Len(queue[hand.repo]) \in Nat \ {0}
      /\ Head(queue[hand.repo]) = queue[hand.repo][1]
      /\ Head(queue[hand.repo]) \in Signal
      /\ Len(queue'[hand.repo]) = Len(queue[hand.repo]) - 1
      /\ \A i \in 1..Len(queue[hand.repo]) - 1 :
           queue'[hand.repo][i] = queue[hand.repo][i + 1]
  BY <1>1, ReceiveFrom DEF DrainOne
<1>3. queue[hand.repo][1].repo = hand.repo
  BY <1>1, <1>2 DEF Shape
<1>4. Len(keep) \in Nat /\ keep \in Seq(Signal)
  BY LenProperties DEF TypeOK
<1>5. CASE queue[hand.repo][1].source = hand.source
  BY <1>2, <1>3, <1>4, <1>5 DEF DrainOne
<1>6. CASE queue[hand.repo][1].source # hand.source
  <2>1. keep' = Append(keep, queue[hand.repo][1]) /\ superseded' = superseded
    BY <1>2, <1>6 DEF DrainOne
  <2>2. /\ Len(keep') = Len(keep) + 1
        /\ \A i \in 1..Len(keep) + 1 :
             keep'[i] = IF i = Len(keep) + 1 THEN queue[hand.repo][1] ELSE keep[i]
    BY <1>2, <1>4, <2>1, AtBack
  <2>3. QED
    BY <1>2, <1>3, <1>4, <1>6, <2>1, <2>2
<1>7. QED
  BY <1>5, <1>6

LEMMA RequeueEffect ==
  ASSUME TypeOK, Shape, Requeue
  PROVE  /\ \A o \in Repos : o # hand.repo => queue'[o] = queue[o]
         /\ Len(queue[hand.repo]) \in Nat
         /\ Len(queue'[hand.repo]) = Len(queue[hand.repo]) + 1
         /\ \A i \in 1..Len(queue[hand.repo]) + 1 :
              queue'[hand.repo][i] = IF i = Len(queue[hand.repo]) + 1 THEN keep[1]
                                                                     ELSE queue[hand.repo][i]
         /\ Len(keep) \in Nat \ {0}
         /\ keep[1] \in Signal
         /\ keep[1].repo = hand.repo
         /\ Len(keep') = Len(keep) - 1
         /\ \A i \in 1..Len(keep') : i + 1 \in 2..Len(keep) /\ keep'[i] = keep[i + 1]
<1>1. /\ Head(keep) = keep[1]
      /\ Head(keep) \in Signal
      /\ Len(keep) \in Nat \ {0}
      /\ Len(keep') = Len(keep) - 1
      /\ \A i \in 1..Len(keep) - 1 : keep'[i] = keep[i + 1]
  BY FromFront DEF Requeue, TypeOK
<1>2. keep[1].repo = hand.repo
  BY <1>1 DEF Shape
<1>3. hand.repo \in Repos
  BY InHand DEF Requeue
<1>4. /\ \A o \in Repos : o # hand.repo => queue'[o] = queue[o]
      /\ Len(queue[hand.repo]) \in Nat
      /\ Len(queue'[hand.repo]) = Len(queue[hand.repo]) + 1
      /\ \A i \in 1..Len(queue[hand.repo]) + 1 :
           queue'[hand.repo][i] = IF i = Len(queue[hand.repo]) + 1 THEN Head(keep)
                                                                  ELSE queue[hand.repo][i]
  BY <1>1, <1>3, SendTo DEF Requeue
<1>5. QED
  BY <1>1, <1>2, <1>4

LEMMA SendEffect ==
  ASSUME TypeOK, Shape, Send
  PROVE  /\ \A o \in Repos : o # hand.repo => queue'[o] = queue[o]
         /\ Len(queue[hand.repo]) \in Nat
         /\ Len(queue'[hand.repo]) = Len(queue[hand.repo]) + 1
         /\ \A i \in 1..Len(queue[hand.repo]) + 1 :
              queue'[hand.repo][i] = IF i = Len(queue[hand.repo]) + 1 THEN hand
                                                                     ELSE queue[hand.repo][i]
         /\ Len(keep') = 0
<1>1. hand \in Signal /\ hand.repo \in Repos
  BY InHand DEF Send
<1>2. Len(keep') = 0
  BY EmptySeq DEF Send, Shape
<1>3. QED
  BY <1>1, <1>2, SendTo DEF Send

LEMMA TakeEffect ==
  ASSUME TypeOK, Shape, NEW r \in Repos, Take(r)
  PROVE  /\ \A o \in Repos : o # r => queue'[o] = queue[o]
         /\ Len(queue[r]) \in Nat \ {0}
         /\ queue[r][1] \in Signal
         /\ queue[r][1].repo = r
         /\ busy' = [busy EXCEPT ![r] = queue[r][1]]
         /\ Len(queue'[r]) = Len(queue[r]) - 1
         /\ \A i \in 1..Len(queue'[r]) :
              i + 1 \in 2..Len(queue[r]) /\ queue'[r][i] = queue[r][i + 1]
<1>1. /\ \A o \in Repos : o # r => queue'[o] = queue[o]
      /\ Len(queue[r]) \in Nat \ {0}
      /\ Head(queue[r]) = queue[r][1]
      /\ Head(queue[r]) \in Signal
      /\ Len(queue'[r]) = Len(queue[r]) - 1
      /\ \A i \in 1..Len(queue[r]) - 1 : queue'[r][i] = queue[r][i + 1]
  BY ReceiveFrom DEF Take
<1>2. QED
  BY <1>1 DEF Take, Shape

\* Every step preserves whose signals each channel holds.
LEMMA NextShape == TypeOK /\ Shape /\ [Next]_vars => Shape'
<1> SUFFICES ASSUME TypeOK, Shape, [Next]_vars PROVE Shape'
  OBVIOUS
<1>1. ASSUME NEW r \in Repos, NEW s \in Sources, Emit(r, s) PROVE Shape'
  BY <1>1 DEF Emit, Shape
<1>2. CASE Receive
  <2>1. Head(signals) \in Signal
    BY <1>2, FromFront DEF Receive, TypeOK
  <2>2. keep = <<>> /\ hand' # NoSignal /\ pc' = "drain"
    BY <1>2, <2>1, FanOutAssumption DEF Receive, Shape
  <2>3. QED
    BY <1>2, <2>2, EmptySeq DEF Receive, Shape
<1>3. CASE DrainOne
  <2>1. \A r \in Repos : \A i \in 1..Len(queue'[r]) : queue'[r][i].repo = r
    <3> SUFFICES ASSUME NEW r \in Repos, NEW i \in 1..Len(queue'[r])
                 PROVE  queue'[r][i].repo = r
      OBVIOUS
    <3>1. CASE r = hand.repo
      <4>1. i + 1 \in 1..Len(queue[r]) /\ queue'[r][i] = queue[r][i + 1]
        BY <1>3, <3>1, DrainOneEffect
      <4>2. QED
        BY <4>1 DEF Shape
    <3>2. CASE r # hand.repo
      <4>1. queue'[r] = queue[r]
        BY <1>3, <3>2, DrainOneEffect
      <4>2. QED
        BY <4>1 DEF Shape
    <3>3. QED
      BY <3>1, <3>2
  <2>2. \A i \in 1..Len(keep') : keep'[i].repo = hand.repo
    BY <1>3, DrainOneEffect DEF Shape
  <2>3. hand' = hand /\ pc' = pc /\ busy' = busy /\ pc = "drain"
    BY <1>3 DEF DrainOne
  <2>4. QED
    BY <2>1, <2>2, <2>3 DEF Shape
<1>4. CASE DrainDone
  BY <1>4 DEF DrainDone, Shape
<1>5. CASE Requeue
  <2>1. \A r \in Repos : \A i \in 1..Len(queue'[r]) : queue'[r][i].repo = r
    <3> SUFFICES ASSUME NEW r \in Repos, NEW i \in 1..Len(queue'[r])
                 PROVE  queue'[r][i].repo = r
      OBVIOUS
    <3>1. CASE r = hand.repo
      <4>1. queue'[r][i] = keep[1] \/ (i \in 1..Len(queue[r]) /\ queue'[r][i] = queue[r][i])
        BY <1>5, <3>1, RequeueEffect
      <4>2. keep[1].repo = r
        BY <1>5, <3>1, RequeueEffect
      <4>3. QED
        BY <4>1, <4>2 DEF Shape
    <3>2. CASE r # hand.repo
      BY <1>5, <3>2, RequeueEffect DEF Shape
    <3>3. QED
      BY <3>1, <3>2
  <2>2. \A i \in 1..Len(keep') : keep'[i].repo = hand.repo
    BY <1>5, RequeueEffect DEF Shape
  <2>3. QED
    BY <1>5, <2>1, <2>2 DEF Requeue, Shape
<1>6. CASE RequeueDone
  BY <1>6, EmptySeq DEF RequeueDone, Shape
<1>7. CASE Send
  <2>1. \A r \in Repos : \A i \in 1..Len(queue'[r]) : queue'[r][i].repo = r
    BY <1>7, SendEffect DEF Shape
  <2>2. QED
    BY <1>7, <2>1, SendEffect DEF Send, Shape
<1>8. CASE Exit
  BY <1>8, EmptySeq DEF Exit, Shape
<1>9. CASE Return
  BY <1>9, EmptySeq DEF Return, Shape
<1>10. ASSUME NEW r \in Repos, Take(r) PROVE Shape'
  <2>1. ASSUME NEW o \in Repos, NEW i \in 1..Len(queue'[o]) PROVE queue'[o][i].repo = o
    <3>1. CASE o = r
      <4>1. i + 1 \in 1..Len(queue[r]) /\ queue'[r][i] = queue[r][i + 1]
        BY <1>10, <3>1, TakeEffect
      <4>2. QED
        BY <3>1, <4>1 DEF Shape
    <3>2. CASE o # r
      <4>1. queue'[o] = queue[o]
        BY <1>10, <3>2, TakeEffect
      <4>2. QED
        BY <4>1 DEF Shape
    <3>3. QED
      BY <3>1, <3>2
  <2>2. \A o \in Repos : busy'[o] # NoSignal => busy'[o].repo = o
    <3>1. busy' = [busy EXCEPT ![r] = queue[r][1]] /\ queue[r][1].repo = r
      BY <1>10, TakeEffect
    <3>2. busy \in [Repos -> Signal \cup {NoSignal}]
      BY DEF TypeOK
    <3>3. QED
      BY <3>1, <3>2 DEF Shape
  <2>3. UNCHANGED <<hand, pc, keep>>
    BY <1>10 DEF Take
  <2>4. QED
    BY <2>1, <2>2, <2>3 DEF Shape
<1>11. ASSUME NEW r \in Repos, Offer(r) PROVE Shape'
  BY <1>11 DEF Offer, Shape
<1>12. ASSUME NEW r \in Repos, Finish(r) PROVE Shape'
  BY <1>12 DEF Finish, Shape, TypeOK
<1>13. CASE Cancel
  BY <1>13 DEF Cancel, Shape
<1>14. CASE UNCHANGED vars
  BY <1>14 DEF vars, Shape
<1>15. QED
  BY <1>1, <1>2, <1>3, <1>4, <1>5, <1>6, <1>7, <1>8, <1>9, <1>10, <1>11, <1>12,
     <1>13, <1>14 DEF Next, Dispatcher

\* Every step preserves one signal per Source.
LEMMA NextOnePerSource == TypeOK /\ Shape /\ OnePerSource /\ [Next]_vars => OnePerSource'
<1> SUFFICES ASSUME TypeOK, Shape, OnePerSource, [Next]_vars PROVE OnePerSource'
  OBVIOUS
<1>1. ASSUME NEW r \in Repos, NEW s \in Sources, Emit(r, s) PROVE OnePerSource'
  BY <1>1 DEF Emit, OnePerSource
<1>2. CASE Receive
  <2>1. Len(keep') = 0 /\ pc' = "drain" /\ queue' = queue
    BY <1>2, EmptySeq DEF Receive, Shape
  <2>2. QED
    BY <2>1 DEF OnePerSource
<1>3. CASE DrainOne
  <2>1. \A r \in Repos : \A i, j \in 1..Len(queue'[r]) :
          i # j => queue'[r][i].source # queue'[r][j].source
    <3> SUFFICES ASSUME NEW r \in Repos, NEW i \in 1..Len(queue'[r]),
                        NEW j \in 1..Len(queue'[r]), i # j
                 PROVE  queue'[r][i].source # queue'[r][j].source
      OBVIOUS
    <3>1. CASE r = hand.repo
      <4>1. /\ i + 1 \in 1..Len(queue[r]) /\ queue'[r][i] = queue[r][i + 1]
            /\ j + 1 \in 1..Len(queue[r]) /\ queue'[r][j] = queue[r][j + 1]
            /\ i + 1 # j + 1
        BY <1>3, <3>1, DrainOneEffect
      <4>2. QED
        BY <4>1 DEF OnePerSource
    <3>2. CASE r # hand.repo
      BY <1>3, <3>2, DrainOneEffect DEF OnePerSource
    <3>3. QED
      BY <3>1, <3>2
  <2>2. \A i, j \in 1..Len(keep') : i # j => keep'[i].source # keep'[j].source
    BY <1>3, DrainOneEffect DEF OnePerSource
  <2>3. \A i \in 1..Len(keep') : keep'[i].source # hand.source
    BY <1>3, DrainOneEffect DEF OnePerSource
  <2>4. \A i \in 1..Len(keep') : \A j \in 1..Len(queue'[hand.repo]) :
          queue'[hand.repo][j].source # keep'[i].source
    <3>1. hand.repo \in Repos
      BY <1>3, InHand DEF DrainOne
    <3> SUFFICES ASSUME NEW i \in 1..Len(keep'), NEW j \in 1..Len(queue'[hand.repo])
                 PROVE  queue'[hand.repo][j].source # keep'[i].source
      OBVIOUS
    <3>2. /\ j + 1 \in 2..Len(queue[hand.repo]) /\ 1 \in 1..Len(queue[hand.repo])
          /\ j + 1 \in 1..Len(queue[hand.repo])
          /\ queue'[hand.repo][j] = queue[hand.repo][j + 1]
      BY <1>3, DrainOneEffect
    <3>3. queue[hand.repo][j + 1].source # queue[hand.repo][1].source
      BY <3>1, <3>2 DEF OnePerSource
    <3>4. keep'[i] = queue[hand.repo][1] \/ (i \in 1..Len(keep) /\ keep'[i] = keep[i])
      BY <1>3, DrainOneEffect
    <3>5. CASE keep'[i] = queue[hand.repo][1]
      BY <3>2, <3>3, <3>5
    <3>6. CASE i \in 1..Len(keep) /\ keep'[i] = keep[i]
      <4>1. queue[hand.repo][j + 1].source # keep[i].source
        BY <3>2, <3>6 DEF OnePerSource
      <4>2. QED
        BY <3>2, <3>6, <4>1
    <3>7. QED
      BY <3>4, <3>5, <3>6
  <2>5. hand' = hand /\ pc' = "drain"
    BY <1>3 DEF DrainOne
  <2>6. QED
    BY <2>1, <2>2, <2>3, <2>4, <2>5 DEF OnePerSource
<1>4. CASE DrainDone
  BY <1>4, EmptySeq DEF DrainDone, OnePerSource
<1>5. CASE Requeue
  <2>0. hand.repo \in Repos
    BY <1>5, InHand DEF Requeue
  <2>1. \A r \in Repos : \A i, j \in 1..Len(queue'[r]) :
          i # j => queue'[r][i].source # queue'[r][j].source
    <3> SUFFICES ASSUME NEW r \in Repos, NEW i \in 1..Len(queue'[r]),
                        NEW j \in 1..Len(queue'[r]), i # j
                 PROVE  queue'[r][i].source # queue'[r][j].source
      OBVIOUS
    <3>1. CASE r = hand.repo
      <4>1. \/ i = Len(queue[r]) + 1 /\ queue'[r][i] = keep[1]
            \/ i \in 1..Len(queue[r]) /\ queue'[r][i] = queue[r][i]
        BY <1>5, <3>1, RequeueEffect
      <4>2. \/ j = Len(queue[r]) + 1 /\ queue'[r][j] = keep[1]
            \/ j \in 1..Len(queue[r]) /\ queue'[r][j] = queue[r][j]
        BY <1>5, <3>1, RequeueEffect
      <4>3. \A k \in 1..Len(queue[r]) : queue[r][k].source # keep[1].source
        BY <1>5, <3>1, RequeueEffect DEF OnePerSource
      <4>4. QED
        BY <4>1, <4>2, <4>3 DEF OnePerSource
    <3>2. CASE r # hand.repo
      BY <1>5, <3>2, RequeueEffect, SMTT(30) DEF OnePerSource
    <3>3. QED
      BY <3>1, <3>2
  <2>2. \A i, j \in 1..Len(keep') : i # j => keep'[i].source # keep'[j].source
    BY <1>5, RequeueEffect DEF OnePerSource
  <2>3. \A i \in 1..Len(keep') :
          /\ keep'[i].source # hand.source
          /\ \A j \in 1..Len(queue'[hand.repo]) : queue'[hand.repo][j].source # keep'[i].source
    <3> SUFFICES ASSUME NEW i \in 1..Len(keep')
                 PROVE  /\ keep'[i].source # hand.source
                        /\ \A j \in 1..Len(queue'[hand.repo]) :
                             queue'[hand.repo][j].source # keep'[i].source
      OBVIOUS
    <3>1. /\ i + 1 \in 1..Len(keep) /\ 1 \in 1..Len(keep) /\ i + 1 # 1
          /\ keep'[i] = keep[i + 1]
      BY <1>5, RequeueEffect
    <3>2. keep[i + 1].source # keep[1].source /\ keep[i + 1].source # hand.source
      BY <3>1 DEF OnePerSource
    <3>3. ASSUME NEW j \in 1..Len(queue'[hand.repo])
          PROVE  queue'[hand.repo][j].source # keep'[i].source
      <4>1. \/ queue'[hand.repo][j] = keep[1]
            \/ j \in 1..Len(queue[hand.repo]) /\ queue'[hand.repo][j] = queue[hand.repo][j]
        BY <1>5, <2>0, RequeueEffect
      <4>2. QED
        BY <3>1, <3>2, <4>1 DEF OnePerSource
    <3>4. QED
      BY <3>1, <3>2, <3>3
  <2>4. \A j \in 1..Len(queue'[hand.repo]) : queue'[hand.repo][j].source # hand.source
    BY <1>5, <2>0, RequeueEffect DEF OnePerSource, Requeue
  <2>5. hand' = hand
    BY <1>5 DEF Requeue
  <2>6. QED
    BY <2>1, <2>2, <2>3, <2>4, <2>5 DEF OnePerSource
<1>6. CASE RequeueDone
  BY <1>6 DEF RequeueDone, OnePerSource
<1>7. CASE Send
  <2>0. hand.repo \in Repos
    BY <1>7, InHand DEF Send
  <2>1. \A r \in Repos : \A i, j \in 1..Len(queue'[r]) :
          i # j => queue'[r][i].source # queue'[r][j].source
    BY <1>7, <2>0, SendEffect DEF OnePerSource, Send
  <2>2. Len(keep') = 0 /\ pc' = "select"
    BY <1>7, SendEffect DEF Send
  <2>3. QED
    BY <2>1, <2>2 DEF OnePerSource
<1>8. CASE Exit
  <2>1. Len(keep') = 0 /\ pc' = "closed" /\ queue' = queue
    BY <1>8, EmptySeq DEF Exit, Shape
  <2>2. QED
    BY <2>1 DEF OnePerSource
<1>9. CASE Return
  BY <1>9 DEF Return, OnePerSource
<1>10. ASSUME NEW r \in Repos, Take(r) PROVE OnePerSource'
  <2>1. \A o \in Repos : \A i, j \in 1..Len(queue'[o]) :
          i # j => queue'[o][i].source # queue'[o][j].source
    <3> SUFFICES ASSUME NEW o \in Repos, NEW i \in 1..Len(queue'[o]),
                        NEW j \in 1..Len(queue'[o]), i # j
                 PROVE  queue'[o][i].source # queue'[o][j].source
      OBVIOUS
    <3>1. CASE o = r
      <4>1. /\ i + 1 \in 1..Len(queue[r]) /\ queue'[r][i] = queue[r][i + 1]
            /\ j + 1 \in 1..Len(queue[r]) /\ queue'[r][j] = queue[r][j + 1]
            /\ i + 1 # j + 1
        BY <1>10, <3>1, TakeEffect, SMTT(30)
      <4>2. QED
        BY <3>1, <4>1 DEF OnePerSource
    <3>2. CASE o # r
      BY <1>10, <3>2, TakeEffect DEF OnePerSource
    <3>3. QED
      BY <3>1, <3>2
  <2>2. hand.repo \in Repos =>
          \A j \in 1..Len(queue'[hand.repo]) :
            \E k \in 1..Len(queue[hand.repo]) : queue'[hand.repo][j] = queue[hand.repo][k]
    <3> SUFFICES ASSUME hand.repo \in Repos, NEW j \in 1..Len(queue'[hand.repo])
                 PROVE  \E k \in 1..Len(queue[hand.repo]) :
                          queue'[hand.repo][j] = queue[hand.repo][k]
      OBVIOUS
    <3>1. CASE hand.repo = r
      <4>1. j + 1 \in 1..Len(queue[r]) /\ queue'[r][j] = queue[r][j + 1]
        BY <1>10, <3>1, TakeEffect
      <4>2. QED
        BY <3>1, <4>1
    <3>2. CASE hand.repo # r
      BY <1>10, <3>2, TakeEffect
    <3>3. QED
      BY <3>1, <3>2
  <2>3. UNCHANGED <<hand, pc, keep>>
    BY <1>10 DEF Take
  <2>4. CASE pc \in {"drain", "requeue", "send"}
    <3>1. hand.repo \in Repos
      BY <2>4, InHand
    <3>2. \A i \in 1..Len(keep) :
            /\ keep[i].source # hand.source
            /\ \A j \in 1..Len(queue'[hand.repo]) : queue'[hand.repo][j].source # keep[i].source
      BY <2>2, <3>1, SMTT(30) DEF OnePerSource
    <3>3. pc \in {"requeue", "send"} =>
            \A j \in 1..Len(queue'[hand.repo]) : queue'[hand.repo][j].source # hand.source
      BY <2>2, <3>1 DEF OnePerSource
    <3>4. QED
      BY <2>1, <2>3, <3>2, <3>3 DEF OnePerSource
  <2>5. CASE pc \notin {"drain", "requeue", "send"}
    <3>1. Len(keep') = 0
      BY <2>3, <2>5, EmptySeq DEF Shape
    <3>2. QED
      BY <2>1, <2>3, <2>5, <3>1 DEF OnePerSource
  <2>6. QED
    BY <2>4, <2>5
<1>11. ASSUME NEW r \in Repos, Offer(r) PROVE OnePerSource'
  BY <1>11 DEF Offer, OnePerSource
<1>12. ASSUME NEW r \in Repos, Finish(r) PROVE OnePerSource'
  BY <1>12 DEF Finish, OnePerSource
<1>13. CASE Cancel
  BY <1>13 DEF Cancel, OnePerSource
<1>14. CASE UNCHANGED vars
  BY <1>14 DEF vars, OnePerSource
<1>15. QED
  BY <1>1, <1>2, <1>3, <1>4, <1>5, <1>6, <1>7, <1>8, <1>9, <1>10, <1>11, <1>12,
     <1>13, <1>14 DEF Next, Dispatcher

\* Which signals have been started, after a worker takes or finishes one.
LEMMA StartedSignals == TypeOK => Started \subseteq Signal
BY DEF TypeOK, Started

LEMMA TakeStarted ==
  ASSUME TypeOK, Shape, NEW r \in Repos, Take(r)
  PROVE  Started' = Started \cup {queue[r][1]}
<1>1. /\ busy' = [busy EXCEPT ![r] = queue[r][1]]
      /\ queue[r][1] \in Signal
      /\ busy[r] = NoSignal
      /\ handled' = handled
  BY TakeEffect DEF Take
<1>2. queue[r][1] # NoSignal
  BY <1>1, FanOutAssumption
<1>3. busy \in [Repos -> Signal \cup {NoSignal}]
  BY DEF TypeOK
<1>4. {busy'[o] : o \in Repos} \ {NoSignal}
        = ({busy[o] : o \in Repos} \ {NoSignal}) \cup {queue[r][1]}
  BY <1>1, <1>2, <1>3
<1>5. QED
  BY <1>1, <1>4 DEF Started

LEMMA FinishStarted ==
  ASSUME TypeOK, NEW r \in Repos, Finish(r)
  PROVE  Started' \subseteq Started
<1>1. /\ busy' = [busy EXCEPT ![r] = NoSignal]
      /\ handled' = handled \cup {busy[r]}
      /\ busy[r] # NoSignal
      /\ busy \in [Repos -> Signal \cup {NoSignal}]
  BY DEF Finish, TypeOK
<1>2. QED
  BY <1>1 DEF Started

\* Every step preserves the order of arrival.
LEMMA NextArrivalOrder ==
  TypeOK /\ Shape /\ OnePerSource /\ ArrivalOrder /\ [Next]_vars => ArrivalOrder'
<1> SUFFICES ASSUME TypeOK, Shape, OnePerSource, ArrivalOrder, [Next]_vars
             PROVE  ArrivalOrder'
  OBVIOUS
<1>a. /\ accepted \in Nat /\ Len(signals) \in Nat /\ Received \in Nat
      /\ Started \subseteq Signal
      /\ \A r \in Repos : \A i \in 1..Len(queue[r]) : queue[r][i] \in Signal
      /\ \A i \in 1..Len(keep) : keep[i] \in Signal
  BY LenProperties, Elements, StartedSignals DEF TypeOK, ArrivalOrder, Received
<1>b. ASSUME NEW r \in Repos, NEW s \in Sources, Accept(r, s),
             UNCHANGED <<queue, busy, hand, keep, handled>>
      PROVE  ArrivalOrder'
  <2>1. /\ accepted' = accepted + 1
        /\ Len(signals') = Len(signals) + 1
        /\ \A i \in 1..Len(signals) : signals'[i] = signals[i]
        /\ signals'[Len(signals) + 1].id = accepted + 1
    BY <1>b, AcceptSignal
  <2>2. Received' = Received /\ Started' = Started
    BY <1>a, <1>b, <2>1 DEF Received, Started
  <2>3. Len(signals') <= accepted'
    BY <1>a, <2>1 DEF ArrivalOrder
  <2>4. ASSUME NEW i \in 1..Len(signals') PROVE signals'[i].id = Received' + i
    <3>1. CASE i \in 1..Len(signals)
      BY <2>1, <2>2, <3>1 DEF ArrivalOrder
    <3>2. CASE i = Len(signals) + 1
      BY <1>a, <2>1, <2>2, <3>2 DEF Received
    <3>3. QED
      BY <1>a, <2>1, <3>1, <3>2
  <2>5. QED
    BY <1>b, <2>2, <2>3, <2>4 DEF ArrivalOrder
<1>1. ASSUME NEW r \in Repos, NEW s \in Sources, Emit(r, s) PROVE ArrivalOrder'
  BY <1>1, <1>b DEF Emit
<1>2. CASE Receive
  <2>1. /\ hand' = signals[1]
        /\ hand' \in Signal
        /\ Len(signals) \in Nat \ {0}
        /\ Len(signals') = Len(signals) - 1
        /\ \A i \in 1..Len(signals) - 1 : signals'[i] = signals[i + 1]
    BY <1>2, FromFront DEF Receive, TypeOK
  <2>2. UNCHANGED <<accepted, queue, keep>> /\ Len(keep) = 0 /\ Started' = Started
    BY <1>2, EmptySeq DEF Receive, Shape, Started
  <2>3. Received' = Received + 1
    BY <1>a, <2>1, <2>2 DEF Received
  <2>4. Len(signals') <= accepted'
    BY <1>a, <2>1, <2>2 DEF ArrivalOrder
  <2>5. \A i \in 1..Len(signals') : signals'[i].id = Received' + i
    <3> SUFFICES ASSUME NEW i \in 1..Len(signals') PROVE signals'[i].id = Received' + i
      OBVIOUS
    <3>1. i + 1 \in 1..Len(signals) /\ signals'[i] = signals[i + 1]
      BY <2>1
    <3>2. signals[i + 1].id = Received + (i + 1)
      BY <3>1 DEF ArrivalOrder
    <3>3. QED
      BY <1>a, <2>3, <3>1, <3>2
  <2>6. hand'.id = Received + 1
    BY <2>1 DEF ArrivalOrder
  <2>7. \A x \in Signal : x.id <= Received => x.id <= Received' /\ Older(x, hand')
    BY <1>a, <2>3, <2>6, Fields DEF Older
  <2>8. \A x \in Started' : x.id <= Received' /\ Older(x, hand')
    BY <1>a, <2>2, <2>7 DEF ArrivalOrder
  <2>9. \A r \in Repos : \A i \in 1..Len(queue'[r]) :
          /\ queue'[r][i].id <= Received'
          /\ \A x \in Started' : Older(x, queue'[r][i])
          /\ Older(queue'[r][i], hand')
    BY <1>a, <2>2, <2>7 DEF ArrivalOrder
  <2>10. hand'.id <= Received'
    BY <1>a, <2>3, <2>6
  <2>11. QED
    BY <2>2, <2>4, <2>5, <2>8, <2>9, <2>10 DEF ArrivalOrder
<1>3. CASE DrainOne
  <2>1. UNCHANGED <<accepted, signals, hand>> /\ Received' = Received /\ Started' = Started
    BY <1>3 DEF DrainOne, Received, Started
  <2>2. hand.repo \in Repos
    BY <1>3, InHand DEF DrainOne
  <2>3. \A r \in Repos : \A i \in 1..Len(queue'[r]) :
          \E k \in 1..Len(queue[r]) : queue'[r][i] = queue[r][k]
    <3> SUFFICES ASSUME NEW r \in Repos, NEW i \in 1..Len(queue'[r])
                 PROVE  \E k \in 1..Len(queue[r]) : queue'[r][i] = queue[r][k]
      OBVIOUS
    <3>1. CASE r = hand.repo
      <4>1. i + 1 \in 1..Len(queue[r]) /\ queue'[r][i] = queue[r][i + 1]
        BY <1>3, <3>1, DrainOneEffect
      <4>2. QED
        BY <4>1
    <3>2. CASE r # hand.repo
      BY <1>3, <3>2, DrainOneEffect
    <3>3. QED
      BY <3>1, <3>2
  <2>4. \A i \in 1..Len(keep') :
          \/ keep'[i] = queue[hand.repo][1] /\ 1 \in 1..Len(queue[hand.repo])
          \/ i \in 1..Len(keep) /\ keep'[i] = keep[i]
    BY <1>3, DrainOneEffect
  <2>5. \A r \in Repos : \A i \in 1..Len(queue'[r]) :
          /\ queue'[r][i].id <= Received
          /\ \A x \in Started : Older(x, queue'[r][i])
          /\ hand # NoSignal => Older(queue'[r][i], hand)
    BY <2>3 DEF ArrivalOrder
  <2>6. \A i \in 1..Len(keep') :
          /\ keep'[i].id <= Received
          /\ \A x \in Started : Older(x, keep'[i])
    BY <2>2, <2>4 DEF ArrivalOrder
  <2>7. QED
    BY <2>1, <2>5, <2>6 DEF ArrivalOrder
<1>4. CASE DrainDone
  BY <1>4 DEF DrainDone, ArrivalOrder, Received, Started
<1>5. CASE Requeue
  <2>1. UNCHANGED <<accepted, signals, hand>> /\ Received' = Received /\ Started' = Started
    BY <1>5 DEF Requeue, Received, Started
  <2>2. 1 \in 1..Len(keep) /\ keep[1].source # hand.source
    BY <1>5, RequeueEffect DEF OnePerSource
  <2>3. \A r \in Repos : \A i \in 1..Len(queue'[r]) :
          \/ queue'[r][i] = keep[1]
          \/ i \in 1..Len(queue[r]) /\ queue'[r][i] = queue[r][i]
    <3> SUFFICES ASSUME NEW r \in Repos, NEW i \in 1..Len(queue'[r])
                 PROVE  \/ queue'[r][i] = keep[1]
                        \/ i \in 1..Len(queue[r]) /\ queue'[r][i] = queue[r][i]
      OBVIOUS
    <3>1. CASE r = hand.repo
      BY <1>5, <3>1, RequeueEffect
    <3>2. CASE r # hand.repo
      BY <1>5, <3>2, RequeueEffect
    <3>3. QED
      BY <3>1, <3>2
  <2>4. \A i \in 1..Len(keep') : \E k \in 1..Len(keep) : keep'[i] = keep[k]
    <3> SUFFICES ASSUME NEW i \in 1..Len(keep') PROVE \E k \in 1..Len(keep) : keep'[i] = keep[k]
      OBVIOUS
    <3>1. i + 1 \in 1..Len(keep) /\ keep'[i] = keep[i + 1]
      BY <1>5, RequeueEffect
    <3>2. QED
      BY <3>1
  <2>5. Older(keep[1], hand)
    BY <2>2 DEF Older
  <2>6. QED
    BY <2>1, <2>2, <2>3, <2>4, <2>5 DEF ArrivalOrder
<1>6. CASE RequeueDone
  BY <1>6 DEF RequeueDone, ArrivalOrder, Received, Started
<1>7. CASE Send
  <2>1. /\ UNCHANGED <<accepted, signals>> /\ Received' = Received /\ Started' = Started
        /\ hand' = NoSignal /\ hand # NoSignal /\ Len(keep') = 0
    BY <1>7, InHand, SendEffect DEF Send, Received, Started
  <2>2. \A r \in Repos : \A i \in 1..Len(queue'[r]) :
          \/ queue'[r][i] = hand
          \/ i \in 1..Len(queue[r]) /\ queue'[r][i] = queue[r][i]
    <3> SUFFICES ASSUME NEW r \in Repos, NEW i \in 1..Len(queue'[r])
                 PROVE  \/ queue'[r][i] = hand
                        \/ i \in 1..Len(queue[r]) /\ queue'[r][i] = queue[r][i]
      OBVIOUS
    <3>1. CASE r = hand.repo
      BY <1>7, <3>1, SendEffect
    <3>2. CASE r # hand.repo
      BY <1>7, <3>2, SendEffect
    <3>3. QED
      BY <3>1, <3>2
  <2>3. QED
    BY <2>1, <2>2 DEF ArrivalOrder
<1>8. CASE Exit
  <2>1. /\ UNCHANGED <<accepted, signals, queue, keep>> /\ hand' = NoSignal
        /\ Received' = Received /\ Started' = Started
    BY <1>8 DEF Exit, Received, Started
  <2>2. QED
    BY <2>1 DEF ArrivalOrder
<1>9. CASE Return
  BY <1>9 DEF Return, ArrivalOrder, Received, Started
<1>10. ASSUME NEW r \in Repos, Take(r) PROVE ArrivalOrder'
  <2>1. /\ UNCHANGED <<accepted, signals, hand, keep>> /\ Received' = Received
        /\ Started' = Started \cup {queue[r][1]}
    BY <1>10, TakeStarted DEF Take, Received
  <2>2. 1 \in 1..Len(queue[r]) /\ queue[r][1].repo = r
    BY <1>10, TakeEffect
  <2>3. queue[r][1].id <= Received
    BY <2>2 DEF ArrivalOrder
  <2>4. \A o \in Repos : \A i \in 1..Len(queue'[o]) :
          /\ \E k \in 1..Len(queue[o]) : queue'[o][i] = queue[o][k]
          /\ Older(queue[r][1], queue'[o][i])
    <3> SUFFICES ASSUME NEW o \in Repos, NEW i \in 1..Len(queue'[o])
                 PROVE  /\ \E k \in 1..Len(queue[o]) : queue'[o][i] = queue[o][k]
                        /\ Older(queue[r][1], queue'[o][i])
      OBVIOUS
    <3>1. CASE o = r
      <4>1. /\ i + 1 \in 1..Len(queue[r]) /\ i + 1 # 1
            /\ queue'[r][i] = queue[r][i + 1]
        BY <1>10, <3>1, TakeEffect
      <4>2. queue[r][i + 1].source # queue[r][1].source
        BY <2>2, <4>1 DEF OnePerSource
      <4>3. QED
        BY <3>1, <4>1, <4>2 DEF Older
    <3>2. CASE o # r
      <4>1. i \in 1..Len(queue[o]) /\ queue'[o][i] = queue[o][i]
        BY <1>10, <3>2, TakeEffect
      <4>2. queue[o][i].repo = o
        BY <4>1 DEF Shape
      <4>3. QED
        BY <2>2, <3>2, <4>1, <4>2 DEF Older
    <3>3. QED
      BY <3>1, <3>2
  <2>5. \A i \in 1..Len(keep) : Older(queue[r][1], keep[i])
    <3> SUFFICES ASSUME NEW i \in 1..Len(keep),
                        queue[r][1].repo = keep[i].repo, queue[r][1].source = keep[i].source
                 PROVE  FALSE
      BY DEF Older
    <3>1. r = hand.repo
      BY <2>2 DEF Shape
    <3>2. QED
      BY <2>2, <3>1 DEF OnePerSource
  <2>6. hand # NoSignal => Older(queue[r][1], hand)
    BY <2>2 DEF ArrivalOrder
  <2>7. \A o \in Repos : \A i \in 1..Len(queue'[o]) :
          /\ queue'[o][i].id <= Received
          /\ \A x \in Started' : Older(x, queue'[o][i])
          /\ hand # NoSignal => Older(queue'[o][i], hand)
    BY <2>1, <2>4 DEF ArrivalOrder
  <2>8. \A i \in 1..Len(keep) : 
          /\ keep[i].id <= Received
          /\ \A x \in Started' : Older(x, keep[i])
    BY <2>1, <2>5 DEF ArrivalOrder
  <2>9. /\ \A x \in Started' : x.id <= Received
        /\ hand # NoSignal => hand.id <= Received /\ \A x \in Started' : Older(x, hand)
    BY <2>1, <2>3, <2>6 DEF ArrivalOrder
  <2>10. QED
    BY <2>1, <2>7, <2>8, <2>9 DEF ArrivalOrder
<1>11. ASSUME NEW r \in Repos, Offer(r) PROVE ArrivalOrder'
  <2>1. PICK up \in owed[r] :
          /\ Accept(up, CI) \/ UNCHANGED <<accepted, signals>>
          /\ UNCHANGED <<queue, busy, hand, keep, handled>>
    BY <1>11 DEF Offer
  <2>2. up \in Repos
    BY <2>1 DEF TypeOK
  <2>3. CASE Accept(up, CI)
    <3>1. CI \in Sources
      BY FanOutAssumption
    <3>2. QED
      BY <1>b, <2>1, <2>2, <2>3, <3>1
  <2>4. CASE UNCHANGED <<accepted, signals>>
    BY <2>1, <2>4 DEF ArrivalOrder, Received, Started
  <2>5. QED
    BY <2>1, <2>3, <2>4
<1>12. ASSUME NEW r \in Repos, Finish(r) PROVE ArrivalOrder'
  <2>1. /\ UNCHANGED <<accepted, signals, queue, hand, keep>> /\ Received' = Received
        /\ Started' \subseteq Started
    BY <1>12, FinishStarted DEF Finish, Received
  <2>2. QED
    BY <2>1 DEF ArrivalOrder
<1>13. CASE Cancel
  BY <1>13 DEF Cancel, ArrivalOrder, Received, Started
<1>14. CASE UNCHANGED vars
  BY <1>14 DEF vars, ArrivalOrder, Received, Started
<1>15. QED
  BY <1>1, <1>2, <1>3, <1>4, <1>5, <1>6, <1>7, <1>8, <1>9, <1>10, <1>11, <1>12,
     <1>13, <1>14 DEF Next, Dispatcher

\* The invariant holds in every reachable state.
THEOREM Invariance == Safety => []IInv
<1>1. Init => IInv
  BY InitIInv
<1>2. IInv /\ [Next]_vars => IInv'
  BY NextTypeOK, NextShape, NextOnePerSource, NextArrivalOrder DEF IInv
<1>3. QED
  BY <1>1, <1>2, PTL DEF Safety

\* Type correctness, with the capacity of every channel.
THEOREM TypeCorrect == Safety => []TypeOK
<1>1. IInv => TypeOK
  BY DEF IInv
<1>2. QED
  BY <1>1, Invariance, PTL

\* A channel that holds no two signals of one Source, and none of source src, has
\* a free slot: there are no more sources than slots.
LEMMA FreeSlot ==
  ASSUME NEW q \in Seq(Signal), NEW src \in Sources,
         \A i, j \in 1..Len(q) : i # j => q[i].source # q[j].source,
         \A i \in 1..Len(q) : q[i].source # src
  PROVE  Len(q) < WorkerCap
<1> DEFINE others == Sources \ {src}
           f == [i \in 1..Len(q) |-> q[i].source]
<1>1. Len(q) \in Nat /\ \A i \in 1..Len(q) : q[i] \in Signal
  BY LenProperties, Elements
<1>2. f \in [1..Len(q) -> others]
  BY <1>1, Fields
<1>3. f \in Injection(1..Len(q), others)
  BY <1>2 DEF Injection, IsInjective
<1>4. IsFiniteSet(others) /\ Cardinality(others) = Cardinality(Sources) - 1
  BY FS_RemoveElement, FanOutAssumption
<1>5. Cardinality(1..Len(q)) <= Cardinality(others)
  BY <1>3, <1>4, FS_Injection
<1>6. Cardinality(1..Len(q)) = Len(q)
  <2>1. 1 \in Int /\ Len(q) \in Int
    BY <1>1
  <2>2. Cardinality(1..Len(q)) = IF 1 > Len(q) THEN 0 ELSE Len(q) - 1 + 1
    BY ONLY <2>1, FS_Interval
  <2>3. QED
    BY <1>1, <2>2
<1>7. Cardinality(Sources) \in Nat
  BY FS_CardinalityType, FanOutAssumption
<1>8. QED
  BY <1>1, <1>4, <1>5, <1>6, <1>7, FanOutAssumption

\* The dispatcher always finds room in a worker's channel, so a repo whose handler
\* does not return holds up no other: drainSameSource is what guarantees it.
THEOREM DispatcherNeverBlocks == Safety => []SendNeverBlocks
<1>1. IInv => SendNeverBlocks
  <2> SUFFICES ASSUME TypeOK, Shape, OnePerSource, pc \in {"requeue", "send"}
               PROVE  Len(queue[hand.repo]) < WorkerCap
    BY DEF IInv, SendNeverBlocks
  <2>1. hand.repo \in Repos /\ hand.source \in Sources
    BY InHand
  <2>2. queue[hand.repo] \in Seq(Signal)
    BY <2>1 DEF TypeOK
  <2>3. /\ \A i, j \in 1..Len(queue[hand.repo]) :
             i # j => queue[hand.repo][i].source # queue[hand.repo][j].source
        /\ \A i \in 1..Len(queue[hand.repo]) : queue[hand.repo][i].source # hand.source
    BY <2>1 DEF OnePerSource
  <2>4. QED
    BY <2>1, <2>2, <2>3, FreeSlot
<1>2. QED
  BY <1>1, Invariance, PTL

\* Signals of one repo and Source are handled in the order they arrived.
THEOREM InOrder == Safety => HandledInOrder
<1> DEFINE Step == \A r \in Repos, x \in handled :
                     busy'[r] # busy[r] /\ busy'[r] # NoSignal
                     /\ x.repo = r /\ x.source = busy'[r].source => x.id < busy'[r].id
<1>1. IInv /\ [Next]_vars => [Step]_vars
  <2> SUFFICES ASSUME TypeOK, Shape, ArrivalOrder, Next,
                      NEW r \in Repos, NEW x \in handled,
                      busy'[r] # busy[r], busy'[r] # NoSignal,
                      x.repo = r, x.source = busy'[r].source
               PROVE  x.id < busy'[r].id
    BY DEF IInv
  <2>1. PICK o \in Repos : Take(o) \/ Finish(o)
    BY DEF Next, Dispatcher, Emit, Receive, DrainOne, DrainDone, Requeue, RequeueDone,
           Send, Exit, Return, Offer, Cancel
  <2>2. CASE Take(o)
    <3>1. /\ busy' = [busy EXCEPT ![o] = queue[o][1]]
          /\ Len(queue[o]) \in Nat \ {0}
          /\ queue[o][1].repo = o
      BY <2>2, TakeEffect
    <3>2. r = o /\ busy'[r] = queue[r][1]
      BY <3>1 DEF TypeOK
    <3>3. x \in Started
      BY DEF Started
    <3>4. Older(x, queue[r][1])
      BY <3>1, <3>2, <3>3 DEF ArrivalOrder
    <3>5. QED
      BY <3>1, <3>2, <3>4 DEF Older
  <2>3. CASE Finish(o)
    BY <2>3 DEF Finish, TypeOK
  <2>4. QED
    BY <2>1, <2>2, <2>3
<1>2. QED
  BY <1>1, Invariance, PTL DEF Safety, HandledInOrder

-----------------------------------------------------------------------------
(* FanOut implements LatestWins *)

\* What a channel, or what was held back, holds.
LEMMA ChannelHolds ==
  ASSUME NEW q \in Seq(Signal)
  PROVE  \A x : x \in Range(q) <=> \E i \in 1..Len(q) : x = q[i]
<1>1. DOMAIN q = 1..Len(q)
  BY LenProperties
<1>2. QED
  BY <1>1 DEF Range

\* The places where a signal can be pending
Holds(q, x) == \E i \in 1..Len(q) : x = q[i]

HeldIn(x, sg, q, k, h) ==
  Holds(sg, x) \/ (\E r \in Repos : Holds(q[r], x)) \/ Holds(k, x) \/ (h # NoSignal /\ x = h)

PoolOf(sg, q, k, h) ==
  Range(sg) \cup
  UNION {{x \in Range(q[r]) \cup Range(k) \cup ({h} \ {NoSignal}) : x.repo = r} : r \in Repos}

\* The pool is what is in one of these places.
LEMMA PoolMembers ==
  ASSUME NEW sg \in Seq(Signal), NEW q \in [Repos -> Seq(Signal)], NEW k \in Seq(Signal),
         NEW h \in Signal \cup {NoSignal},
         \A r \in Repos : \A i \in 1..Len(q[r]) : q[r][i].repo = r
  PROVE  \A x : x \in PoolOf(sg, q, k, h) <=> HeldIn(x, sg, q, k, h)
<1> TAKE x
<1>1. x \in Range(sg) <=> \E i \in 1..Len(sg) : x = sg[i]
  BY ChannelHolds
<1>2. x \in Range(k) <=> \E i \in 1..Len(k) : x = k[i]
  BY ChannelHolds
<1>3. \A r \in Repos : x \in Range(q[r]) <=> \E i \in 1..Len(q[r]) : x = q[r][i]
  BY ChannelHolds
<1>4. x \in PoolOf(sg, q, k, h) <=>
        \/ x \in Range(sg)
        \/ \E r \in Repos :
             x.repo = r /\ (x \in Range(q[r]) \/ x \in Range(k) \/ (x = h /\ h # NoSignal))
  BY DEF PoolOf
<1>5. x \in Range(k) => x.repo \in Repos
  BY <1>2, Elements, Fields
<1>6. x = h /\ h # NoSignal => x.repo \in Repos
  BY Fields
<1>7. \A r \in Repos : x \in Range(q[r]) => x.repo = r
  BY <1>3
<1>8. QED
  BY <1>1, <1>2, <1>3, <1>4, <1>5, <1>6, <1>7 DEF HeldIn, Holds

\* The same of the variables, before and after a step.
LEMMA PoolNow ==
  ASSUME TypeOK, Shape
  PROVE  \A x : x \in Pool <=> HeldIn(x, signals, queue, keep, hand)
<1>1. Pool = PoolOf(signals, queue, keep, hand)
  BY DEF Pool, Pending, PoolOf
<1>2. QED
  BY <1>1, PoolMembers DEF TypeOK, Shape

LEMMA PoolNext ==
  ASSUME TypeOK', Shape'
  PROVE  \A x : x \in Pool' <=> HeldIn(x, signals', queue', keep', hand')
<1>1. Pool' = PoolOf(signals', queue', keep', hand')
  BY DEF Pool, Pending, PoolOf
<1>2. /\ signals' \in Seq(Signal) /\ keep' \in Seq(Signal)
      /\ queue' \in [Repos -> Seq(Signal)] /\ hand' \in Signal \cup {NoSignal}
      /\ \A r \in Repos : \A i \in 1..Len(queue'[r]) : queue'[r][i].repo = r
  BY DEF TypeOK, Shape
<1>3. QED
  BY ONLY <1>1, <1>2, PoolMembers

\* The signal at the front of a worker's channel is pending nowhere else, and no
\* pending one of its kind is older.
LEMMA FrontIsOldest ==
  ASSUME IInv, NEW r \in Repos, Len(queue[r]) \in Nat \ {0}
  PROVE  /\ queue[r][1] \in Signal /\ queue[r][1].repo = r
         /\ \A i \in 1..Len(signals) : signals[i].id > queue[r][1].id
         /\ \A o \in Repos : \A i \in 1..Len(queue[o]) :
              /\ queue[o][i] = queue[r][1] => o = r /\ i = 1
              /\ ~LW!Newer(queue[r][1], queue[o][i])
         /\ \A i \in 1..Len(keep) :
              ~(keep[i].repo = r /\ keep[i].source = queue[r][1].source)
         /\ hand # NoSignal => Older(queue[r][1], hand) /\ hand # queue[r][1]
<1> USE DEF IInv
<1>1. /\ \A o \in Repos : queue[o] \in Seq(Signal) /\ Len(queue[o]) \in Nat
      /\ Len(signals) \in Nat /\ accepted \in Nat /\ 1 \in 1..Len(queue[r])
  BY LenProperties DEF TypeOK
<1>2. /\ queue[r][1] \in Signal /\ queue[r][1].repo = r
      /\ queue[r][1].id \in Nat /\ queue[r][1].id <= accepted - Len(signals)
  BY <1>1, Elements, Fields DEF Shape, ArrivalOrder, Received
<1>3. ASSUME NEW i \in 1..Len(signals) PROVE signals[i].id > queue[r][1].id
  <2>1. signals[i].id = accepted - Len(signals) + i
    BY DEF ArrivalOrder, Received
  <2>2. QED
    BY ONLY <1>1, <1>2, <2>1
<1>4. ASSUME NEW o \in Repos, NEW i \in 1..Len(queue[o])
      PROVE  /\ queue[o][i] = queue[r][1] => o = r /\ i = 1
             /\ ~LW!Newer(queue[r][1], queue[o][i])
  <2>1. queue[o][i].repo = o
    BY DEF Shape
  <2>2. o = r /\ i # 1 => queue[o][i].source # queue[r][1].source
    BY <1>1 DEF OnePerSource
  <2>3. QED
    BY <1>2, <2>1, <2>2 DEF LW!Newer
<1>5. ASSUME NEW i \in 1..Len(keep)
      PROVE  ~(keep[i].repo = r /\ keep[i].source = queue[r][1].source)
  BY <1>1 DEF Shape, OnePerSource
<1>6. ASSUME hand # NoSignal PROVE Older(queue[r][1], hand) /\ hand # queue[r][1]
  <2>1. Older(queue[r][1], hand)
    BY <1>1, <1>6 DEF ArrivalOrder
  <2>2. QED
    BY <1>2, <2>1 DEF Older
<1>7. QED
  BY <1>2, <1>3, <1>4, <1>5, <1>6

\* Once drained, the signal in hand is pending nowhere else.
LEMMA HandIsAlone ==
  ASSUME IInv, pc = "send"
  PROVE  /\ hand # NoSignal
         /\ \A i \in 1..Len(signals) : signals[i] # hand
         /\ \A o \in Repos : \A i \in 1..Len(queue[o]) : queue[o][i] # hand
         /\ Len(keep) = 0
<1> USE DEF IInv
<1>1. hand # NoSignal /\ hand \in Signal /\ hand.repo \in Repos /\ keep = <<>>
  BY Fields DEF TypeOK, Shape
<1>2. hand.id \in Nat /\ hand.id <= accepted - Len(signals)
  BY <1>1, Fields DEF ArrivalOrder, Received
<1>3. ASSUME NEW i \in 1..Len(signals) PROVE signals[i] # hand
  <2>1. signals[i].id = accepted - Len(signals) + i
    BY DEF ArrivalOrder, Received
  <2>2. Len(signals) \in Nat /\ accepted \in Nat
    BY LenProperties DEF TypeOK
  <2>3. QED
    BY <1>2, <2>1, <2>2
<1>4. ASSUME NEW o \in Repos, NEW i \in 1..Len(queue[o]) PROVE queue[o][i] # hand
  BY <1>1 DEF Shape, OnePerSource
<1>5. QED
  BY <1>1, <1>3, <1>4, EmptySeq

\* A signal that Signals accepts arrives in the pool.
LEMMA AcceptArrives ==
  ASSUME TypeOK, Shape, TypeOK', Shape', NEW r \in Repos, NEW s \in Sources, Accept(r, s),
         UNCHANGED <<queue, keep, hand, busy, cancelled>>
  PROVE  LW!Arrive(r, s)
<1> DEFINE new == [id |-> accepted + 1, repo |-> r, source |-> s]
<1>1. new \in Signal /\ signals \in Seq(Signal) /\ signals' = Append(signals, new)
  BY DEF TypeOK, Signal, Accept
<1> HIDE DEF new
<1>2. /\ Len(signals) \in Nat /\ Len(signals') = Len(signals) + 1
      /\ \A i \in 1..Len(signals) + 1 :
           signals'[i] = IF i = Len(signals) + 1 THEN new ELSE signals[i]
  BY <1>1, AtBack
<1>3. \A x : Holds(signals', x) <=> Holds(signals, x) \/ x = new
  BY ONLY <1>2 DEF Holds
<1>4. \A x : HeldIn(x, signals', queue', keep', hand')
              <=> HeldIn(x, signals, queue, keep, hand) \/ x = new
  BY <1>3 DEF HeldIn
<1>5. \A x : x \in Pool' <=> x \in Pool \/ x = new
  BY <1>4, PoolNow, PoolNext
<1>6. Pool' = Pool \cup {new}
  BY <1>5
<1>7. QED
  BY <1>6 DEF LW!Arrive, LW!New, Accept, new

\* What a sequence of signals holds, once its first is gone, and with one more at its back
LEMMA HoldsAfterTail ==
  ASSUME NEW q \in Seq(Signal), q # <<>>
  PROVE  \A x : Holds(q, x) <=> x = q[1] \/ Holds(Tail(q), x)
<1>1. /\ Len(q) \in Nat \ {0} /\ Len(Tail(q)) = Len(q) - 1
      /\ \A i \in 1..Len(q) - 1 : Tail(q)[i] = q[i + 1]
  BY FromFront
<1>2. ASSUME NEW i \in 1..Len(q), i # 1
      PROVE  i - 1 \in 1..Len(Tail(q)) /\ Tail(q)[i - 1] = q[i]
  <2>1. i - 1 \in 1..Len(q) - 1 /\ (i - 1) + 1 = i
    BY ONLY <1>1, <1>2
  <2>2. Tail(q)[i - 1] = q[(i - 1) + 1]
    BY <1>1, <2>1
  <2>3. QED
    BY <1>1, <2>1, <2>2
<1>3. \A i \in 1..Len(Tail(q)) : i + 1 \in 1..Len(q) /\ Tail(q)[i] = q[i + 1]
  BY <1>1
<1>4. 1 \in 1..Len(q)
  BY <1>1
<1>5. QED
  BY ONLY <1>2, <1>3, <1>4 DEF Holds

LEMMA HoldsAfterAppend ==
  ASSUME NEW q \in Seq(Signal), NEW y \in Signal
  PROVE  \A x : Holds(Append(q, y), x) <=> x = y \/ Holds(q, x)
<1>1. /\ Len(q) \in Nat /\ Len(Append(q, y)) = Len(q) + 1
      /\ \A i \in 1..Len(q) + 1 : Append(q, y)[i] = IF i = Len(q) + 1 THEN y ELSE q[i]
  BY AtBack
<1>2. QED
  BY ONLY <1>1 DEF Holds

\* A signal that moves from one place to another stays in the pool.
LEMMA ReceiveMoves ==
  ASSUME IInv, IInv', Receive
  PROVE  UNCHANGED LW!absVars
<1> USE DEF IInv
<1>1. /\ signals \in Seq(Signal) /\ signals # <<>>
      /\ hand = NoSignal /\ hand' = Head(signals) /\ signals' = Tail(signals)
      /\ UNCHANGED <<queue, keep, accepted, busy, cancelled>>
  BY DEF Receive, TypeOK, Shape
<1>2. /\ Head(signals) = signals[1] /\ Head(signals) \in Signal /\ Len(signals) \in Nat \ {0}
      /\ Len(signals') = Len(signals) - 1
      /\ \A i \in 1..Len(signals) - 1 : signals'[i] = signals[i + 1]
  BY <1>1, FromFront
<1>3. hand' # NoSignal
  BY <1>1, <1>2, FanOutAssumption
<1>4. \A x : Holds(signals, x) <=> x = signals[1] \/ Holds(signals', x)
  BY <1>1, <1>2, HoldsAfterTail
<1>5. \A x : HeldIn(x, signals', queue', keep', hand') <=> HeldIn(x, signals, queue, keep, hand)
  BY <1>1, <1>2, <1>3, <1>4 DEF HeldIn
<1>6. Pool' = Pool
  BY <1>5, PoolNow, PoolNext
<1>7. QED
  BY <1>1, <1>6 DEF LW!absVars

\* What DrainOne takes from the channel it drops for the newer one in hand, or keeps.
LEMMA DrainOneSupersedes ==
  ASSUME IInv, IInv', DrainOne
  PROVE  (\E x \in Pool : LW!Supersede(x)) \/ UNCHANGED LW!absVars
<1> USE DEF IInv
<1> DEFINE r == hand.repo
           x == queue[r][1]
<1>1. hand \in Signal /\ hand # NoSignal /\ r \in Repos
  BY InHand DEF DrainOne
<1>2. UNCHANGED <<signals, hand, accepted, busy, cancelled>>
  BY DEF DrainOne
<1>3. /\ \A o \in Repos : o # r => queue'[o] = queue[o]
      /\ Len(queue[r]) \in Nat \ {0} /\ Len(queue'[r]) = Len(queue[r]) - 1
      /\ \A i \in 1..Len(queue'[r]) :
           i + 1 \in 2..Len(queue[r]) /\ queue'[r][i] = queue[r][i + 1]
      /\ Len(keep) \in Nat
      /\ \/ x.source = hand.source /\ keep' = keep
         \/ /\ x.source # hand.source /\ Len(keep') = Len(keep) + 1
            /\ \A i \in 1..Len(keep) + 1 :
                 keep'[i] = IF i = Len(keep) + 1 THEN x ELSE keep[i]
  BY DrainOneEffect
<1>4. /\ x \in Signal /\ x.repo = r
      /\ \A i \in 1..Len(signals) : signals[i].id > x.id
      /\ \A o \in Repos : \A i \in 1..Len(queue[o]) : queue[o][i] = x => o = r /\ i = 1
      /\ \A i \in 1..Len(keep) : ~(keep[i].repo = r /\ keep[i].source = x.source)
      /\ Older(x, hand) /\ hand # x
  BY <1>1, <1>3, FrontIsOldest
<1> HIDE DEF x, r
<1>5. \A y : Holds(queue[r], y) <=> y = queue[r][1] \/ Holds(queue'[r], y)
  <2>1. queue[r] \in Seq(Signal) /\ queue[r] # <<>> /\ queue'[r] = Tail(queue[r])
    BY <1>1 DEF DrainOne, TypeOK, r
  <2>2. QED
    BY <2>1, HoldsAfterTail
<1>6. x = queue[r][1]
  BY DEF x
<1>7. \A y : (\E o \in Repos : Holds(queue[o], y))
               <=> y = x \/ \E o \in Repos : Holds(queue'[o], y)
  BY <1>1, <1>3, <1>5, <1>6
<1>8. CASE x.source # hand.source
  <2>1. \A y : Holds(keep', y) <=> y = x \/ Holds(keep, y)
    <3>1. keep \in Seq(Signal) /\ keep' = Append(keep, x)
      BY <1>6, <1>8, FromFront DEF DrainOne, TypeOK, r
    <3>2. QED
      BY <1>4, <3>1, HoldsAfterAppend
  <2>2. \A y : HeldIn(y, signals', queue', keep', hand') <=> HeldIn(y, signals, queue, keep, hand)
    BY ONLY <1>2, <1>7, <2>1 DEF HeldIn
  <2>3. Pool' = Pool
    BY <2>2, PoolNow, PoolNext
  <2>4. QED
    BY <1>2, <2>3 DEF LW!absVars
<1>9. CASE x.source = hand.source
  <2>1. keep' = keep
    BY <1>3, <1>9
  <2>2. ~Holds(signals, x)
    <3>1. x.id \in Nat
      BY <1>4, Fields
    <3>2. QED
      BY <1>4, <3>1 DEF Holds
  <2>3. \A o \in Repos : ~Holds(queue'[o], x)
    BY <1>1, <1>3, <1>4, SMTT(30) DEF Holds
  <2>4. \A y : HeldIn(y, signals', queue', keep', hand')
                <=> HeldIn(y, signals, queue, keep, hand) /\ y # x
    <3>1. ~Holds(keep, x) /\ x # hand
      BY <1>4 DEF Holds
    <3>2. QED
      BY ONLY <1>2, <1>7, <2>1, <2>2, <2>3, <3>1 DEF HeldIn
  <2>5. Pool' = Pool \ {x}
    BY <2>4, PoolNow, PoolNext
  <2>6. x \in Pool /\ hand \in Pool
    BY <1>1, <1>7, PoolNow DEF HeldIn
  <2>7. LW!Newer(hand, x)
    BY <1>1, <1>4, <1>9, Fields DEF LW!Newer, Older, r
  <2>8. QED
    BY <1>2, <2>5, <2>6, <2>7 DEF LW!Supersede
<1>10. QED
  BY <1>8, <1>9

\* What is sent to a worker's channel, from keep or from the hand, stays in the pool.
LEMMA SendsMove ==
  ASSUME IInv, IInv', Requeue \/ Send
  PROVE  UNCHANGED LW!absVars
<1> USE DEF IInv
<1> DEFINE r == hand.repo
<1>1. hand \in Signal /\ hand # NoSignal /\ r \in Repos
  BY InHand DEF Requeue, Send
<1>2. queue \in [Repos -> Seq(Signal)] /\ keep \in Seq(Signal)
  BY DEF TypeOK
<1>3. UNCHANGED <<signals, accepted, busy, cancelled>>
  BY DEF Requeue, Send
<1> HIDE DEF r
<1>4. ASSUME NEW x \in Signal, queue' = [queue EXCEPT ![r] = Append(@, x)]
      PROVE  \A y : (\E o \in Repos : Holds(queue'[o], y))
                     <=> y = x \/ \E o \in Repos : Holds(queue[o], y)
  <2>1. queue'[r] = Append(queue[r], x) /\ \A o \in Repos : o # r => queue'[o] = queue[o]
    BY <1>1, <1>2, <1>4
  <2>2. \A y : Holds(queue'[r], y) <=> y = x \/ Holds(queue[r], y)
    BY <1>1, <1>2, <2>1, HoldsAfterAppend
  <2>3. QED
    BY <1>1, <2>1, <2>2
<1>5. \A y : HeldIn(y, signals', queue', keep', hand') <=> HeldIn(y, signals, queue, keep, hand)
  <2>1. CASE Requeue
    <3>1. /\ keep # <<>> /\ keep' = Tail(keep) /\ hand' = hand
          /\ queue' = [queue EXCEPT ![r] = Append(@, Head(keep))]
      BY <2>1 DEF Requeue, r
    <3>2. Head(keep) = keep[1] /\ Head(keep) \in Signal
      BY <1>2, <3>1, FromFront
    <3>3. \A y : Holds(keep, y) <=> y = keep[1] \/ Holds(keep', y)
      BY <1>2, <3>1, HoldsAfterTail
    <3>4. \A y : (\E o \in Repos : Holds(queue'[o], y))
                  <=> y = keep[1] \/ \E o \in Repos : Holds(queue[o], y)
      BY <1>4, <3>1, <3>2
    <3>5. QED
      BY ONLY <1>3, <3>1, <3>3, <3>4 DEF HeldIn
  <2>2. CASE Send
    <3>1. /\ hand' = NoSignal /\ keep' = keep
          /\ queue' = [queue EXCEPT ![r] = Append(@, hand)]
      BY <2>2 DEF Send, r
    <3>2. \A y : (\E o \in Repos : Holds(queue'[o], y))
                  <=> y = hand \/ \E o \in Repos : Holds(queue[o], y)
      BY <1>1, <1>4, <3>1
    <3>3. QED
      BY ONLY <1>1, <1>3, <3>1, <3>2 DEF HeldIn
  <2>3. QED
    BY <2>1, <2>2
<1>6. Pool' = Pool
  BY <1>5, PoolNow, PoolNext
<1>7. QED
  BY <1>3, <1>6 DEF LW!absVars

\* What a worker takes is the oldest pending signal of its kind.
LEMMA TakeStarts ==
  ASSUME IInv, IInv', NEW r \in Repos, Take(r)
  PROVE  \E x \in Pool : LW!Start(x)
<1> USE DEF IInv
<1> DEFINE x == queue[r][1]
<1>1. /\ queue \in [Repos -> Seq(Signal)] /\ queue[r] # <<>> /\ busy[r] = NoSignal
      /\ queue' = [queue EXCEPT ![r] = Tail(@)]
      /\ UNCHANGED <<signals, keep, hand, accepted, cancelled>>
  BY DEF Take, TypeOK
<1>2. /\ Len(queue[r]) \in Nat \ {0} /\ busy' = [busy EXCEPT ![r] = x]
      /\ \A i \in 1..Len(queue'[r]) :
           i + 1 \in 2..Len(queue[r]) /\ queue'[r][i] = queue[r][i + 1]
  BY TakeEffect
<1>3. /\ x \in Signal /\ x.repo = r
      /\ \A i \in 1..Len(signals) : signals[i].id > x.id
      /\ \A o \in Repos : \A i \in 1..Len(queue[o]) :
           /\ queue[o][i] = x => o = r /\ i = 1
           /\ ~LW!Newer(x, queue[o][i])
      /\ \A i \in 1..Len(keep) : ~(keep[i].repo = r /\ keep[i].source = x.source)
      /\ hand # NoSignal => Older(x, hand) /\ hand # x
  BY <1>2, FrontIsOldest
<1> HIDE DEF x
<1>4. queue'[r] = Tail(queue[r]) /\ \A o \in Repos : o # r => queue'[o] = queue[o]
  BY <1>1
<1>5. \A y : Holds(queue[r], y) <=> y = x \/ Holds(queue'[r], y)
  BY <1>1, <1>4, HoldsAfterTail DEF x
<1>6. \A y : (\E o \in Repos : Holds(queue[o], y))
              <=> y = x \/ \E o \in Repos : Holds(queue'[o], y)
  BY <1>4, <1>5
<1>7. x.id \in Nat
  BY <1>3, Fields
<1>8. ~Holds(signals, x) /\ ~Holds(keep, x) /\ (hand # NoSignal => x # hand)
  BY <1>3, <1>7 DEF Holds
<1>9. \A o \in Repos : ~Holds(queue'[o], x)
  <2>1. ASSUME NEW o \in Repos, NEW i \in 1..Len(queue'[o]), queue'[o][i] = x PROVE FALSE
    <3>1. CASE o = r
      <4>1. i + 1 \in 2..Len(queue[r]) /\ queue[r][i + 1] = x
        BY <1>2, <2>1, <3>1
      <4>2. i + 1 \in 1..Len(queue[r]) /\ i + 1 # 1
        BY <1>2, <4>1
      <4>3. QED
        BY <1>3, <4>1, <4>2
    <3>2. CASE o # r
      BY <1>3, <1>4, <2>1, <3>2
    <3>3. QED
      BY <3>1, <3>2
  <2>2. QED
    BY <2>1 DEF Holds
<1>10. \A y : HeldIn(y, signals', queue', keep', hand')
               <=> HeldIn(y, signals, queue, keep, hand) /\ y # x
  BY ONLY <1>1, <1>6, <1>8, <1>9 DEF HeldIn
<1>11. Pool' = Pool \ {x} /\ x \in Pool
  BY <1>6, <1>10, PoolNow, PoolNext DEF HeldIn
<1>12. ASSUME NEW y \in Pool PROVE ~LW!Newer(x, y)
  <2>1. HeldIn(y, signals, queue, keep, hand)
    BY PoolNow
  <2>2. CASE Holds(signals, y)
    <3>1. PICK i \in 1..Len(signals) : y = signals[i]
      BY <2>2 DEF Holds
    <3>2. y.id > x.id /\ y.id \in Nat
      BY <1>3, <3>1, Elements, Fields DEF TypeOK
    <3>3. QED
      BY ONLY <1>7, <3>2 DEF LW!Newer
  <2>3. CASE \E o \in Repos : Holds(queue[o], y)
    BY <1>3, <2>3 DEF Holds
  <2>4. CASE Holds(keep, y)
    BY <1>3, <2>4 DEF Holds, LW!Newer
  <2>5. CASE hand # NoSignal /\ y = hand
    <3>1. Older(x, hand) /\ hand.id \in Nat
      BY <1>3, <2>5, Fields DEF TypeOK
    <3>2. QED
      BY ONLY <1>7, <2>5, <3>1 DEF Older, LW!Newer
  <2>6. QED
    BY ONLY <2>1, <2>2, <2>3, <2>4, <2>5 DEF HeldIn
<1>13. QED
  BY <1>1, <1>2, <1>3, <1>11, <1>12 DEF LW!Start

\* The signal that Run returns with is given up by a daemon that stops.
LEMMA ExitAbandons ==
  ASSUME IInv, IInv', Exit
  PROVE  (\E x \in Pool : LW!Abandon(x)) \/ UNCHANGED LW!absVars
<1> USE DEF IInv
<1>1. cancelled /\ hand' = NoSignal /\ UNCHANGED <<accepted, signals, queue, busy, keep, cancelled>>
  BY DEF Exit
<1>2. CASE pc = "select"
  <2>1. hand = NoSignal
    BY <1>2 DEF Shape
  <2>2. Pool' = Pool
    BY <1>1, <2>1, PoolNow, PoolNext
  <2>3. QED
    BY <1>1, <2>2 DEF LW!absVars
<1>3. CASE pc = "send"
  <2>1. /\ hand # NoSignal /\ ~Holds(signals, hand) /\ ~Holds(keep, hand)
        /\ \A o \in Repos : ~Holds(queue[o], hand)
    BY <1>3, HandIsAlone DEF Holds
  <2>2. \A y : HeldIn(y, signals', queue', keep', hand')
                <=> HeldIn(y, signals, queue, keep, hand) /\ y # hand
    BY ONLY <1>1, <2>1 DEF HeldIn
  <2>3. Pool' = Pool \ {hand} /\ hand \in Pool
    BY <2>1, <2>2, PoolNow, PoolNext DEF HeldIn
  <2>4. QED
    BY <1>1, <2>3 DEF LW!Abandon
<1>4. QED
  BY <1>2, <1>3 DEF Exit

\* Every step of the channels and goroutines is a step of the pool or leaves it alone.
LEMMA StepRefines ==
  ASSUME IInv, IInv', [Next]_vars
  PROVE  [LW!Next]_LW!absVars
<1> DEFINE Refines == [LW!Next]_LW!absVars
<1> USE DEF IInv
<1>1. ASSUME UNCHANGED <<accepted, signals, queue, keep, hand, busy, cancelled>> PROVE Refines
  <2>1. Pool' = Pool
    BY <1>1, PoolNow, PoolNext
  <2>2. QED
    BY <1>1, <2>1 DEF LW!absVars
<1>2. ASSUME NEW r \in Repos, NEW s \in Sources, Emit(r, s) PROVE Refines
  <2>1. Accept(r, s) /\ UNCHANGED <<queue, keep, hand, busy, cancelled>>
    BY <1>2 DEF Emit
  <2>2. QED
    BY <2>1, AcceptArrives DEF LW!Next
<1>3. ASSUME NEW r \in Repos, Offer(r) PROVE Refines
  <2>1. UNCHANGED <<queue, keep, hand, busy, cancelled>>
    BY <1>3 DEF Offer
  <2>2. (\E up \in Repos : Accept(up, CI)) \/ UNCHANGED <<accepted, signals>>
    BY <1>3 DEF Offer, TypeOK
  <2>3. ASSUME NEW up \in Repos, Accept(up, CI) PROVE Refines
    BY <2>1, <2>3, AcceptArrives, FanOutAssumption DEF LW!Next
  <2>4. QED
    BY <1>1, <2>1, <2>2, <2>3
<1>4. ASSUME NEW r \in Repos, Finish(r) PROVE Refines
  <2>1. Pool' = Pool
    BY <1>4, PoolNow, PoolNext DEF Finish
  <2>2. QED
    BY <1>4, <2>1 DEF Finish, LW!Next, LW!Complete
<1>5. CASE Cancel
  <2>1. Pool' = Pool
    BY <1>5, PoolNow, PoolNext DEF Cancel
  <2>2. QED
    BY <1>5, <2>1 DEF Cancel, LW!Next, LW!Stop
<1>6. CASE Receive
  BY <1>6, ReceiveMoves
<1>7. CASE DrainOne
  BY <1>7, DrainOneSupersedes DEF LW!Next
<1>8. CASE Requeue \/ Send
  BY <1>8, SendsMove
<1>9. ASSUME NEW r \in Repos, Take(r) PROVE Refines
  BY <1>9, TakeStarts DEF LW!Next
<1>10. CASE Exit
  BY <1>10, ExitAbandons DEF LW!Next
<1>11. CASE DrainDone \/ RequeueDone \/ Return
  BY <1>1, <1>11 DEF DrainDone, RequeueDone, Return
<1>12. CASE UNCHANGED vars
  BY <1>1, <1>12 DEF vars
<1>13. QED
  BY <1>2, <1>3, <1>4, <1>5, <1>6, <1>7, <1>8, <1>9, <1>10, <1>11, <1>12 DEF Next, Dispatcher

\* FanOut implements LatestWins: whatever the dispatcher and the workers do to the
\* channels between them, a repo handles one signal at a time, starts those of one
\* Source in the order they arrived, and gives none up unless a newer one of its kind
\* is pending or the daemon stops.
THEOREM FanOutRefines == Safety => ImplementsLatestWins
<1>1. Init => LW!Init
  <2> SUFFICES ASSUME Init PROVE LW!Init
    OBVIOUS
  <2>1. TypeOK /\ Shape
    BY InitIInv DEF IInv
  <2>2. \A x : ~HeldIn(x, signals, queue, keep, hand)
    BY EmptySeq DEF Init, HeldIn, Holds
  <2>3. Pool = {}
    BY <2>1, <2>2, PoolNow
  <2>4. QED
    BY <2>3 DEF Init, LW!Init
<1>2. IInv /\ IInv' /\ [Next]_vars => [LW!Next]_LW!absVars
  BY StepRefines
<1>3. QED
  BY <1>1, <1>2, Invariance, PTL DEF Safety, ImplementsLatestWins, LW!Spec
=============================================================================
