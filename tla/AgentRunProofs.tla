---------------------------- MODULE AgentRunProofs ----------------------------
(* What a success of SubprocessRunner.Run means, and what its tail keeps, for *)
(* every size of tail, pipe and output (see AgentRun).                        *)
EXTENDS AgentRun, SequenceTheorems, TLAPS

\* What Run knows of the CLI: that it was started, once Run waits; that it has ended,
\* once Wait has seen it end; and that then the pipe was read to its end, unless
\* WaitDelay has passed.
Started == proc \in {"none", "runs", "ok", "error"} /\ (pc = "wait" => proc # "none")
Ended == pc \in {"drain", "stop", "answer"} => proc \in {"ok", "error"}
Settled == pc \in {"stop", "answer"} =>
             delay = "passed" \/ (child = "none" /\ copied = printed)
IInv == Started /\ Ended /\ Settled

\* Every step keeps it: what comes after Wait starts nothing, and nothing prints into
\* a pipe that nobody holds.
LEMMA Step == IInv /\ [Next]_vars => IInv'
  <1> SUFFICES ASSUME IInv, [Next]_vars PROVE IInv'
      OBVIOUS
  <1> USE DEF IInv, Started, Ended, Settled
  <1>1. CASE PrintByte
        BY <1>1 DEF PrintByte, output, waiting
  <1>2. CASE ChildEnds
        BY <1>2 DEF ChildEnds, output, waiting
  <1>3. CASE Copy
        BY <1>3 DEF Copy, process, output, waiting
  <1>4. CASE Start
        BY <1>4 DEF Start, process, output, waiting
  <1>5. CASE Expire
        BY <1>5 DEF Expire, KillGroup, output, waiting
  <1>6. CASE Reap
        BY <1>6 DEF Reap, process, output, waiting
  <1>7. CASE DelayPasses
        BY <1>7 DEF DelayPasses, process, output, waiting
  <1>8. CASE EndWait
        BY <1>8 DEF EndWait, Waited, EndOfFile, process, output, waiting
  <1>9. CASE Stop
        BY <1>9 DEF Stop, process, output, waiting
  <1>10. CASE Answer
        BY <1>10 DEF Answer, process, output, waiting
  <1>11. CASE Quieten
        BY <1>11 DEF Quieten, process, output, waiting
  <1>12. CASE Look
        BY <1>12 DEF Look, process, output, waiting
  <1>13. CASE Mark
        BY <1>13 DEF Mark, process, output, waiting
  <1>14. CASE Kill
        BY <1>14 DEF Kill, KillGroup, output, waiting
  <1>15. CASE Leave
        BY <1>15 DEF Leave, process, output, waiting
  <1>16. ASSUME NEW where \in {"group", "outside"}, Spawn(where) PROVE IInv'
         BY <1>16 DEF Spawn, output, waiting
  <1>17. ASSUME NEW code \in {"ok", "error"}, End(code) PROVE IInv'
         BY <1>17 DEF End, output, waiting
  <1>18. CASE UNCHANGED vars
         BY <1>18 DEF vars, process, output, waiting
  <1> QED
      BY <1>1, <1>2, <1>3, <1>4, <1>5, <1>6, <1>7, <1>8, <1>9, <1>10, <1>11, <1>12, <1>13,
         <1>14, <1>15, <1>16, <1>17, <1>18 DEF Next

\* What Run knows holds in every reachable state (Run, and cmd.Wait it calls).
THEOREM Invariance == Spec => []IInv
  <1>1. Init => IInv
        BY DEF Init, IInv, Started, Ended, Settled
  <1> QED
      BY <1>1, Step, PTL DEF Spec

\* A run that is answered as a success was read to its end: SuccessIsWhole holds of
\* every execution, whatever is printed, killed or left behind.
THEOREM SuccessWasRead == Spec => SuccessIsWhole
  <1>1. ASSUME IInv, [Next]_vars, answer' = "ok", answer = "none"
        PROVE  proc = "ok" /\ child = "none" /\ copied = printed /\ ~stalled
    <2>1. Answer
          BY <1>1 DEF Next, vars, PrintByte, Spawn, ChildEnds, End, Copy, Start, Expire,
             Reap, DelayPasses, EndWait, Stop, Quieten, Look, Mark, Kill, Leave
    <2>2. pc = "answer" /\ ~stalled /\ ~Failed
          BY <1>1, <2>1 DEF Answer
    <2> QED
        BY <1>1, <2>2 DEF Failed, IInv, Started, Ended, Settled
  <1>2. IInv /\ [Next]_vars =>
          [answer' = "ok" /\ answer = "none" =>
             proc = "ok" /\ child = "none" /\ copied = printed /\ ~stalled]_vars
        BY <1>1
  <1> QED
      BY <1>2, Invariance, PTL DEF Spec, SuccessIsWhole
-----------------------------------------------------------------------------
(* The tail *)

Writer == [buf : Seq(Byte), head : 0 .. Limit - 1, wrapped : BOOLEAN]

\* The writer has the last of c bytes: all of them from the beginning, or, once it is
\* full, as many as it holds, the oldest of them at the head.
HoldsLast(w, c) ==
  /\ w.wrapped => /\ c >= Limit /\ Len(w.buf) = Limit
                  /\ \A i \in 1 .. Limit : w.buf[i] = c - Limit + ((i - 1 - w.head) % Limit) + 1
  /\ ~w.wrapped => /\ c <= Limit /\ Len(w.buf) = c /\ w.head = 0
                   /\ \A i \in 1 .. c : w.buf[i] = i

LEMMA Sizes == Limit \in Nat /\ Limit > 0 /\ PipeCap \in Nat /\ MaxBytes \in Nat
  BY AgentRunAssumption

\* How far round the ring it is from the head to a place, and where the head goes
LEMMA Distance == \A i \in 1 .. Limit, h \in 0 .. Limit - 1 :
                    (i - 1 - h) % Limit = IF i - 1 >= h THEN i - 1 - h ELSE i - 1 - h + Limit
  <1>1. \A L \in Nat : L > 0 => \A i \in 1 .. L, h \in 0 .. L - 1 :
          (i - 1 - h) % L = IF i - 1 >= h THEN i - 1 - h ELSE i - 1 - h + L
        OBVIOUS
  <1> QED
      BY <1>1, Sizes

LEMMA Advance == \A h, n \in 0 .. Limit - 1 :
                   (h + n) % Limit = IF h + n < Limit THEN h + n ELSE h + n - Limit
  <1>1. \A L \in Nat : L > 0 => \A h, n \in 0 .. L - 1 :
          (h + n) % L = IF h + n < L THEN h + n ELSE h + n - L
        OBVIOUS
  <1> QED
      BY <1>1, Sizes

\* The places round the ring are counted from the head: after n bytes those that were
\* written come last, and the others come n earlier.
LEMMA RoundAgain ==
  ASSUME NEW L \in Nat, NEW a \in Nat, NEW g \in Nat, NEW n \in Nat, a < L, g < L, n < L,
         NEW h \in Nat, h = IF g + n < L THEN g + n ELSE g + n - L,
         NEW k \in Int, k = IF a >= g THEN a - g ELSE a - g + L,
         NEW j \in Int, j = IF a >= h THEN a - h ELSE a - h + L
  PROVE  j = IF k < n THEN k - n + L ELSE k - n
  OBVIOUS

\* A full tail stays one of the last bytes: what is written takes the place of the oldest.
LEMMA RingWriteHolds ==
  ASSUME NEW w \in Writer, w.wrapped, NEW c \in Nat, HoldsLast(w, c),
         NEW n \in Nat, NEW p \in Seq(Byte), Len(p) = n, \A i \in 1 .. n : p[i] = c + i
  PROVE  /\ RingWrite(w, p) \in Writer /\ RingWrite(w, p).wrapped
         /\ HoldsLast(RingWrite(w, p), c + n)
  <1>1. /\ c >= Limit /\ w.buf \in Seq(Byte) /\ Len(w.buf) = Limit /\ w.head \in 0 .. Limit - 1
        /\ \A i \in 1 .. Limit : w.buf[i] = c - Limit + ((i - 1 - w.head) % Limit) + 1
        BY DEF HoldsLast, Writer
  <1>2. \A i \in 1 .. n : p[i] \in Byte
        OBVIOUS
  <1>3. CASE n >= Limit
    <2> DEFINE b == SubSeq(p, n - Limit + 1, n)
    <2>1. RingWrite(w, p) = [w EXCEPT !.buf = b, !.head = 0]
          BY <1>3 DEF RingWrite, LastOf
    <2>2. /\ b \in Seq(Byte) /\ Len(b) = Limit
          /\ \A i \in 1 .. Limit : b[i] = p[n - Limit + i]
      <3>1. n - Limit + 1 \in Int /\ n \in Int /\ \A i \in n - Limit + 1 .. n : i \in 1 .. n
            BY <1>3, Sizes
      <3>2. \A i \in n - Limit + 1 .. n : p[i] \in Byte
            BY <3>1, <1>2
      <3>3. /\ b \in Seq(Byte)
            /\ Len(b) = IF n - Limit + 1 <= n THEN n - (n - Limit + 1) + 1 ELSE 0
            /\ \A i \in 1 .. n - (n - Limit + 1) + 1 : b[i] = p[n - Limit + 1 + i - 1]
            BY <3>1, <3>2, SubSeqProperties
      <3>4. \A L \in Nat : L > 0 => /\ n - L + 1 <= n /\ n - (n - L + 1) + 1 = L
                                    /\ \A i \in Nat : n - L + 1 + i - 1 = n - L + i
            OBVIOUS
      <3> HIDE DEF b
      <3> QED
          BY <3>3, <3>4, Sizes
    <2> HIDE DEF b
    <2>3. \A i \in 1 .. Limit : b[i] = c + n - Limit + ((i - 1 - 0) % Limit) + 1
      <3> TAKE i \in 1 .. Limit
      <3>1. n - Limit + i \in 1 .. n
            BY <1>3, Sizes
      <3>2. b[i] = c + (n - Limit + i)
            BY <2>2, <3>1
      <3>3. (i - 1 - 0) % Limit = i - 1
            BY Distance, Sizes
      <3> QED
          BY <3>2, <3>3, Sizes
    <2>4. /\ RingWrite(w, p) \in Writer /\ RingWrite(w, p).buf = b /\ RingWrite(w, p).head = 0
          /\ RingWrite(w, p).wrapped
      <3>1. 0 \in 0 .. Limit - 1
            BY Sizes
      <3>2. /\ [w EXCEPT !.buf = b, !.head = 0] \in Writer
            /\ [w EXCEPT !.buf = b, !.head = 0].buf = b
            /\ [w EXCEPT !.buf = b, !.head = 0].head = 0
            /\ [w EXCEPT !.buf = b, !.head = 0].wrapped = w.wrapped
            BY ONLY <3>1, <2>2, w \in Writer DEF Writer
      <3> QED
          BY <3>2, <2>1
    <2>5. c + n >= Limit
          BY <1>1, Sizes
    <2> QED
        BY <2>2, <2>3, <2>4, <2>5 DEF HoldsLast
  <1>4. CASE n < Limit
    <2> DEFINE b == Over(w.buf, w.head, p)
               h == (w.head + n) % Limit
    <2>1. RingWrite(w, p) = [w EXCEPT !.buf = b, !.head = h]
          BY <1>4, Sizes DEF RingWrite
    <2>2. /\ h \in 0 .. Limit - 1
          /\ h = IF w.head + n < Limit THEN w.head + n ELSE w.head + n - Limit
      <3>1. n \in 0 .. Limit - 1 /\ w.head \in 0 .. Limit - 1
            BY <1>1, <1>4, Sizes
      <3>2. h = IF w.head + n < Limit THEN w.head + n ELSE w.head + n - Limit
            BY <3>1, Advance
      <3> HIDE DEF h
      <3> QED
          BY <3>1, <3>2, Sizes
    <2>3. \A i \in 1 .. Limit :
            b[i] = LET k == (i - 1 - w.head) % Limit IN IF k < n THEN p[k + 1] ELSE w.buf[i]
          BY DEF Over
    <2> HIDE DEF b, h
    <2>4. ASSUME NEW i \in 1 .. Limit
          PROVE  b[i] = c + n - Limit + ((i - 1 - h) % Limit) + 1 /\ b[i] \in Byte
      <3> DEFINE k == (i - 1 - w.head) % Limit
                 j == (i - 1 - h) % Limit
      <3>1. k = IF i - 1 >= w.head THEN i - 1 - w.head ELSE i - 1 - w.head + Limit
            BY <1>1, Distance
      <3>2. j = IF i - 1 >= h THEN i - 1 - h ELSE i - 1 - h + Limit
            BY <2>2, Distance
      <3>3. b[i] = IF k < n THEN p[k + 1] ELSE w.buf[i]
            BY <2>3
      <3>4. w.buf[i] = c - Limit + k + 1 /\ w.buf[i] \in Byte
            BY <1>1
      <3> HIDE DEF k, j
      <3>n. w.head \in 0 .. Limit - 1 /\ h \in 0 .. Limit - 1 /\ n \in Nat /\ n < Limit /\ i \in 1 .. Limit
            /\ Limit \in Nat /\ c \in Nat
            BY <1>1, <1>4, <2>2, Sizes
      <3>5. k \in 0 .. Limit - 1
            BY ONLY <3>1, <3>n
      <3>j. j = IF k < n THEN k - n + Limit ELSE k - n
        <4> DEFINE a == i - 1
                   g == w.head
        <4>1. a \in Nat /\ a < Limit /\ g \in Nat /\ g < Limit /\ h \in Nat
              /\ Limit \in Nat /\ n \in Nat /\ n < Limit
              BY ONLY <3>n
        <4>2. k = IF a >= g THEN a - g ELSE a - g + Limit
              BY ONLY <3>1
        <4>3. j = IF a >= h THEN a - h ELSE a - h + Limit
              BY ONLY <3>2
        <4>4. h = IF g + n < Limit THEN g + n ELSE g + n - Limit
              BY ONLY <2>2
        <4> HIDE DEF a, g
        <4>5. k \in Int /\ j \in Int
              BY ONLY <4>1, <4>2, <4>3
        <4> QED
            BY ONLY <4>1, <4>2, <4>3, <4>4, <4>5, RoundAgain
      <3>6. CASE k < n
        <4>1. p[k + 1] = c + (k + 1) /\ p[k + 1] \in Byte
              BY <3>5, <3>6, <1>2, Sizes
        <4>2. j = k - n + Limit
              BY ONLY <3>j, <3>6
        <4> QED
            BY <3>3, <3>6, <4>1, <4>2, <3>5, Sizes DEF j
      <3>7. CASE ~(k < n)
        <4>1. j = k - n
              BY ONLY <3>j, <3>7
        <4> QED
            BY <3>3, <3>7, <3>4, <4>1, <3>5, Sizes DEF j
      <3> QED
          BY <3>6, <3>7
    <2>5. b \in Seq(Byte) /\ Len(b) = Limit
      <3>1. b = [i \in 1 .. Limit |-> b[i]]
            BY DEF b, Over
      <3>2. b \in [1 .. Limit -> Byte]
            BY <3>1, <2>4
      <3> QED
          BY <3>2, Sizes
    <2>6. /\ RingWrite(w, p) \in Writer /\ RingWrite(w, p).buf = b /\ RingWrite(w, p).head = h
          /\ RingWrite(w, p).wrapped
      <3>1. /\ [w EXCEPT !.buf = b, !.head = h] \in Writer
            /\ [w EXCEPT !.buf = b, !.head = h].buf = b
            /\ [w EXCEPT !.buf = b, !.head = h].head = h
            /\ [w EXCEPT !.buf = b, !.head = h].wrapped = w.wrapped
            BY ONLY <2>2, <2>5, w \in Writer DEF Writer
      <3> QED
          BY <3>1, <2>1
    <2>7. c + n >= Limit
          BY <1>1, Sizes
    <2> QED
        BY <2>4, <2>5, <2>6, <2>7 DEF HoldsLast
  <1> QED
      BY <1>3, <1>4, Sizes

\* Writing the next n bytes, in whatever pieces, leaves the last ones.
LEMMA TailWriteHolds ==
  ASSUME NEW w \in Writer, NEW c \in Nat, HoldsLast(w, c), NEW n \in Nat, c + n <= MaxBytes
  PROVE  LET v == TailWrite(w, [i \in 1 .. n |-> c + i])
         IN  v \in Writer /\ HoldsLast(v, c + n)
  <1> DEFINE p == [i \in 1 .. n |-> c + i]
             room == Limit - Len(w.buf)
  <1>1. p \in Seq(Byte) /\ Len(p) = n /\ \A i \in 1 .. n : p[i] = c + i
    <2>1. \A i \in 1 .. n : c + i \in Byte
          BY Sizes DEF Byte
    <2>2. p \in [1 .. n -> Byte]
          BY <2>1
    <2> QED
        BY <2>2
  <1> HIDE DEF p
  <1>2. CASE w.wrapped
    <2>1. TailWrite(w, p) = RingWrite(w, p)
          BY <1>2 DEF TailWrite
    <2> QED
        BY <1>1, <1>2, <2>1, RingWriteHolds DEF p
  <1>3. CASE ~w.wrapped
    <2>1. /\ c <= Limit /\ w.buf \in Seq(Byte) /\ Len(w.buf) = c /\ w.head = 0 /\ room = Limit - c
          /\ \A i \in 1 .. c : w.buf[i] = i
          BY <1>3 DEF HoldsLast, Writer
    <2> HIDE DEF room
    <2>2. CASE n <= room
      <3>1. TailWrite(w, p) = [w EXCEPT !.buf = w.buf \o p]
            BY <1>1, <1>3, <2>2 DEF TailWrite, room
      <3>2. /\ w.buf \o p \in Seq(Byte) /\ Len(w.buf \o p) = c + n
            /\ \A i \in 1 .. c + n : (w.buf \o p)[i] = IF i <= c THEN w.buf[i] ELSE p[i - c]
        <4>1. /\ w.buf \o p \in Seq(Byte) /\ Len(w.buf \o p) = Len(w.buf) + Len(p)
              /\ \A i \in 1 .. Len(w.buf) + Len(p) :
                   (w.buf \o p)[i] = IF i <= Len(w.buf) THEN w.buf[i] ELSE p[i - Len(w.buf)]
              BY <1>1, <2>1, ConcatProperties
        <4> QED
            BY ONLY <4>1, <1>1, <2>1
      <3> DEFINE b == w.buf \o p
      <3>3. /\ TailWrite(w, p) \in Writer /\ TailWrite(w, p).buf = b
            /\ TailWrite(w, p).head = 0 /\ ~TailWrite(w, p).wrapped
            BY <1>3, <3>1, <3>2, <2>1 DEF Writer
      <3> HIDE DEF b
      <3>4. \A i \in 1 .. c + n : b[i] = i
        <4> TAKE i \in 1 .. c + n
        <4>1. i > c => i - c \in 1 .. n /\ c + (i - c) = i
              OBVIOUS
        <4> QED
            BY <4>1, <3>2, <2>1, <1>1 DEF b
      <3>5. c + n <= Limit
            BY <2>1, <2>2, Sizes
      <3> QED
          BY <3>2, <3>3, <3>4, <3>5 DEF HoldsLast, p, b
    <2>3. CASE ~(n <= room)
      <3> DEFINE first == SubSeq(p, 1, room)
                 rest == SubSeq(p, room + 1, n)
                 full == [buf |-> w.buf \o first, head |-> 0, wrapped |-> TRUE]
      <3>1. TailWrite(w, p) = RingWrite(full, rest)
            BY <1>1, <1>3, <2>3 DEF TailWrite, room
      <3>2. room \in Nat /\ room < n /\ room = Limit - c
            BY <2>1, <2>3, Sizes
      <3>3. first \in Seq(Byte) /\ Len(first) = room /\ \A i \in 1 .. room : first[i] = c + i
        <4>1. \A i \in 1 .. room : i \in 1 .. n
              BY <3>2
        <4>2. /\ first \in Seq(Byte)
              /\ Len(first) = IF 1 <= room THEN room - 1 + 1 ELSE 0
              /\ \A i \in 1 .. room - 1 + 1 : first[i] = p[1 + i - 1]
          <5>1. \A i \in 1 .. room : p[i] \in Byte
                BY <4>1, <1>1
          <5>2. 1 \in Int /\ room \in Int
                BY <3>2
          <5> QED
              BY <5>1, <5>2, SubSeqProperties
        <4> HIDE DEF first
        <4>3. room - 1 + 1 = room /\ \A i \in 1 .. room : 1 + i - 1 = i
              BY <3>2
        <4>4. \A i \in 1 .. room : first[i] = p[i]
              BY <4>2, <4>3
        <4> QED
            BY <4>1, <4>2, <4>3, <4>4, <1>1, <3>2
      <3>4. rest \in Seq(Byte) /\ Len(rest) = n - room /\ \A i \in 1 .. n - room : rest[i] = (c + room) + i
        <4>1. \A i \in room + 1 .. n : i \in 1 .. n
              BY <3>2
        <4>2. /\ rest \in Seq(Byte)
              /\ Len(rest) = IF room + 1 <= n THEN n - (room + 1) + 1 ELSE 0
              /\ \A i \in 1 .. n - (room + 1) + 1 : rest[i] = p[room + 1 + i - 1]
          <5>1. \A i \in room + 1 .. n : p[i] \in Byte
                BY <4>1, <1>1
          <5>2. room + 1 \in Int /\ n \in Int
                BY <3>2
          <5> QED
              BY <5>1, <5>2, SubSeqProperties
        <4> HIDE DEF rest
        <4>3. /\ room + 1 <= n /\ n - (room + 1) + 1 = n - room
              /\ \A i \in 1 .. n - room : room + 1 + i - 1 = room + i /\ room + i \in 1 .. n
              BY <3>2
        <4>4. \A i \in 1 .. n - room : rest[i] = c + (room + i)
              BY <4>2, <4>3, <1>1
        <4> QED
            BY <4>2, <4>3, <4>4, <3>2
      <3> HIDE DEF first, rest
      <3>5. full \in Writer /\ full.wrapped /\ HoldsLast(full, c + room)
        <4> DEFINE b == w.buf \o first
        <4>1. /\ b \in Seq(Byte) /\ Len(b) = c + room
              /\ \A i \in 1 .. c + room : b[i] = IF i <= c THEN w.buf[i] ELSE first[i - c]
          <5>1. /\ b \in Seq(Byte) /\ Len(b) = Len(w.buf) + Len(first)
                /\ \A i \in 1 .. Len(w.buf) + Len(first) :
                     b[i] = IF i <= Len(w.buf) THEN w.buf[i] ELSE first[i - Len(w.buf)]
            <6>1. w.buf \in Seq(Byte) /\ first \in Seq(Byte)
                  BY <2>1, <3>3
            <6> QED
                BY ONLY <6>1, ConcatProperties
          <5> HIDE DEF b
          <5> QED
              BY ONLY <5>1, <2>1, <3>3
        <4>2. full = [buf |-> b, head |-> 0, wrapped |-> TRUE]
              OBVIOUS
        <4> HIDE DEF b
        <4>3. c + room = Limit
              BY <3>2, Sizes
        <4>4. \A i \in 1 .. Limit : b[i] = i
          <5> TAKE i \in 1 .. Limit
          <5>1. i > c => i - c \in 1 .. room /\ c + (i - c) = i
                BY <4>3, <3>2, Sizes
          <5>2. i <= c => i \in 1 .. c
                BY <2>1
          <5>3. b[i] = IF i <= c THEN w.buf[i] ELSE first[i - c]
                BY <4>1, <4>3
          <5> QED
              BY <5>1, <5>2, <5>3, <2>1, <3>3
        <4>5. \A i \in 1 .. Limit : b[i] = Limit - Limit + ((i - 1 - 0) % Limit) + 1
          <5> TAKE i \in 1 .. Limit
          <5>1. (i - 1 - 0) % Limit = i - 1
                BY Distance, Sizes
          <5> QED
              BY <5>1, <4>4, Sizes
        <4>6. /\ full \in Writer /\ full.wrapped /\ full.buf = b /\ full.head = 0
          <5>1. 0 \in 0 .. Limit - 1
                BY Sizes
          <5> QED
              BY <5>1, <4>1, <4>2 DEF Writer
        <4> HIDE DEF full
        <4> QED
            BY <4>1, <4>3, <4>5, <4>6, Sizes DEF HoldsLast
      <3> HIDE DEF full
      <3>6. c + room \in Nat /\ n - room \in Nat /\ c + room + (n - room) = c + n
            BY <3>2
      <3>7. /\ RingWrite(full, rest) \in Writer
            /\ HoldsLast(RingWrite(full, rest), c + room + (n - room))
            BY <3>4, <3>5, <3>6, RingWriteHolds
      <3> QED
          BY <3>1, <3>6, <3>7 DEF p
    <2> QED
        BY <2>2, <2>3
  <1> QED
      BY <1>2, <1>3

\* String puts it in order.
LEMMA KeptIs ==
  ASSUME NEW w \in Writer, NEW c \in Nat, c <= MaxBytes, HoldsLast(w, c)
  PROVE  LET size == IF c < Limit THEN c ELSE Limit
         IN  Kept(w) = [i \in 1 .. size |-> c - size + i]
  <1> DEFINE size == IF c < Limit THEN c ELSE Limit
             t == [i \in 1 .. size |-> c - size + i]
  <1>1. /\ size \in Nat /\ t \in Seq(Byte) /\ Len(t) = size
        /\ \A i \in 1 .. size : t[i] = c - size + i
    <2>1. size \in Nat /\ size <= c
          BY Sizes
    <2> HIDE DEF size
    <2>2. \A i \in 1 .. size : c - size + i \in Byte
          BY <2>1, Sizes DEF Byte
    <2>3. t \in [1 .. size -> Byte]
          BY <2>2
    <2> QED
        BY <2>1, <2>3
  <1> HIDE DEF t
  <1>2. CASE ~w.wrapped
    <2>1. w.buf \in Seq(Byte) /\ Len(w.buf) = c /\ size = c /\ \A i \in 1 .. c : w.buf[i] = i
          BY <1>2, Sizes DEF HoldsLast, Writer
    <2> HIDE DEF size
    <2>2. \A i \in 1 .. Len(w.buf) : w.buf[i] = t[i]
          BY <1>1, <2>1
    <2>3. w.buf = t
          BY <1>1, <2>1, <2>2, SeqEqual
    <2> QED
        BY <1>2, <2>3 DEF Kept, t, size
  <1>3. CASE w.wrapped
    <2>1. /\ c >= Limit /\ w.buf \in Seq(Byte) /\ Len(w.buf) = Limit /\ w.head \in 0 .. Limit - 1
          /\ \A i \in 1 .. Limit : w.buf[i] = c - Limit + ((i - 1 - w.head) % Limit) + 1
          BY <1>3 DEF HoldsLast, Writer
    <2>2. size = Limit
          BY <2>1, Sizes
    <2> HIDE DEF size
    <2> DEFINE h == w.head
               old == SubSeq(w.buf, h + 1, Limit)
               new == SubSeq(w.buf, 1, h)
    <2>3. old \in Seq(Byte) /\ Len(old) = Limit - h /\ \A i \in 1 .. Limit - h : old[i] = w.buf[h + i]
      <3>1. \A i \in h + 1 .. Limit : w.buf[i] \in Byte
        <4>1. \A i \in h + 1 .. Limit : i \in 1 .. Len(w.buf)
              BY <2>1, Sizes
        <4> QED
            BY <4>1, <2>1
      <3>2. h + 1 \in Int /\ Limit \in Int
            BY <2>1, Sizes
      <3>3. /\ old \in Seq(Byte)
            /\ Len(old) = IF h + 1 <= Limit THEN Limit - (h + 1) + 1 ELSE 0
            /\ \A i \in 1 .. Limit - (h + 1) + 1 : old[i] = w.buf[h + 1 + i - 1]
            BY <3>1, <3>2, SubSeqProperties
      <3> HIDE DEF old
      <3>4. /\ h + 1 <= Limit /\ Limit - (h + 1) + 1 = Limit - h
            /\ \A i \in Nat : h + 1 + i - 1 = h + i
        <4>1. h \in 0 .. Limit - 1 /\ Limit \in Nat
              BY <2>1, Sizes
        <4> HIDE DEF h
        <4> QED
            BY ONLY <4>1
      <3> HIDE DEF h
      <3> QED
          BY <3>3, <3>4
    <2>4. new \in Seq(Byte) /\ Len(new) = h /\ \A i \in 1 .. h : new[i] = w.buf[i]
      <3>1. \A i \in 1 .. h : w.buf[i] \in Byte
        <4>1. \A i \in 1 .. h : i \in 1 .. Len(w.buf)
              BY <2>1, Sizes
        <4> QED
            BY <4>1, <2>1
      <3>2. 1 \in Int /\ h \in Int
            BY <2>1, Sizes
      <3>3. /\ new \in Seq(Byte)
            /\ Len(new) = IF 1 <= h THEN h - 1 + 1 ELSE 0
            /\ \A i \in 1 .. h - 1 + 1 : new[i] = w.buf[1 + i - 1]
            BY <3>1, <3>2, SubSeqProperties
      <3> HIDE DEF new
      <3>4. h \in Nat /\ h - 1 + 1 = h /\ \A i \in Nat : 1 + i - 1 = i
            BY <2>1, Sizes
      <3> HIDE DEF h
      <3>5. ~(1 <= h) => h = 0
            BY <3>4
      <3> QED
          BY <3>3, <3>4, <3>5
    <2> HIDE DEF old, new
    <2>5. /\ old \o new \in Seq(Byte) /\ Len(old \o new) = Limit
          /\ \A i \in 1 .. Limit : (old \o new)[i] = IF i <= Limit - h THEN old[i] ELSE new[i - (Limit - h)]
      <3>1. /\ old \o new \in Seq(Byte) /\ Len(old \o new) = Limit - h + h
            /\ \A i \in 1 .. Limit - h + h :
                 (old \o new)[i] = IF i <= Limit - h THEN old[i] ELSE new[i - (Limit - h)]
        <4>1. /\ old \o new \in Seq(Byte) /\ Len(old \o new) = Len(old) + Len(new)
              /\ \A i \in 1 .. Len(old) + Len(new) :
                   (old \o new)[i] = IF i <= Len(old) THEN old[i] ELSE new[i - Len(old)]
              BY <2>3, <2>4, ConcatProperties
        <4> QED
            BY ONLY <4>1, <2>3, <2>4
      <3>2. Limit - h + h = Limit
            BY <2>1, Sizes
      <3> QED
          BY <3>1, <3>2
    <2>6. \A i \in 1 .. Limit : (old \o new)[i] = c - Limit + i
      <3> TAKE i \in 1 .. Limit
      <3>0. h \in 0 .. Limit - 1
            BY <2>1
      <3>1. CASE i <= Limit - h
        <4> DEFINE k == h + i
        <4>1. /\ i \in 1 .. Limit - h /\ k \in 1 .. Limit /\ k - 1 - h = i - 1
              /\ (k - 1 - h) % Limit = i - 1
          <5>1. /\ i \in 1 .. Limit - h /\ h + i \in 1 .. Limit /\ h + i - 1 - h = i - 1
                /\ i - 1 - 0 = i - 1 /\ 0 \in 0 .. Limit - 1 /\ i - 1 >= 0
                BY <3>0, <3>1, Sizes
          <5>2. (i - 1 - 0) % Limit = i - 1
                BY <5>1, Distance
          <5>3. k = h + i /\ h \in Int /\ i \in Int /\ i \in 1 .. Limit - h /\ k \in 1 .. Limit
                BY <3>0, <5>1
          <5> HIDE DEF k, h
          <5>4. k - 1 - h = i - 1 - 0 /\ k - 1 - h = i - 1
                BY ONLY <5>3
          <5> QED
              BY ONLY <5>2, <5>3, <5>4
        <4>2. (old \o new)[i] = w.buf[k]
              BY <4>1, <3>1, <2>3, <2>5
        <4> HIDE DEF k
        <4>3. w.buf[k] = c - Limit + ((k - 1 - h) % Limit) + 1
              BY <4>1, <2>1
        <4> QED
            BY <4>1, <4>2, <4>3, Sizes
      <3>2. CASE ~(i <= Limit - h)
        <4> DEFINE k == i - (Limit - h)
        <4>1. /\ k \in 1 .. h /\ k \in 1 .. Limit /\ k - 1 - h = i - 1 - Limit
              /\ (k - 1 - h) % Limit = i - 1
          <5>1. /\ k \in 1 .. h /\ k \in 1 .. Limit /\ k - 1 - h = i - 1 - Limit
                /\ ~(k - 1 >= h) /\ k - 1 - h + Limit = i - 1
                BY <3>0, <3>2, Sizes
          <5> HIDE DEF k
          <5> QED
              BY <5>1, <3>0, Distance
        <4>2. (old \o new)[i] = w.buf[k]
              BY <4>1, <3>2, <2>4, <2>5
        <4> HIDE DEF k
        <4>3. w.buf[k] = c - Limit + ((k - 1 - h) % Limit) + 1
              BY <4>1, <2>1
        <4> QED
            BY <4>1, <4>2, <4>3, Sizes
      <3> QED
          BY <3>1, <3>2
    <2>7. \A i \in 1 .. Len(old \o new) : (old \o new)[i] = t[i]
          BY <2>2, <2>5, <2>6, <1>1
    <2>8. old \o new = t
          BY <2>2, <2>5, <2>7, <1>1, SeqEqual
    <2>9. Kept(w) = old \o new
          BY <1>3 DEF Kept, old, new
    <2> QED
        BY <2>8, <2>9 DEF t, size
  <1> QED
      BY <1>2, <1>3
\* What Run holds is of its type, and the writer has the last of what was copied.
TailIInv == TypeOK /\ HoldsLast(stdout, copied)

\* What is copied goes to the tail; no other step touches it.
LEMMA CopyKeeps ==
  ASSUME TailIInv, Copy PROVE TailIInv'
  <1>1. PICK n \in 1 .. printed - copied :
          /\ stdout' = TailWrite(stdout, [i \in 1 .. n |-> copied + i]) /\ copied' = copied + n
        BY DEF Copy
  <1>2. /\ printed \in Nat /\ printed <= MaxBytes /\ copied \in Nat /\ copied <= printed
        /\ printed - copied <= PipeCap /\ stdout \in Writer /\ HoldsLast(stdout, copied)
        BY Sizes DEF TailIInv, TypeOK, Writer
  <1>3. n \in Nat /\ copied + n <= printed /\ copied + n <= MaxBytes /\ n >= 1
        BY <1>2, Sizes
  <1>4. stdout' \in Writer /\ HoldsLast(stdout', copied + n)
        BY <1>1, <1>2, <1>3, TailWriteHolds
  <1>5. /\ printed' = printed /\ copied' = copied + n
        /\ UNCHANGED <<pc, proc, child, dog, stalled, expired, delay, answer>> /\ quiet' = FALSE
        BY <1>1 DEF Copy, process, waiting
  <1>6. copied' \in 0 .. printed' /\ printed' - copied' <= PipeCap
        BY <1>2, <1>3, <1>5, Sizes
  <1>7. Len(stdout'.buf) <= Limit
        BY <1>2, <1>3, <1>4, Sizes DEF HoldsLast
  <1>8. TypeOK'
        BY <1>4, <1>5, <1>6, <1>7, ZenonT(60) DEF TypeOK, TailIInv, Writer
  <1>9. HoldsLast(stdout, copied)'
        BY <1>4, <1>5 DEF HoldsLast
  <1> QED
      BY <1>8, <1>9 DEF TailIInv

LEMMA TailStep == TailIInv /\ [Next]_vars => TailIInv'
  <1> SUFFICES ASSUME TailIInv, [Next]_vars PROVE TailIInv'
      OBVIOUS
  <1>1. CASE Copy
        BY <1>1, CopyKeeps
  <1>2. CASE ~Copy
    <2>1. UNCHANGED output
          BY <1>2 DEF Next, PrintByte, Spawn, ChildEnds, End, Start, Expire, Reap, DelayPasses, EndWait,
             Stop, Answer, Quieten, Look, Mark, Kill, Leave, vars
    <2>2. copied' = copied /\ stdout' = stdout
          BY <2>1 DEF output
    <2>3. HoldsLast(stdout, copied)'
          BY <2>2 DEF TailIInv, HoldsLast
    <2>4. printed' \in 0 .. MaxBytes /\ copied' \in 0 .. printed' /\ printed' - copied' <= PipeCap
      <3>1. /\ printed \in 0 .. MaxBytes /\ copied \in 0 .. printed /\ printed - copied <= PipeCap
            BY DEF TailIInv, TypeOK
      <3>2. CASE PrintByte
        <4>1. printed' = printed + 1 /\ printed < MaxBytes /\ printed - copied < PipeCap
              BY <3>2 DEF PrintByte
        <4> QED
            BY <3>1, <4>1, <2>2, Sizes
      <3>3. CASE ~PrintByte
        <4>1. printed' = printed
              BY <1>2, <3>3 DEF Next, Spawn, ChildEnds, End, Start, Expire, Reap, DelayPasses, EndWait,
                 Stop, Answer, Quieten, Look, Mark, Kill, Leave, vars, process
        <4> QED
            BY <3>1, <4>1, <2>2
      <3> QED
          BY <3>2, <3>3
    <2>5. /\ pc' \in {"start", "wait", "drain", "stop", "answer", "returned"}
          /\ proc' \in {"none", "runs", "ok", "error"} /\ child' \in {"none", "group", "outside"}
          /\ {quiet', stalled', expired'} \subseteq BOOLEAN
          /\ dog' \in {"gone", "watch", "mark", "kill"} /\ delay' \in {"off", "runs", "passed"}
          /\ answer' \in {"none", "ok", "stalled", "error"}
      <3>1. /\ pc \in {"start", "wait", "drain", "stop", "answer", "returned"}
            /\ proc \in {"none", "runs", "ok", "error"} /\ child \in {"none", "group", "outside"}
            /\ {quiet, stalled, expired} \subseteq BOOLEAN
            /\ dog \in {"gone", "watch", "mark", "kill"} /\ delay \in {"off", "runs", "passed"}
            /\ answer \in {"none", "ok", "stalled", "error"}
            BY DEF TailIInv, TypeOK
      <3>2. CASE PrintByte \/ ChildEnds \/ (\E where \in {"group", "outside"} : Spawn(where))
                 \/ \E code \in {"ok", "error"} : End(code)
            BY ONLY <3>1, <3>2 DEF PrintByte, ChildEnds, Spawn, End, watchdog, waiting
      <3>3. CASE Start \/ Expire \/ Reap \/ DelayPasses
            BY ONLY <3>1, <3>3 DEF Start, Expire, Reap, DelayPasses, KillGroup, process, watchdog, waiting
      <3>4. CASE EndWait \/ Stop \/ Answer
            BY ONLY <3>1, <3>4 DEF EndWait, Stop, Answer, process, watchdog, waiting
      <3>5. CASE Quieten \/ Look \/ Mark \/ Kill \/ Leave
            BY ONLY <3>1, <3>5 DEF Quieten, Look, Mark, Kill, Leave, KillGroup, process, waiting
      <3>6. CASE UNCHANGED vars
            BY ONLY <3>1, <3>6 DEF vars, process, watchdog, waiting
      <3> QED
          BY <1>2, <3>2, <3>3, <3>4, <3>5, <3>6 DEF Next
    <2>6. TypeOK'
          BY <2>2, <2>4, <2>5 DEF TailIInv, TypeOK
    <2> QED
        BY <2>3, <2>6 DEF TailIInv
  <1> QED
      BY <1>1, <1>2

\* A run keeps to its types, and the tail to its size.
THEOREM TailInvariance == Spec => []TailIInv
  <1>1. Init => TailIInv
    <2> SUFFICES ASSUME Init PROVE TailIInv
        OBVIOUS
    <2>1. /\ stdout.buf = <<>> /\ stdout.head = 0 /\ ~stdout.wrapped /\ copied = 0 /\ printed = 0
          /\ stdout = [buf |-> <<>>, head |-> 0, wrapped |-> FALSE]
          BY DEF Init, NoBytes
    <2>2. <<>> \in Seq(Byte) /\ Len(<<>>) = 0 /\ 0 \in 0 .. Limit - 1
          BY Sizes
    <2>3. stdout \in [buf : Seq(Byte), head : 0 .. Limit - 1, wrapped : BOOLEAN]
          BY <2>1, <2>2
    <2>4. /\ printed \in 0 .. MaxBytes /\ copied \in 0 .. printed /\ printed - copied <= PipeCap
          /\ Len(stdout.buf) <= Limit
          BY <2>1, <2>2, Sizes
    <2>5. TypeOK
          BY <2>3, <2>4 DEF Init, TypeOK
    <2>6. HoldsLast(stdout, copied)
          BY <2>1, <2>2, Sizes DEF HoldsLast
    <2> QED
        BY <2>5, <2>6 DEF TailIInv
  <1> QED
      BY <1>1, TailStep, PTL DEF Spec

\* Run, its pipe and its watchdog keep to their types: the pipe holds what it can hold,
\* the tail no more than its limit.
THEOREM TypeCorrect == Spec => []TypeOK
  <1>1. TailIInv => TypeOK
        BY DEF TailIInv
  <1> QED
      BY <1>1, TailInvariance, PTL

\* What Run answers with is the end of what the CLI printed: KeepsTail holds for every
\* size of tail and pipe, in whatever pieces the output comes.
THEOREM TailIsKept == Spec => []KeepsTail
  <1>1. TailIInv => KeepsTail
    <2> SUFFICES ASSUME TailIInv PROVE KeepsTail
        OBVIOUS
    <2>1. stdout \in Writer /\ copied \in Nat /\ copied <= MaxBytes /\ HoldsLast(stdout, copied)
          BY Sizes DEF TailIInv, TypeOK, Writer
    <2> QED
        BY <2>1, KeptIs DEF KeepsTail, Size
  <1> QED
      BY <1>1, TailInvariance, PTL
===============================================================================
