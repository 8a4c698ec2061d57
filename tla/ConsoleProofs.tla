---------------------------- MODULE ConsoleProofs -----------------------------
(***************************************************************************)
(* What the console shows.  AuditStore.All is fresh for any number of      *)
(* appenders, readers and records: the cache and its generation never hide *)
(* a record whose Append had returned when All was called; and a stream    *)
(* has no gap, overlap or disorder but for what a full ring or channel has *)
(* dropped (AuditStream).  What the queue of Fix PRs says of a PR was true *)
(* at some moment of the request, or was recorded, for any number of PRs,  *)
(* lookups at once and pages of checks (PRQueue).  The end of a Fix is     *)
(* seen unless the channel was full, an ended card stays ended, and output *)
(* has no hole but in a Fix that had lines dropped and no snapshot since,  *)
(* for any Fixes, lines and channels (LiveView).                           *)
(***************************************************************************)
EXTENDS MCConsole, SequenceTheorems, FiniteSetTheorems, TLAPS

-----------------------------------------------------------------------------
(* AuditStream; the ring and the streams play no part in it. *)

store == <<log, apc, seq, acked, all, allValid, allGen, rpc, gen, out, floor>>

\* The empty store is complete.
LEMMA StoreInitially ==
  ASSUME Init
  PROVE  IInv
  <1>0. 0 \in 0 .. MaxRecords /\ 0 \in 0 .. 0 /\ 0 \in Nat
        BY AuditStreamAssumption
  <1>1. StoreOK
        BY <1>0 DEF Init, StoreOK
  <1>2. CacheComplete /\ FillComplete /\ GensBehind /\ OutIsFresh
        BY DEF Init, CacheComplete, FillComplete, GensBehind, OutIsFresh
  <1> QED
      BY <1>1, <1>2 DEF IInv

\* The event stream does not touch the store.
LEMMA StreamsAreQuiet ==
  ASSUME NEW c \in Clients,
         \/ Connect(c, 0) \/ Connect(c, after[c]) \/ Subscribe(c) \/ Replay(c)
         \/ WriteReplay(c) \/ Follow(c) \/ Disconnect(c)
  PROVE  UNCHANGED store
  BY DEF Connect, Subscribe, Replay, WriteReplay, Follow, Disconnect, store, appends,
         cache, readers

\* A commit is in the database and in nobody's answer yet.
LEMMA CommitStep ==
  ASSUME IInv, NEW a \in Appenders, Commit(a)
  PROVE  IInv'
  <1>1. StoreOK'
        BY AuditStreamAssumption DEF IInv, StoreOK, Commit, cache, readers
  <1>2. \A s \in Seqs : Dropped(s)' => Dropped(s)
        BY DEF IInv, StoreOK, Commit, Dropped, Seqs
  <1>3. CacheComplete' /\ FillComplete'
        BY <1>2 DEF IInv, CacheComplete, FillComplete, Unchanged, Commit, cache, readers
  <1>4. GensBehind' /\ OutIsFresh'
        BY DEF IInv, GensBehind, OutIsFresh, Commit, cache, readers
  <1> QED
      BY <1>1, <1>3, <1>4 DEF IInv

\* Dropping the cache makes every fill on its way a fill of an older generation.
LEMMA InvalidateStep ==
  ASSUME IInv, NEW a \in Appenders, Invalidate(a)
  PROVE  IInv'
  <1>1. StoreOK'
    <2>1. 0 \in 0 .. log /\ allGen + 1 \in Nat
          BY DEF IInv, StoreOK
    <2> QED
        BY <2>1 DEF IInv, StoreOK, Invalidate, readers
  <1>2. CacheComplete'
        BY DEF CacheComplete, Invalidate
  <1>3. GensBehind'
        BY DEF IInv, StoreOK, GensBehind, Invalidate, readers
  <1>4. FillComplete'
    <2>1. \A r \in Readers : gen[r] < allGen'
          BY DEF IInv, StoreOK, GensBehind, Invalidate
    <2> QED
        BY <2>1 DEF IInv, StoreOK, FillComplete, Unchanged, Invalidate, readers
  <1>5. OutIsFresh'
        BY DEF IInv, GensBehind, OutIsFresh, Invalidate, readers
  <1> QED
      BY <1>1, <1>2, <1>3, <1>4, <1>5 DEF IInv

\* What is acknowledged has been dropped from the cache before.
LEMMA PublishStep ==
  ASSUME IInv, NEW a \in Appenders, Publish(a)
  PROVE  IInv'
  <1> DEFINE s == seq[a]
  <1>0. s \in 0 .. log /\ acked \in 0 .. log /\ log \in 0 .. MaxRecords
        BY DEF IInv, StoreOK
  <1>1. acked' = (IF s > acked THEN s ELSE acked) /\ apc[a] = "invalidated"
        BY DEF Publish
  <1>2. StoreOK'
        BY <1>0, <1>1 DEF IInv, StoreOK, Publish, cache, readers
  <1>3. \A x \in Seqs : Dropped(x)' => Dropped(x) \/ x <= s
        BY <1>0, <1>1 DEF IInv, StoreOK, Publish, Dropped, Seqs
  <1>4. CacheComplete'
    <2> SUFFICES ASSUME NEW x \in Seqs, allValid, Dropped(x)'
                 PROVE  x <= all
        BY DEF CacheComplete, Publish, cache
    <2>1. CASE Dropped(x)
          BY <2>1 DEF IInv, CacheComplete
    <2>2. CASE x <= s
      <3>1. s \in Seqs /\ Dropped(s)
            BY <2>2, <1>0, <1>1, AuditStreamAssumption DEF Dropped, Seqs
      <3>2. s <= all
            BY <3>1 DEF IInv, CacheComplete
      <3> QED
          BY <2>2, <3>1, <3>2, <1>0 DEF IInv, StoreOK, Seqs
    <2> QED
        BY <1>3, <2>1, <2>2
  <1>5. FillComplete'
    <2> SUFFICES ASSUME NEW r \in Readers, NEW x \in Seqs, rpc[r] = "fill", Unchanged(r),
                        Dropped(x)'
                 PROVE  x <= out[r]
        BY DEF FillComplete, Publish, cache, readers, Unchanged
    <2>1. CASE Dropped(x)
          BY <2>1 DEF IInv, FillComplete
    <2>2. CASE x <= s
      <3>1. s \in Seqs /\ Dropped(s)
            BY <2>2, <1>0, <1>1, AuditStreamAssumption DEF Dropped, Seqs
      <3>2. s <= out[r]
            BY <3>1 DEF IInv, FillComplete
      <3> QED
          BY <2>2, <3>1, <3>2, <1>0 DEF IInv, StoreOK, Seqs
    <2> QED
        BY <1>3, <2>1, <2>2
  <1>6. GensBehind' /\ OutIsFresh'
        BY DEF IInv, GensBehind, OutIsFresh, Publish, cache, readers
  <1> QED
      BY <1>2, <1>4, <1>5, <1>6 DEF IInv

-----------------------------------------------------------------------------
(* All *)

\* The cache answers with what it holds, and that is enough.
LEMMA AskStep ==
  ASSUME IInv, NEW r \in Readers, Ask(r)
  PROVE  IInv'
  <1>1. acked \in 0 .. log /\ log \in 0 .. MaxRecords /\ all \in 0 .. log /\ allGen \in Nat
        BY DEF IInv, StoreOK
  <1>2. allValid => acked <= all
    <2>1. acked = 0 \/ (acked \in Seqs /\ Dropped(acked))
          BY <1>1, AuditStreamAssumption DEF Seqs, Dropped
    <2> QED
        BY <2>1, <1>1 DEF IInv, CacheComplete
  <1>3. StoreOK'
        BY <1>1 DEF IInv, StoreOK, Ask, appends, cache
  <1>4. CacheComplete'
        BY DEF IInv, CacheComplete, Dropped, Ask, appends, cache
  <1>5. FillComplete'
        BY DEF IInv, StoreOK, FillComplete, Dropped, Unchanged, Ask, appends, cache
  <1>6. GensBehind'
        BY <1>1 DEF IInv, StoreOK, GensBehind, Ask, cache
  <1>7. OutIsFresh'
        BY <1>1, <1>2 DEF IInv, StoreOK, GensBehind, OutIsFresh, Ask
  <1> QED
      BY <1>3, <1>4, <1>5, <1>6, <1>7 DEF IInv

\* The database has everything.
LEMMA ViewStep ==
  ASSUME IInv, NEW r \in Readers, View(r)
  PROVE  IInv'
  <1>1. \A s \in Seqs : Dropped(s) => s <= log
        BY DEF IInv, StoreOK, Dropped, Seqs
  <1>2. StoreOK'
        BY DEF IInv, StoreOK, View, appends, cache
  <1>3. CacheComplete'
        BY DEF IInv, CacheComplete, Dropped, View, appends, cache
  <1>4. FillComplete'
        BY <1>1 DEF IInv, StoreOK, FillComplete, Dropped, Unchanged, View, appends, cache
  <1>5. GensBehind' /\ OutIsFresh'
        BY DEF IInv, StoreOK, GensBehind, OutIsFresh, View, cache
  <1> QED
      BY <1>2, <1>3, <1>4, <1>5 DEF IInv

\* What is filled in is complete, or left out.
LEMMA FillStep ==
  ASSUME IInv, NEW r \in Readers, Fill(r)
  PROVE  IInv'
  <1>1. StoreOK'
        BY DEF IInv, StoreOK, Fill, appends
  <1>2. \A s \in Seqs : Dropped(s)' <=> Dropped(s)
        BY DEF Dropped, Fill, appends
  <1>3. CacheComplete'
        BY <1>2 DEF IInv, CacheComplete, FillComplete, Fill
  <1>4. FillComplete'
        BY <1>2 DEF IInv, StoreOK, FillComplete, Unchanged, Fill
  <1>5. GensBehind' /\ OutIsFresh'
        BY DEF IInv, StoreOK, GensBehind, OutIsFresh, Fill
  <1> QED
      BY <1>1, <1>3, <1>4, <1>5 DEF IInv

LEMMA AnsweredStep ==
  ASSUME IInv, NEW r \in Readers, Answered(r)
  PROVE  IInv'
  <1>1. StoreOK'
        BY DEF IInv, StoreOK, Answered, appends, cache
  <1>2. CacheComplete' /\ FillComplete'
        BY DEF IInv, StoreOK, CacheComplete, FillComplete, Dropped, Unchanged, Answered,
           appends, cache
  <1>3. GensBehind' /\ OutIsFresh'
        BY DEF IInv, StoreOK, GensBehind, OutIsFresh, Answered, cache
  <1> QED
      BY <1>1, <1>2, <1>3 DEF IInv

\* After a restart the cache is invalid and nobody is reading.
LEMMA RestartStep ==
  ASSUME IInv, Restart
  PROVE  IInv'
  <1>0. 0 \in 0 .. log /\ 0 \in Nat
        BY DEF IInv, StoreOK
  <1>1. StoreOK'
        BY <1>0 DEF IInv, StoreOK, Restart
  <1>2. CacheComplete' /\ FillComplete' /\ GensBehind' /\ OutIsFresh'
        BY DEF CacheComplete, FillComplete, GensBehind, OutIsFresh, Restart
  <1> QED
      BY <1>1, <1>2 DEF IInv

\* What leaves the store alone leaves the invariant.
LEMMA QuietStep ==
  ASSUME IInv, UNCHANGED store
  PROVE  IInv'
  BY DEF store, IInv, StoreOK, CacheComplete, FillComplete, Dropped, Unchanged, GensBehind,
     OutIsFresh

-----------------------------------------------------------------------------
(* The theorems *)

THEOREM StoreInvariance == Spec => []IInv
  <1>1. Init => IInv
        BY StoreInitially
  <1>2. IInv /\ [Next]_vars => IInv'
    <2> SUFFICES ASSUME IInv, [Next]_vars
                 PROVE  IInv'
        OBVIOUS
    <2>1. CASE \E a \in Appenders : Commit(a) \/ Invalidate(a) \/ Publish(a)
          BY <2>1, CommitStep, InvalidateStep, PublishStep
    <2>2. CASE \E r \in Readers : Ask(r) \/ View(r) \/ Fill(r) \/ Answered(r)
          BY <2>2, AskStep, ViewStep, FillStep, AnsweredStep
    <2>3. CASE \E c \in Clients :
                 \/ Connect(c, 0) \/ Connect(c, after[c]) \/ Subscribe(c) \/ Replay(c)
                 \/ WriteReplay(c) \/ Follow(c) \/ Disconnect(c)
          BY <2>3, StreamsAreQuiet, QuietStep
    <2>4. CASE Restart
          BY <2>4, RestartStep
    <2>5. CASE UNCHANGED vars
          BY <2>5, QuietStep DEF vars, store, appends, cache, readers
    <2> QED
        BY <2>1, <2>2, <2>3, <2>4, <2>5 DEF Next
  <1> QED
      BY <1>1, <1>2, PTL DEF Spec

\* All returns every record whose Append had returned when it was called, for any
\* number of appenders and readers.
THEOREM FreshReads == Spec => []AllIsFresh
  <1>1. IInv => AllIsFresh
        BY DEF IInv, OutIsFresh, AllIsFresh
  <1> QED
      BY <1>1, StoreInvariance, PTL

-----------------------------------------------------------------------------
(* AuditStream: the event stream *)

\* What is published is what the ring and the channels hold, and what a stream has sent.
HubOK ==
  /\ recent \in Seq(1 .. acked) /\ Len(recent) <= RingCap
  /\ subs \subseteq Clients
  /\ ch \in [Clients -> Seq(1 .. acked)]
  /\ cpc \in [Clients -> {"off", "new", "subscribed", "replay", "live"}]
  /\ after \in [Clients -> 0 .. acked]
  /\ todo \in [Clients -> Seq(1 .. acked)] /\ got \in [Clients -> Seq(1 .. acked)]
  /\ due \in [Clients -> SUBSET (1 .. acked)] /\ missed \in [Clients -> SUBSET Seqs]
  /\ overtaken \subseteq Seqs

\* Appenders have different records, none of which is published.
Numbered == \A a \in Appenders : apc[a] # "idle" =>
  /\ seq[a] >= 1 /\ seq[a] # acked
  /\ \A b \in Appenders \ {a} : apc[b] # "idle" => seq[b] # seq[a]

Rising(q) == \A i, j \in 1 .. Len(q) : i < j => q[i] < q[j]
RingOrdered == overtaken = {} => Rising(recent)

\* What a stream owes is in the ring until it is replayed, from then on sent, in the replay,
\* or in the channel behind only older records.
Owed(c) == due[c] \ (missed[c] \cup overtaken)
Ahead(c, i) == /\ ch[c][i] > after[c] /\ \A j \in 1 .. i - 1 : ch[c][j] < ch[c][i]
               /\ \A k \in 1 .. Len(todo[c]) : todo[c][k] < ch[c][i]
InPhase(c) ==
  /\ Len(ch[c]) <= SubCap
  /\ c \in subs <=> cpc[c] \in {"subscribed", "replay", "live"}
  /\ cpc[c] \in {"off", "new"} => ch[c] = <<>>
  /\ cpc[c] # "replay" => todo[c] = <<>>
  /\ cpc[c] \in {"off", "new", "subscribed"} => got[c] = <<>>
InRing(c) == cpc[c] \in {"new", "subscribed"} =>
  \A s \in Owed(c) : s \in Range(recent) /\ s > after[c]
InHand(c) == cpc[c] \in {"replay", "live"} =>
  \A s \in Owed(c) : \/ s \in Range(got[c]) \cup Range(todo[c])
                     \/ \E i \in 1 .. Len(ch[c]) : ch[c][i] = s /\ Ahead(c, i)
Ordered(c) == overtaken = {} =>
  /\ Rising(todo[c]) /\ \A k \in 1 .. Len(todo[c]) : todo[c][k] > after[c]
  /\ Rising(got[c]) /\ \A k \in 1 .. Len(got[c]) : got[c][k] <= after[c]
Served(c) == InPhase(c) /\ InRing(c) /\ InHand(c) /\ Ordered(c)

HubIInv == HubOK /\ Numbered /\ RingOrdered /\ \A c \in Clients : Served(c)

\* Since picks the records after n and keeps their order.
LEMMA SinceIs ==
  ASSUME NEW S, S \subseteq Nat, NEW q \in Seq(S), NEW n \in Nat
  PROVE  /\ Since(q, n) \in Seq(S)
         /\ \A s \in Range(q) : s > n => s \in Range(Since(q, n))
         /\ \A k \in 1 .. Len(Since(q, n)) : Since(q, n)[k] > n
         /\ Rising(q) => Rising(Since(q, n))
  <1> DEFINE newer == {i \in DOMAIN q : q[i] > n}
             Rank(i) == Cardinality({j \in newer : j <= i})
             N == Cardinality(newer)
             Nth(k) == CHOOSE i \in newer : Rank(i) = k
             picked == [k \in 1 .. N |-> q[Nth(k)]]
             rank == [i \in newer |-> Rank(i)]
  <1>1. Since(q, n) = picked
        BY DEF Since
  <1>2. DOMAIN q = 1 .. Len(q) /\ Len(q) \in Nat /\ \A i \in 1 .. Len(q) : q[i] \in S
        BY LenProperties, ElementOfSeq
  <1>3. newer \subseteq 1 .. Len(q) /\ IsFiniteSet(newer) /\ N \in Nat
    <2>1. IsFiniteSet(1 .. Len(q))
          BY <1>2, FS_Interval
    <2>2. newer \in SUBSET (1 .. Len(q))
          BY <1>2
    <2> HIDE DEF newer
    <2>3. IsFiniteSet(newer)
          BY <2>1, <2>2, FS_Subset
    <2> QED
        BY <2>2, <2>3, FS_CardinalityType
  <1> HIDE DEF newer
  <1>4. ASSUME NEW i \in newer
        PROVE  Rank(i) \in 1 .. N
    <2>1. {j \in newer : j <= i} \in SUBSET newer /\ i \in {j \in newer : j <= i}
          BY <1>2, <1>3, <1>4
    <2>2. IsFiniteSet({j \in newer : j <= i})
          BY <1>3, <2>1, FS_Subset
    <2>3. Rank(i) \in Nat /\ Rank(i) <= N /\ Rank(i) # 0
          BY <1>3, <2>1, <2>2, FS_Subset, FS_CardinalityType, FS_EmptySet
    <2> QED
        BY <1>3, <2>3
  <1>5. ASSUME NEW i \in newer, NEW l \in newer, i < l
        PROVE  Rank(i) < Rank(l)
    <2> DEFINE A == {j \in newer : j <= i}
               B == {j \in newer : j <= l}
    <2>0. newer \subseteq Nat /\ i \in Nat /\ l \in Nat
          BY <1>2, <1>3
    <2>1. A \cup {l} \in SUBSET B /\ B \in SUBSET newer /\ l \notin A /\ A \in SUBSET newer
      <3>1. \A j \in newer : j <= i => j <= l
            BY <1>5, <2>0
      <3>2. l <= l /\ ~(l <= i)
            BY <1>5, <2>0
      <3> QED
          BY <3>1, <3>2
    <2>2. IsFiniteSet(A) /\ IsFiniteSet(B)
          BY <1>3, <2>1, FS_Subset
    <2>3. Cardinality(A \cup {l}) = Cardinality(A) + 1
          BY <2>1, <2>2, FS_AddElement
    <2>4. Cardinality(A \cup {l}) <= Cardinality(B)
          BY <2>1, <2>2, FS_Subset
    <2>5. Cardinality(A) \in Nat /\ Cardinality(B) \in Nat
          BY <2>2, FS_CardinalityType
    <2> QED
        BY <2>3, <2>4, <2>5
  <1> HIDE DEF Rank, N
  <1>6. \A k \in 1 .. N : Nth(k) \in newer /\ Rank(Nth(k)) = k
    <2>1. rank \in Injection(newer, 1 .. N)
      <3>1. rank \in [newer -> 1 .. N]
            BY <1>4
      <3>2. ASSUME NEW i \in newer, NEW l \in newer, Rank(i) = Rank(l) PROVE i = l
        <4>1. i \in Nat /\ l \in Nat /\ Rank(i) \in Nat /\ Rank(l) \in Nat
              BY <1>2, <1>3, <1>4
        <4>2. ~(i < l) /\ ~(l < i)
              BY <1>5, <3>2, <4>1
        <4> QED
            BY <4>1, <4>2
      <3> QED
          BY <3>1, <3>2 DEF Injection, IsInjective
    <2>2. IsFiniteSet(1 .. N) /\ Cardinality(1 .. N) = Cardinality(newer)
      <3>1. /\ IsFiniteSet(1 .. N)
            /\ Cardinality(1 .. N) = IF 1 > N THEN 0 ELSE N - 1 + 1
            BY <1>3, FS_Interval
      <3> QED
          BY <1>3, <3>1 DEF N
    <2>3. rank \in Surjection(newer, 1 .. N)
          BY <2>1, <2>2, FS_Injection
    <2>4. \A k \in 1 .. N : \E i \in newer : Rank(i) = k
          BY <2>3 DEF Surjection
    <2> QED
        BY <2>4
  <1> HIDE DEF Nth
  <1>7. ASSUME NEW k \in 1 .. N
        PROVE  Nth(k) \in 1 .. Len(q) /\ q[Nth(k)] > n /\ q[Nth(k)] \in S
        BY <1>2, <1>3, <1>6, <1>7 DEF newer
  <1>8. picked \in Seq(S) /\ Len(picked) = N
    <2>1. picked \in [1 .. N -> S]
          BY <1>7
    <2>2. picked \in Seq(S)
          BY <1>3, <2>1, SeqDef
    <2>3. DOMAIN picked = 1 .. N
          OBVIOUS
    <2> QED
        BY <1>3, <2>2, <2>3, LenProperties
  <1>9. \A s \in Range(q) : s > n => s \in Range(picked)
    <2> SUFFICES ASSUME NEW i \in 1 .. Len(q), q[i] > n PROVE q[i] \in Range(picked)
        BY <1>2 DEF Range
    <2>1. i \in newer
          BY <1>2 DEF newer
    <2>2. Rank(i) \in 1 .. N
          BY <1>4, <2>1
    <2>3. Nth(Rank(i)) = i
      <3>1. Nth(Rank(i)) \in newer /\ Rank(Nth(Rank(i))) = Rank(i)
        <4>1. PICK k \in 1 .. N : k = Rank(i)
              BY <2>2
        <4> QED
            BY <1>6, <4>1
      <3>2. Nth(Rank(i)) \in Nat /\ i \in Nat /\ Rank(i) \in Nat
        <4>1. newer \subseteq Nat /\ 1 .. N \subseteq Nat
              BY <1>2, <1>3
        <4> QED
            BY <2>1, <2>2, <3>1, <4>1
      <3>3. ~(Nth(Rank(i)) < i) /\ ~(i < Nth(Rank(i)))
            BY <1>5, <2>1, <3>1, <3>2
      <3> QED
          BY <3>2, <3>3
    <2>4. picked[Rank(i)] = q[i] /\ DOMAIN picked = 1 .. N
          BY <2>2, <2>3
    <2> QED
        BY <2>2, <2>4 DEF Range
  <1>10. Rising(q) => Rising(picked)
    <2> SUFFICES ASSUME Rising(q), NEW k \in 1 .. N, NEW m \in 1 .. N, k < m
                 PROVE  q[Nth(k)] < q[Nth(m)]
        BY <1>8 DEF Rising
    <2>1. Nth(k) \in newer /\ Nth(m) \in newer /\ Rank(Nth(k)) = k /\ Rank(Nth(m)) = m
          BY <1>6
    <2>2. Nth(k) \in 1 .. Len(q) /\ Nth(m) \in 1 .. Len(q)
          BY <1>7
    <2>3. Nth(k) < Nth(m)
      <3>1. ASSUME Nth(m) < Nth(k) PROVE FALSE
        <4>1. Rank(Nth(m)) < Rank(Nth(k))
              BY <1>5, <2>1, <3>1
        <4> QED
            BY <1>3, <2>1, <4>1
      <3>2. Nth(m) # Nth(k)
            BY <1>3, <2>1
      <3> QED
          BY <1>2, <2>2, <3>1, <3>2
    <2> QED
        BY <2>2, <2>3 DEF Rising
  <1> QED
      BY <1>1, <1>7, <1>8, <1>9, <1>10

\* What is left of the ring, and what has fallen off, is what it was.
LEMMA KeptIs ==
  ASSUME NEW S, S \subseteq Nat, NEW q \in Seq(S), q # <<>>, Len(q) <= RingCap + 1
  PROVE  /\ Kept(q) \in Seq(S) /\ Len(Kept(q)) <= RingCap
         /\ Range(q) \subseteq Range(Kept(q)) \cup Fallen(q)
         /\ Rising(q) => Rising(Kept(q))
  <1>0. /\ RingCap \in Nat /\ Len(q) \in Nat /\ DOMAIN q = 1 .. Len(q)
        /\ \A i \in 1 .. Len(q) : q[i] \in Nat
        BY AuditStreamAssumption, LenProperties, ElementOfSeq
  <1>1. CASE Len(q) > RingCap
    <2>1. Kept(q) = Tail(q) /\ Fallen(q) = {Head(q)} /\ Head(q) = q[1]
          BY <1>1 DEF Kept, Fallen
    <2>2. /\ Tail(q) \in Seq(S) /\ Len(Tail(q)) = Len(q) - 1
          /\ \A i \in 1 .. Len(Tail(q)) : Tail(q)[i] = q[i + 1]
          BY HeadTailProperties
    <2>3. DOMAIN Tail(q) = 1 .. Len(q) - 1
          BY <2>2, LenProperties
    <2>4. Range(q) \subseteq Range(Kept(q)) \cup Fallen(q)
      <3> SUFFICES ASSUME NEW i \in 1 .. Len(q), i # 1
                   PROVE  q[i] \in Range(Tail(q))
          BY <1>0, <2>1 DEF Range
      <3>1. PICK j \in 1 .. Len(q) - 1 : j + 1 = i
        <4>1. i - 1 \in 1 .. Len(q) - 1 /\ (i - 1) + 1 = i
              BY <1>0
        <4> QED
            BY <4>1
      <3> QED
          BY <2>2, <2>3, <3>1 DEF Range
    <2>5. Rising(q) => Rising(Tail(q))
      <3> SUFFICES ASSUME Rising(q), NEW i \in 1 .. Len(q) - 1, NEW j \in 1 .. Len(q) - 1, i < j
                   PROVE  q[i + 1] < q[j + 1]
          BY <2>2 DEF Rising
      <3>1. i + 1 \in 1 .. Len(q) /\ j + 1 \in 1 .. Len(q) /\ i + 1 < j + 1
            BY <1>0
      <3> QED
          BY <3>1 DEF Rising
    <2> QED
        BY <1>0, <2>1, <2>2, <2>4, <2>5
  <1>2. CASE ~(Len(q) > RingCap)
        BY <1>0, <1>2 DEF Kept, Fallen
  <1> QED
      BY <1>1, <1>2

\* A sequence that rises rises still with a greater one behind.
LEMMA AppendRises ==
  ASSUME NEW S, S \subseteq Nat, NEW q \in Seq(S), Rising(q), NEW s \in S,
         \A i \in 1 .. Len(q) : q[i] < s
  PROVE  Rising(Append(q, s))
  <1>1. /\ Len(q) \in Nat /\ Len(Append(q, s)) = Len(q) + 1
        /\ \A i \in 1 .. Len(q) : Append(q, s)[i] = q[i]
        /\ Append(q, s)[Len(q) + 1] = s
        BY LenProperties, AppendProperties
  <1> SUFFICES ASSUME NEW i \in 1 .. Len(q) + 1, NEW j \in 1 .. Len(q) + 1, i < j
               PROVE  Append(q, s)[i] < Append(q, s)[j]
      BY <1>1 DEF Rising
  <1>2. i \in 1 .. Len(q)
        BY <1>1
  <1>3. CASE j = Len(q) + 1
        BY <1>1, <1>2, <1>3
  <1>4. CASE j # Len(q) + 1
    <2>1. j \in 1 .. Len(q)
          BY <1>1, <1>4
    <2> QED
        BY <1>1, <1>2, <2>1 DEF Rising
  <1> QED
      BY <1>3, <1>4

\* The elements of a sequence with one more.
LEMMA AppendRange ==
  ASSUME NEW S, NEW q \in Seq(S), NEW s \in S
  PROVE  Range(Append(q, s)) = Range(q) \cup {s}
  <1>1. /\ Len(q) \in Nat /\ Len(Append(q, s)) = Len(q) + 1
        /\ \A i \in 1 .. Len(q) : Append(q, s)[i] = q[i]
        /\ Append(q, s)[Len(q) + 1] = s
        BY LenProperties, AppendProperties
  <1>2. DOMAIN q = 1 .. Len(q) /\ DOMAIN Append(q, s) = 1 .. Len(q) + 1
        BY <1>1, AppendProperties, LenProperties
  <1>3. 1 .. Len(q) + 1 = (1 .. Len(q)) \cup {Len(q) + 1}
        BY <1>1
  <1> QED
      BY <1>1, <1>2, <1>3 DEF Range

\* The first of a sequence, and the rest.
LEMMA FirstAndRest ==
  ASSUME NEW S, NEW q \in Seq(S), q # <<>>
  PROVE  /\ Head(q) \in S /\ Head(q) = q[1] /\ Tail(q) \in Seq(S)
         /\ Len(q) \in Nat /\ Len(q) >= 1 /\ Len(Tail(q)) \in Nat /\ Len(Tail(q)) = Len(q) - 1
         /\ DOMAIN Tail(q) = 1 .. Len(Tail(q)) /\ DOMAIN q = 1 .. Len(q)
         /\ \A i \in 1 .. Len(Tail(q)) : Tail(q)[i] = q[i + 1]
  <1>1. /\ Head(q) \in S /\ Tail(q) \in Seq(S) /\ Len(Tail(q)) = Len(q) - 1
        /\ \A i \in 1 .. Len(Tail(q)) : Tail(q)[i] = q[i + 1]
        BY HeadTailProperties
  <1>2. Len(q) \in Nat \ {0} /\ DOMAIN q = 1 .. Len(q)
        BY EmptySeq, LenProperties
  <1>3. DOMAIN Tail(q) = 1 .. Len(Tail(q)) /\ Len(Tail(q)) \in Nat
        BY <1>1, LenProperties
  <1>4. Head(q) = q[1]
        OBVIOUS
  <1> QED
      BY <1>1, <1>2, <1>3, <1>4

\* What concerns a stream, and what it keeps as long as nothing of that changes.
About(c) == <<ch[c], cpc[c], after[c], todo[c], got[c], due[c], missed[c]>>

LEMMA ServedStays ==
  ASSUME NEW c \in Clients, Served(c), UNCHANGED About(c), UNCHANGED recent,
         c \in subs' <=> c \in subs, overtaken \subseteq overtaken'
  PROVE  Served(c)'
  <1>1. UNCHANGED <<ch[c], cpc[c], after[c], todo[c], got[c], due[c], missed[c]>>
        BY DEF About
  <1>2. Owed(c)' \subseteq Owed(c) /\ (overtaken' = {} => overtaken = {})
        BY <1>1 DEF Owed
  <1>3. \A i : Ahead(c, i) => Ahead(c, i)'
        BY <1>1 DEF Ahead
  <1>4. InPhase(c)'
        BY <1>1 DEF InPhase, Served
  <1>5. InRing(c)'
        BY <1>1, <1>2 DEF InRing, Served
  <1>6. InHand(c)'
        BY <1>1, <1>2, <1>3 DEF InHand, Served
  <1>7. Ordered(c)'
        BY <1>1, <1>2 DEF Ordered, Served
  <1> QED
      BY <1>4, <1>5, <1>6, <1>7 DEF Served

\* What leaves the streams alone.
LEMMA HubStays ==
  ASSUME HubIInv, Numbered', UNCHANGED <<hub, streams, owed, acked>>
  PROVE  HubIInv'
  <1>1. UNCHANGED <<recent, subs, ch, cpc, after, todo, got, due, missed, overtaken, acked>>
        BY DEF hub, streams, owed
  <1>2. HubOK' /\ RingOrdered'
        BY <1>1 DEF HubIInv, HubOK, RingOrdered
  <1>3. \A c \in Clients : Served(c)'
        BY <1>1, ServedStays DEF About, HubIInv
  <1> QED
      BY <1>2, <1>3 DEF HubIInv

\* The types that the store's invariant gives.
LEMMA StoreTypes ==
  ASSUME IInv
  PROVE  /\ log \in 0 .. MaxRecords /\ acked \in 0 .. log
         /\ \A a \in Appenders : seq[a] \in 0 .. log
         /\ acked \in Nat /\ log \in Nat /\ MaxRecords \in Nat /\ 1 .. acked \subseteq Nat
         /\ 1 .. acked \subseteq Seqs
  BY AuditStreamAssumption DEF IInv, StoreOK, Seqs

\* A record that is committed is a new one.
LEMMA CommitHub ==
  ASSUME IInv, HubIInv, NEW a \in Appenders, Commit(a)
  PROVE  HubIInv'
  <1>1. /\ log \in Nat /\ acked \in 0 .. log /\ \A b \in Appenders : seq[b] \in 0 .. log
        BY StoreTypes
  <1>2. /\ acked' = acked
        /\ \A b \in Appenders : /\ seq'[b] = IF b = a THEN log + 1 ELSE seq[b]
                                /\ apc'[b] = IF b = a THEN "committed" ELSE apc[b]
        BY DEF Commit, IInv, StoreOK
  <1>3. Numbered'
        BY <1>1, <1>2 DEF HubIInv, Numbered
  <1> QED
      BY <1>3, HubStays DEF Commit

LEMMA InvalidateHub ==
  ASSUME IInv, HubIInv, NEW a \in Appenders, Invalidate(a)
  PROVE  HubIInv'
  <1>1. /\ UNCHANGED <<acked, seq>> /\ apc[a] = "committed"
        /\ \A b \in Appenders : apc'[b] = IF b = a THEN "invalidated" ELSE apc[b]
        BY DEF Invalidate, IInv, StoreOK
  <1>2. Numbered'
        BY <1>1 DEF HubIInv, Numbered
  <1> QED
      BY <1>1, <1>2, HubStays DEF Invalidate

LEMMA ReadersHub ==
  ASSUME HubIInv, NEW r \in Readers, Ask(r) \/ View(r) \/ Fill(r) \/ Answered(r)
  PROVE  HubIInv'
  <1>1. UNCHANGED <<appends, hub, streams, owed>>
        BY DEF Ask, View, Fill, Answered
  <1>2. UNCHANGED <<apc, seq, acked>>
        BY <1>1 DEF appends
  <1>3. Numbered'
        BY <1>2 DEF HubIInv, Numbered
  <1> QED
      BY <1>1, <1>2, <1>3, HubStays

\* A record that is published after all older ones is the newest of the ring and of the
\* channels that have room.
LEMMA PublishHub ==
  ASSUME IInv, IInv', HubIInv, NEW a \in Appenders, Publish(a)
  PROVE  HubIInv'
  <1> DEFINE s == seq[a]
             q == Append(recent, s)
             full == {c \in subs : Len(ch[c]) = SubCap}
  <1>0. HubOK /\ Numbered /\ RingOrdered /\ \A c \in Clients : Served(c)
        BY DEF HubIInv
  <1>1. /\ apc[a] = "invalidated"
        /\ recent' = Kept(q)
        /\ ch' = [c \in Clients |-> IF c \in subs \ full THEN Append(ch[c], s) ELSE ch[c]]
        /\ acked' = IF s > acked THEN s ELSE acked
        /\ due' = [c \in Clients |-> IF c \in Connected THEN due[c] \cup {s} ELSE due[c]]
        /\ missed' = [c \in Clients |->
             missed[c] \cup (IF c \in full THEN {s} ELSE {})
                       \cup (IF cpc[c] \in {"new", "subscribed"} THEN Fallen(q) ELSE {})]
        /\ overtaken' = IF s < acked THEN overtaken \cup {s} ELSE overtaken
        /\ UNCHANGED <<subs, cpc, after, todo, got>>
        /\ apc' = [apc EXCEPT ![a] = "idle"] /\ seq' = [seq EXCEPT ![a] = 0]
        BY DEF Publish, streams
  <1>2. /\ s \in 1 .. log /\ s \in Seqs /\ s # acked /\ acked \in Nat /\ log \in Nat
        /\ s \in 1 .. acked' /\ 1 .. acked \subseteq 1 .. acked' /\ acked' \in Nat
        /\ 1 .. acked' \subseteq Nat /\ 1 .. acked' \subseteq Seqs
        /\ 0 .. acked \subseteq 0 .. acked'
    <2>1. /\ log \in 0 .. MaxRecords /\ acked \in 0 .. log /\ s \in 0 .. log /\ MaxRecords \in Nat
          BY StoreTypes
    <2>2. s >= 1 /\ s # acked
          BY <1>0, <1>1 DEF Numbered
    <2> QED
        BY <1>1, <2>1, <2>2 DEF Seqs
  <1>3. overtaken \subseteq overtaken' /\ (s < acked => s \in overtaken')
        BY <1>1
  <1> HIDE DEF s
  <1>4. /\ q \in Seq(1 .. acked') /\ q # <<>> /\ Len(q) <= RingCap + 1
        /\ Range(q) = Range(recent) \cup {s}
    <2>1. recent \in Seq(1 .. acked') /\ Len(recent) <= RingCap /\ Len(recent) \in Nat
          BY <1>0, <1>2, SeqMonotonic, LenProperties DEF HubOK
    <2>2. Range(q) = Range(recent) \cup {s}
          BY <1>2, <2>1, AppendRange
    <2>3. q \in Seq(1 .. acked') /\ q # <<>> /\ Len(q) = Len(recent) + 1
          BY <1>2, <2>1, AppendProperties
    <2> HIDE DEF q
    <2> QED
        BY <2>1, <2>2, <2>3, AuditStreamAssumption
  <1>5. overtaken' = {} => Rising(q)
    <2> SUFFICES ASSUME overtaken' = {} PROVE Rising(q)
        OBVIOUS
    <2>1. Rising(recent) /\ recent \in Seq(1 .. acked) /\ ~(s < acked)
          BY <1>0, <1>3 DEF RingOrdered, HubOK
    <2>2. \A i \in 1 .. Len(recent) : recent[i] < s
      <3> TAKE i \in 1 .. Len(recent)
      <3>1. recent[i] \in 1 .. acked
            BY <2>1, ElementOfSeq
      <3> QED
          BY <1>2, <2>1, <3>1
    <2>3. recent \in Seq(1 .. acked')
          BY <1>2, <2>1, SeqMonotonic
    <2> QED
        BY <1>2, <2>1, <2>2, <2>3, AppendRises
  <1>6. /\ recent' \in Seq(1 .. acked') /\ Len(recent') <= RingCap
        /\ Range(q) \subseteq Range(recent') \cup Fallen(q)
        /\ RingOrdered'
    <2>1. /\ Kept(q) \in Seq(1 .. acked') /\ Len(Kept(q)) <= RingCap
          /\ Range(q) \subseteq Range(Kept(q)) \cup Fallen(q)
          /\ Rising(q) => Rising(Kept(q))
          BY <1>2, <1>4, KeptIs
    <2> HIDE DEF q
    <2>2. recent' = Kept(q)
          BY <1>1
    <2>3. Rising(q) => Rising(recent')
          BY <2>1, <2>2
    <2>4. overtaken' = {} => Rising(recent)'
          BY <1>5, <2>3
    <2> QED
        BY <2>1, <2>2, <2>4 DEF RingOrdered
  <1>7. ASSUME NEW c \in Clients
        PROVE  /\ ch[c] \in Seq(1 .. acked') /\ Len(ch[c]) \in Nat
               /\ todo[c] \in Seq(1 .. acked') /\ got[c] \in Seq(1 .. acked')
               /\ \A i \in 1 .. Len(ch[c]) : ch[c][i] \in 1 .. acked
               /\ \A i \in 1 .. Len(todo[c]) : todo[c][i] \in 1 .. acked
               /\ after[c] \in 0 .. acked
    <2>1. ch[c] \in Seq(1 .. acked) /\ todo[c] \in Seq(1 .. acked) /\ got[c] \in Seq(1 .. acked)
          BY <1>0 DEF HubOK
    <2>2. after[c] \in 0 .. acked
          BY <1>0 DEF HubOK
    <2> QED
        BY <1>2, <2>1, <2>2, SeqMonotonic, LenProperties, ElementOfSeq
  <1>8. ASSUME NEW c \in Clients
        PROVE  /\ ch'[c] = IF c \in subs \ full THEN Append(ch[c], s) ELSE ch[c]
               /\ ch'[c] \in Seq(1 .. acked')
               /\ c \in subs \ full => /\ Len(ch'[c]) = Len(ch[c]) + 1
                                       /\ ch'[c][Len(ch[c]) + 1] = s
               /\ Len(ch'[c]) \in Nat /\ Len(ch[c]) <= Len(ch'[c])
               /\ \A i \in 1 .. Len(ch[c]) : ch'[c][i] = ch[c][i]
    <2>1. ch'[c] = IF c \in subs \ full THEN Append(ch[c], s) ELSE ch[c]
          BY <1>1
    <2>2. ch[c] \in Seq(1 .. acked') /\ Len(ch[c]) \in Nat
          BY <1>7
    <2>3. /\ Append(ch[c], s) \in Seq(1 .. acked') /\ Len(Append(ch[c], s)) = Len(ch[c]) + 1
          /\ \A i \in 1 .. Len(ch[c]) : Append(ch[c], s)[i] = ch[c][i]
          /\ Append(ch[c], s)[Len(ch[c]) + 1] = s
          BY <1>2, <2>2, AppendProperties
    <2> HIDE DEF full
    <2>4. CASE c \in subs \ full
      <3>1. ch'[c] = Append(ch[c], s)
            BY <2>1, <2>4
      <3> QED
          BY <2>1, <2>2, <2>3, <2>4, <3>1
    <2>5. CASE c \notin subs \ full
      <3>1. ch'[c] = ch[c]
            BY <2>1, <2>5
      <3> QED
          BY <2>1, <2>2, <2>5, <3>1
    <2> QED
        BY <2>4, <2>5
  <1>9. HubOK'
    <2>1. ch' \in [Clients -> Seq(1 .. acked')]
          BY <1>1, <1>8
    <2>2. todo' \in [Clients -> Seq(1 .. acked')] /\ got' \in [Clients -> Seq(1 .. acked')]
          BY <1>0, <1>1, <1>7 DEF HubOK
    <2>3. after' \in [Clients -> 0 .. acked']
          BY <1>0, <1>1, <1>2 DEF HubOK
    <2>4. due' \in [Clients -> SUBSET (1 .. acked')]
          BY <1>0, <1>1, <1>2 DEF HubOK
    <2>5. missed' \in [Clients -> SUBSET Seqs]
      <3>1. Fallen(q) \subseteq Seqs
        <4>1. Head(q) \in 1 .. acked'
              BY <1>4, HeadTailProperties
        <4> QED
            BY <1>2, <4>1 DEF Fallen
      <3> QED
          BY <1>0, <1>1, <1>2, <3>1 DEF HubOK
    <2>6. overtaken' \subseteq Seqs
          BY <1>0, <1>1, <1>2 DEF HubOK
    <2> QED
        BY <1>0, <1>1, <1>6, <2>1, <2>2, <2>3, <2>4, <2>5, <2>6 DEF HubOK
  <1>10. Numbered'
    <2>1. \A b \in Appenders : /\ seq'[b] = IF b = a THEN 0 ELSE seq[b]
                               /\ apc'[b] = IF b = a THEN "idle" ELSE apc[b]
          BY <1>1 DEF IInv, StoreOK
    <2>2. \A b \in Appenders \ {a} : apc[b] # "idle" => seq[b] # s
          BY <1>0, <1>1 DEF Numbered, s
    <2> SUFFICES ASSUME NEW b \in Appenders, apc'[b] # "idle"
                 PROVE  /\ seq'[b] >= 1 /\ seq'[b] # acked'
                        /\ \A d \in Appenders \ {b} : apc'[d] # "idle" => seq'[d] # seq'[b]
        BY DEF Numbered
    <2>3. b # a /\ seq'[b] = seq[b] /\ apc[b] # "idle" /\ seq[b] # s
          BY <2>1, <2>2
    <2>4. /\ seq[b] >= 1 /\ seq[b] # acked
          /\ \A d \in Appenders \ {b} : apc[d] # "idle" => seq[d] # seq[b]
          BY <1>0, <2>3 DEF Numbered
    <2>5. acked' \in {s, acked}
          BY <1>1
    <2> QED
        BY <2>1, <2>3, <2>4, <2>5
  <1>11. ASSUME NEW c \in Clients PROVE Served(c)'
    <2>0. InPhase(c) /\ InRing(c) /\ InHand(c) /\ Ordered(c)
          BY <1>0 DEF Served
    <2>1. ASSUME NEW x \in Owed(c)', c \in Connected
          PROVE  /\ x \in Owed(c) \/ (x = s /\ s > acked /\ c \notin full)
                 /\ cpc[c] \in {"new", "subscribed"} => x \notin Fallen(q)
      <3>1. x \in due[c] \cup {s} /\ x \notin missed'[c] /\ x \notin overtaken'
            BY <1>1, <2>1 DEF Owed
      <3>2. /\ x \notin missed[c] /\ (c \in full => x # s)
            /\ cpc[c] \in {"new", "subscribed"} => x \notin Fallen(q)
            BY <1>1, <3>1
      <3> QED
          BY <1>2, <1>3, <3>1, <3>2 DEF Owed
    <2>2. InPhase(c)'
      <3>1. Len(ch'[c]) <= SubCap
        <4>1. CASE c \in subs \ full
              BY <1>7, <1>8, <2>0, <4>1, AuditStreamAssumption DEF InPhase
        <4>2. CASE c \notin subs \ full
              BY <1>8, <2>0, <4>2 DEF InPhase
        <4> QED
            BY <4>1, <4>2
      <3> QED
          BY <1>1, <1>8, <2>0, <3>1 DEF InPhase
    <2>3. InRing(c)'
      <3> SUFFICES ASSUME cpc[c] \in {"new", "subscribed"}, NEW x \in Owed(c)'
                   PROVE  x \in Range(recent') /\ x > after[c]
          BY <1>1 DEF InRing
      <3>1. c \in Connected
            BY DEF Connected
      <3>2. CASE x \in Owed(c)
            BY <1>4, <1>6, <2>0, <2>1, <3>1, <3>2 DEF InRing
      <3>3. CASE x = s /\ s > acked
            BY <1>2, <1>4, <1>6, <1>7, <2>1, <3>1, <3>3
      <3> QED
          BY <2>1, <3>1, <3>2, <3>3
    <2>4. InHand(c)'
      <3> SUFFICES ASSUME cpc[c] \in {"replay", "live"}, NEW x \in Owed(c)'
                   PROVE  \/ x \in Range(got[c]) \cup Range(todo[c])
                          \/ \E i \in 1 .. Len(ch'[c]) : ch'[c][i] = x /\ Ahead(c, i)'
          BY <1>1 DEF InHand
      <3>1. c \in Connected /\ c \in subs
            BY <2>0 DEF Connected, InPhase
      <3>2. ASSUME NEW i \in 1 .. Len(ch[c]), Ahead(c, i)
            PROVE  i \in 1 .. Len(ch'[c]) /\ Ahead(c, i)'
        <4>1. \A j \in 1 .. i - 1 : j \in 1 .. Len(ch[c])
              BY <1>7
        <4> QED
            BY <1>1, <1>7, <1>8, <3>2, <4>1 DEF Ahead
      <3>3. CASE x \in Owed(c)
            BY <1>8, <2>0, <3>2, <3>3 DEF InHand
      <3>4. CASE x = s /\ s > acked /\ c \notin full
        <4> DEFINE i == Len(ch[c]) + 1
        <4>1. i \in 1 .. Len(ch'[c]) /\ ch'[c][i] = s
              BY <1>7, <1>8, <3>1, <3>4
        <4>2. \A j \in 1 .. i - 1 : ch'[c][j] < s
          <5> TAKE j \in 1 .. i - 1
          <5>1. j \in 1 .. Len(ch[c])
                BY <1>7
          <5> QED
              BY <1>2, <1>7, <1>8, <3>4, <5>1, SMTT(30)
        <4>3. s > after[c] /\ \A k \in 1 .. Len(todo[c]) : todo[c][k] < s
              BY <1>2, <1>7, <3>4
        <4> HIDE DEF i
        <4> QED
            BY <1>1, <3>4, <4>1, <4>2, <4>3 DEF Ahead
      <3> QED
          BY <2>1, <3>1, <3>3, <3>4
    <2>5. Ordered(c)'
          BY <1>1, <1>3, <2>0 DEF Ordered
    <2> QED
        BY <2>2, <2>3, <2>4, <2>5 DEF Served
  <1> QED
      BY <1>6, <1>9, <1>10, <1>11 DEF HubIInv

-----------------------------------------------------------------------------
(* AuditStream: handleEvents *)

\* A step of one stream that publishes nothing.
OneStream(c) ==
  /\ UNCHANGED <<apc, seq, acked, recent, overtaken>> /\ subs' \subseteq Clients
  /\ \A b \in Clients \ {c} : UNCHANGED About(b) /\ (b \in subs' <=> b \in subs)

LEMMA OneStreamStays ==
  ASSUME HubIInv, NEW c \in Clients, OneStream(c), HubOK', Served(c)'
  PROVE  HubIInv'
  <1>1. Numbered' /\ RingOrdered'
        BY DEF HubIInv, OneStream, Numbered, RingOrdered
  <1>2. ASSUME NEW b \in Clients \ {c} PROVE Served(b)'
        BY <1>2, ServedStays DEF HubIInv, OneStream
  <1> QED
      BY <1>1, <1>2 DEF HubIInv

\* What a stream owes at first is in the ring.
LEMMA ConnectHub ==
  ASSUME IInv, HubIInv, NEW c \in Clients, NEW from \in 0 .. acked, Connect(c, from)
  PROVE  HubIInv'
  <1>0. HubOK /\ Served(c) /\ acked \in Nat
        BY StoreTypes DEF HubIInv
  <1>1. /\ cpc[c] = "off" /\ cpc' = [cpc EXCEPT ![c] = "new"]
        /\ after' = [after EXCEPT ![c] = from]
        /\ due' = [due EXCEPT ![c] = {s \in Range(recent) : s > from}]
        /\ UNCHANGED <<apc, seq, acked, recent, subs, ch, todo, got, missed, overtaken>>
        BY DEF Connect, appends, hub
  <1>2. /\ cpc'[c] = "new" /\ after'[c] = from /\ due'[c] = {s \in Range(recent) : s > from}
        /\ ch[c] = <<>> /\ todo[c] = <<>> /\ got[c] = <<>> /\ c \notin subs
        BY <1>0, <1>1 DEF HubOK, Served, InPhase
  <1>3. Range(recent) \subseteq 1 .. acked
    <2>1. recent \in Seq(1 .. acked)
          BY <1>0 DEF HubOK
    <2>2. DOMAIN recent = 1 .. Len(recent) /\ \A i \in 1 .. Len(recent) : recent[i] \in 1 .. acked
          BY <2>1, LenProperties, ElementOfSeq
    <2> QED
        BY <2>2 DEF Range
  <1>4. HubOK'
        BY <1>0, <1>1, <1>3 DEF HubOK
  <1>5. OneStream(c)
        BY <1>0, <1>1 DEF OneStream, About, HubOK
  <1>6. InPhase(c)'
        BY <1>1, <1>2, AuditStreamAssumption, EmptySeq DEF InPhase
  <1>7. InRing(c)' /\ InHand(c)'
        BY <1>1, <1>2 DEF InRing, InHand, Owed
  <1>8. Ordered(c)'
    <2>1. Len(<<>>) = 0 /\ 1 .. 0 = {}
          BY EmptySeq
    <2> QED
        BY <1>1, <1>2, <2>1 DEF Ordered, Rising
  <1> QED
      BY <1>4, <1>5, <1>6, <1>7, <1>8, OneStreamStays DEF Served

\* From here on what is published comes by the channel, but is in the ring too.
LEMMA SubscribeHub ==
  ASSUME HubIInv, NEW c \in Clients, Subscribe(c)
  PROVE  HubIInv'
  <1>0. HubOK /\ Served(c)
        BY DEF HubIInv
  <1>1. /\ cpc[c] = "new" /\ cpc' = [cpc EXCEPT ![c] = "subscribed"] /\ subs' = subs \cup {c}
        /\ UNCHANGED <<apc, seq, acked, recent, ch, after, todo, got, due, missed, overtaken>>
        BY DEF Subscribe, appends, owed
  <1>2. cpc'[c] = "subscribed"
        BY <1>0, <1>1 DEF HubOK
  <1>3. HubOK'
        BY <1>0, <1>1 DEF HubOK
  <1>4. OneStream(c)
        BY <1>0, <1>1 DEF OneStream, About, HubOK
  <1>5. InPhase(c)'
        BY <1>0, <1>1, <1>2 DEF Served, InPhase
  <1>6. InRing(c)' /\ InHand(c)'
    <2>1. \A s \in Owed(c) : s \in Range(recent) /\ s > after[c]
          BY <1>0, <1>1 DEF Served, InRing
    <2>2. Owed(c)' = Owed(c) /\ Range(recent)' = Range(recent) /\ after'[c] = after[c]
          BY <1>1 DEF Owed
    <2> QED
        BY <1>2, <2>1, <2>2 DEF InRing, InHand
  <1>7. Ordered(c)'
        BY <1>0, <1>1 DEF Served, Ordered
  <1> QED
      BY <1>3, <1>4, <1>5, <1>6, <1>7, OneStreamStays DEF Served

\* The replay has all that is owed, in the ring's order.
LEMMA ReplayHub ==
  ASSUME IInv, HubIInv, NEW c \in Clients, Replay(c)
  PROVE  HubIInv'
  <1> DEFINE q == Since(recent, after[c])
  <1>0. HubOK /\ Served(c) /\ RingOrdered /\ 1 .. acked \subseteq Nat
        BY StoreTypes DEF HubIInv
  <1>1. /\ cpc[c] = "subscribed" /\ cpc' = [cpc EXCEPT ![c] = "replay"]
        /\ todo' = [todo EXCEPT ![c] = q]
        /\ UNCHANGED <<apc, seq, acked, recent, subs, ch, after, got, due, missed, overtaken>>
        BY DEF Replay, appends, hub, owed
  <1>2. cpc'[c] = "replay" /\ todo'[c] = q
        BY <1>0, <1>1 DEF HubOK
  <1>3. recent \in Seq(1 .. acked) /\ after[c] \in Nat
        BY <1>0 DEF HubOK
  <1>4. /\ q \in Seq(1 .. acked)
        /\ \A s \in Range(recent) : s > after[c] => s \in Range(q)
        /\ \A k \in 1 .. Len(q) : q[k] > after[c]
        /\ Rising(recent) => Rising(q)
        BY <1>0, <1>3, SinceIs
  <1> HIDE DEF q
  <1>5. HubOK'
        BY <1>0, <1>1, <1>4 DEF HubOK
  <1>6. OneStream(c)
        BY <1>0, <1>1 DEF OneStream, About, HubOK
  <1>7. InPhase(c)'
        BY <1>0, <1>1, <1>2 DEF Served, InPhase
  <1>8. InRing(c)' /\ InHand(c)'
    <2>1. \A s \in Owed(c) : s \in Range(recent) /\ s > after[c]
          BY <1>0, <1>1 DEF Served, InRing
    <2>2. \A s \in Owed(c)' : s \in Range(todo'[c])
          BY <1>1, <1>2, <1>4, <2>1 DEF Owed
    <2> QED
        BY <1>2, <2>2 DEF InRing, InHand
  <1>9. Ordered(c)'
        BY <1>0, <1>1, <1>2, <1>4 DEF Served, Ordered, RingOrdered
  <1> QED
      BY <1>5, <1>6, <1>7, <1>8, <1>9, OneStreamStays DEF Served

\* A record is received: it is the next of the replay, or newer than all before.
LEMMA WriteReplayHub ==
  ASSUME IInv, HubIInv, NEW c \in Clients, WriteReplay(c)
  PROVE  HubIInv'
  <1>0. HubOK /\ Served(c) /\ 1 .. acked \subseteq Nat /\ acked \in Nat
        BY StoreTypes DEF HubIInv
  <1>1. /\ cpc[c] = "replay"
        /\ UNCHANGED <<apc, seq, acked, recent, subs, ch, due, missed, overtaken>>
        BY DEF WriteReplay, appends, hub, owed
  <1>2. InPhase(c) /\ InHand(c) /\ Ordered(c)
        BY <1>0 DEF Served
  <1>3. CASE todo[c] = <<>> /\ cpc' = [cpc EXCEPT ![c] = "live"] /\ UNCHANGED <<after, todo, got>>
    <2>1. cpc'[c] = "live"
          BY <1>0, <1>3 DEF HubOK
    <2>2. HubOK'
          BY <1>0, <1>1, <1>3 DEF HubOK
    <2>3. OneStream(c)
          BY <1>0, <1>1, <1>3 DEF OneStream, About, HubOK
    <2>4. InPhase(c)' /\ InRing(c)' /\ Ordered(c)'
          BY <1>1, <1>2, <1>3, <2>1 DEF InPhase, InRing, Ordered
    <2>5. InHand(c)'
      <3>1. \A i : Ahead(c, i) => Ahead(c, i)'
            BY <1>1, <1>3 DEF Ahead
      <3>2. Owed(c)' = Owed(c)
            BY <1>1 DEF Owed
      <3> QED
          BY <1>1, <1>2, <1>3, <3>1, <3>2 DEF InHand
    <2> QED
        BY <2>2, <2>3, <2>4, <2>5, OneStreamStays DEF Served
  <1>4. CASE todo[c] # <<>> /\ Receive(c, Head(todo[c]))
             /\ todo' = [todo EXCEPT ![c] = Tail(todo[c])] /\ UNCHANGED cpc
    <2> DEFINE h == Head(todo[c])
               t == Tail(todo[c])
    <2>1. /\ got' = [got EXCEPT ![c] = Append(got[c], h)] /\ after' = [after EXCEPT ![c] = h]
          BY <1>4 DEF Receive
    <2>2. todo[c] \in Seq(1 .. acked) /\ got[c] \in Seq(1 .. acked)
          BY <1>0 DEF HubOK
    <2>3. /\ h \in 1 .. acked /\ t \in Seq(1 .. acked) /\ h = todo[c][1]
          /\ Len(t) = Len(todo[c]) - 1 /\ Len(t) \in Nat /\ Len(todo[c]) \in Nat
          /\ DOMAIN t = 1 .. Len(t) /\ DOMAIN todo[c] = 1 .. Len(todo[c])
          /\ \A i \in 1 .. Len(t) : t[i] = todo[c][i + 1]
          BY <1>4, <2>2, FirstAndRest
    <2>4. \A i \in 1 .. Len(t) : i + 1 \in 1 .. Len(todo[c]) /\ 1 < i + 1
          BY <2>3
    <2>5. 1 \in 1 .. Len(todo[c])
      <3>1. Len(todo[c]) # 0
            BY <1>4, <2>2, EmptySeq
      <3> QED
          BY <2>3, <3>1
    <2> HIDE DEF h, t
    <2>6. todo'[c] = t /\ got'[c] = Append(got[c], h) /\ after'[c] = h
          BY <1>0, <1>4, <2>1 DEF HubOK, t
    <2>7. /\ Append(got[c], h) \in Seq(1 .. acked) /\ Len(got[c]) \in Nat
          /\ Len(Append(got[c], h)) = Len(got[c]) + 1
          /\ \A i \in 1 .. Len(got[c]) : Append(got[c], h)[i] = got[c][i]
          /\ Append(got[c], h)[Len(got[c]) + 1] = h
          /\ Range(Append(got[c], h)) = Range(got[c]) \cup {h}
          BY <2>2, <2>3, AppendProperties, AppendRange, LenProperties
    <2>8. HubOK'
      <3>1. after' \in [Clients -> 0 .. acked]
            BY <1>0, <2>1, <2>3 DEF HubOK
      <3>2. todo' \in [Clients -> Seq(1 .. acked)]
            BY <1>0, <1>4, <2>3 DEF HubOK, t
      <3>3. got' \in [Clients -> Seq(1 .. acked)]
            BY <1>0, <2>1, <2>7 DEF HubOK
      <3> QED
          BY <1>0, <1>1, <1>4, <3>1, <3>2, <3>3 DEF HubOK
    <2>9. OneStream(c)
          BY <1>0, <1>1, <1>4, <2>1 DEF OneStream, About, HubOK
    <2>10. InPhase(c)' /\ InRing(c)'
          BY <1>1, <1>2, <1>4 DEF InPhase, InRing
    <2>11. InHand(c)'
      <3> SUFFICES ASSUME NEW x \in Owed(c)
                   PROVE  \/ x \in Range(got'[c]) \cup Range(todo'[c])
                          \/ \E i \in 1 .. Len(ch[c]) : ch[c][i] = x /\ Ahead(c, i)'
          BY <1>1 DEF InHand, Owed
      <3>1. CASE x \in Range(got[c])
            BY <2>6, <2>7, <3>1
      <3>2. CASE x \in Range(todo[c])
        <4>1. PICK i \in 1 .. Len(todo[c]) : x = todo[c][i]
              BY <2>3, <3>2 DEF Range
        <4>2. CASE i = 1
              BY <2>3, <2>6, <2>7, <4>1, <4>2
        <4>3. CASE i # 1
          <5>1. i - 1 \in 1 .. Len(t) /\ (i - 1) + 1 = i
                BY <2>3, <4>1, <4>3
          <5>2. t[i - 1] = x
                BY <2>3, <4>1, <5>1
          <5> QED
              BY <2>3, <2>6, <5>1, <5>2 DEF Range
        <4> QED
            BY <4>2, <4>3
      <3>3. ASSUME NEW i \in 1 .. Len(ch[c]), ch[c][i] = x, Ahead(c, i)
            PROVE  Ahead(c, i)'
        <4>1. ch[c][i] > h
              BY <2>3, <2>5, <3>3 DEF Ahead
        <4>2. \A k \in 1 .. Len(t) : t[k] < ch[c][i]
              BY <2>3, <2>4, <3>3 DEF Ahead
        <4> QED
            BY <1>1, <2>6, <3>3, <4>1, <4>2 DEF Ahead
      <3> QED
          BY <1>1, <1>2, <3>1, <3>2, <3>3 DEF InHand
    <2>12. Ordered(c)'
      <3> SUFFICES ASSUME overtaken = {}
                   PROVE  /\ Rising(t) /\ \A k \in 1 .. Len(t) : t[k] > h
                          /\ Rising(Append(got[c], h))
                          /\ \A k \in 1 .. Len(Append(got[c], h)) : Append(got[c], h)[k] <= h
        <4>1. Ordered(c)' <=> (overtaken' = {} =>
                 /\ Rising(todo'[c]) /\ \A k \in 1 .. Len(todo'[c]) : todo'[c][k] > after'[c]
                 /\ Rising(got'[c]) /\ \A k \in 1 .. Len(got'[c]) : got'[c][k] <= after'[c])
              BY DEF Ordered, Rising
        <4> QED
            BY <1>1, <2>6, <4>1
      <3>1. /\ Rising(todo[c]) /\ \A k \in 1 .. Len(todo[c]) : todo[c][k] > after[c]
            /\ Rising(got[c]) /\ \A k \in 1 .. Len(got[c]) : got[c][k] <= after[c]
            BY <1>2 DEF Ordered
      <3>2. Rising(t)
        <4> SUFFICES ASSUME NEW i \in 1 .. Len(t), NEW j \in 1 .. Len(t), i < j
                     PROVE  todo[c][i + 1] < todo[c][j + 1]
            BY <2>3 DEF Rising
        <4>1. i + 1 < j + 1
              BY <2>3
        <4> QED
            BY <2>4, <3>1, <4>1 DEF Rising
      <3>3. \A k \in 1 .. Len(t) : t[k] > h
        <4> TAKE k \in 1 .. Len(t)
        <4>1. todo[c][1] < todo[c][k + 1]
              BY <2>4, <2>5, <3>1 DEF Rising
        <4>2. todo[c][k + 1] \in 1 .. acked
              BY <2>2, <2>4, ElementOfSeq
        <4> QED
            BY <1>0, <2>3, <4>1, <4>2
      <3>4. \A k \in 1 .. Len(got[c]) : got[c][k] < h
        <4> TAKE k \in 1 .. Len(got[c])
        <4>1. got[c][k] \in 1 .. acked /\ after[c] \in Nat
              BY <1>0, <2>2, ElementOfSeq DEF HubOK
        <4>2. got[c][k] <= after[c] /\ after[c] < h
              BY <2>3, <2>5, <3>1, <4>1
        <4> QED
            BY <1>0, <2>3, <4>1, <4>2
      <3>5. Rising(Append(got[c], h))
            BY <1>0, <2>2, <2>3, <3>1, <3>4, AppendRises
      <3>6. ASSUME NEW k \in 1 .. Len(Append(got[c], h)) PROVE Append(got[c], h)[k] <= h
        <4>1. CASE k = Len(got[c]) + 1
              BY <1>0, <2>3, <2>7, <4>1
        <4>2. CASE k # Len(got[c]) + 1
          <5>1. k \in 1 .. Len(got[c])
                BY <2>7, <4>2
          <5>2. got[c][k] \in 1 .. acked
                BY <2>2, <5>1, ElementOfSeq
          <5> QED
              BY <1>0, <2>3, <2>7, <3>4, <5>1, <5>2, SMTT(30)
        <4> QED
            BY <4>1, <4>2
      <3> QED
          BY <3>2, <3>3, <3>5, <3>6
    <2> QED
        BY <2>8, <2>9, <2>10, <2>11, <2>12, OneStreamStays DEF Served
  <1> QED
      BY <1>3, <1>4 DEF WriteReplay

\* A record of the channel is sent, or has been: what is owed is the former.
LEMMA FollowHub ==
  ASSUME IInv, HubIInv, NEW c \in Clients, Follow(c)
  PROVE  HubIInv'
  <1> DEFINE h == Head(ch[c])
             t == Tail(ch[c])
  <1>0. HubOK /\ Served(c) /\ 1 .. acked \subseteq Nat /\ acked \in Nat
        BY StoreTypes DEF HubIInv
  <1>1. /\ cpc[c] = "live" /\ ch[c] # <<>> /\ ch' = [ch EXCEPT ![c] = t]
        /\ UNCHANGED <<apc, seq, acked, recent, subs, cpc, todo, due, missed, overtaken>>
        BY DEF Follow, appends, owed
  <1>2. InPhase(c) /\ InHand(c) /\ Ordered(c) /\ todo[c] = <<>> /\ c \in subs
        BY <1>0, <1>1 DEF Served, InPhase
  <1>3. ch[c] \in Seq(1 .. acked) /\ got[c] \in Seq(1 .. acked) /\ after[c] \in 0 .. acked
        BY <1>0 DEF HubOK
  <1>4. /\ h \in 1 .. acked /\ t \in Seq(1 .. acked) /\ h = ch[c][1]
        /\ Len(t) = Len(ch[c]) - 1 /\ Len(t) \in Nat /\ Len(ch[c]) \in Nat
        /\ \A i \in 1 .. Len(t) : t[i] = ch[c][i + 1]
        BY <1>1, <1>3, FirstAndRest
  <1> HIDE DEF h, t
  <1>5. ASSUME NEW i \in 1 .. Len(ch[c]), i # 1
        PROVE  i - 1 \in 1 .. Len(t) /\ t[i - 1] = ch[c][i] /\ i > 1
    <2>1. PICK n \in Nat : n = Len(ch[c]) /\ n - 1 = Len(t)
          BY <1>4
    <2>2. i - 1 \in 1 .. n - 1 /\ (i - 1) + 1 = i /\ i > 1
          BY <1>5, <2>1
    <2> QED
        BY <1>4, <2>1, <2>2
  <1>6. Len(todo[c]) = 0 /\ 1 .. 0 = {} /\ DOMAIN todo[c] = {} /\ Rising(todo[c])
    <2>1. todo[c] = <<>> /\ Len(<<>>) = 0 /\ 1 .. 0 = {}
          BY <1>2, EmptySeq
    <2>2. todo[c] \in Seq(1 .. acked)
          BY <1>0 DEF HubOK
    <2>3. DOMAIN todo[c] = {}
          BY <2>1, <2>2, LenProperties
    <2> QED
        BY <2>1, <2>3 DEF Rising
  <1>7. ch'[c] = t /\ InPhase(c)'
    <2>1. ch'[c] = t
          BY <1>0, <1>1 DEF HubOK
    <2>2. Len(t) <= SubCap
          BY <1>2, <1>4, AuditStreamAssumption DEF InPhase
    <2> QED
        BY <1>1, <1>2, <2>1, <2>2 DEF InPhase
  <1>8. InRing(c)'
        BY <1>1 DEF InRing
  \* Of the records in the channel those ahead stay so, but for the first.
  <1>9. ASSUME NEW i \in 1 .. Len(ch[c]), Ahead(c, i), i # 1, after'[c] \in {after[c], h}
        PROVE  /\ i - 1 \in 1 .. Len(ch'[c]) /\ ch'[c][i - 1] = ch[c][i] /\ Ahead(c, i - 1)'
    <2>1. i - 1 \in 1 .. Len(t) /\ t[i - 1] = ch[c][i] /\ i \in Nat
          BY <1>4, <1>5, <1>9
    <2>2. ch[c][i] > after'[c]
      <3>1. 1 \in 1 .. i - 1
            BY <1>4, <1>5, <1>9
      <3> QED
          BY <1>4, <1>9, <3>1 DEF Ahead
    <2>3. \A j \in 1 .. (i - 1) - 1 : t[j] < t[i - 1]
      <3> TAKE j \in 1 .. (i - 1) - 1
      <3>1. j + 1 \in 1 .. i - 1 /\ t[j] = ch[c][j + 1]
            BY <1>4, <2>1
      <3> QED
          BY <1>9, <2>1, <3>1 DEF Ahead
    <2>4. \A k \in 1 .. Len(todo'[c]) : todo'[c][k] < t[i - 1]
          BY <1>1, <1>6
    <2> QED
        BY <1>7, <2>1, <2>2, <2>3, <2>4 DEF Ahead
  <1>10. Owed(c)' = Owed(c)
        BY <1>1 DEF Owed
  <1>11. CASE News(c) /\ Receive(c, h)
    <2>1. /\ got' = [got EXCEPT ![c] = Append(got[c], h)] /\ after' = [after EXCEPT ![c] = h]
          /\ h > after[c]
          BY <1>11 DEF Receive, News, h
    <2>2. /\ Append(got[c], h) \in Seq(1 .. acked) /\ Len(got[c]) \in Nat
          /\ Len(Append(got[c], h)) = Len(got[c]) + 1
          /\ \A i \in 1 .. Len(got[c]) : Append(got[c], h)[i] = got[c][i]
          /\ Append(got[c], h)[Len(got[c]) + 1] = h
          /\ Range(Append(got[c], h)) = Range(got[c]) \cup {h}
          BY <1>3, <1>4, AppendProperties, AppendRange, LenProperties
    <2>3. got'[c] = Append(got[c], h) /\ after'[c] = h
          BY <1>0, <2>1 DEF HubOK
    <2>4. HubOK'
      <3>1. after' \in [Clients -> 0 .. acked]
            BY <1>0, <1>4, <2>1 DEF HubOK
      <3>2. ch' \in [Clients -> Seq(1 .. acked)]
            BY <1>0, <1>1, <1>4 DEF HubOK
      <3>3. got' \in [Clients -> Seq(1 .. acked)]
            BY <1>0, <2>1, <2>2 DEF HubOK
      <3> QED
          BY <1>0, <1>1, <3>1, <3>2, <3>3 DEF HubOK
    <2>5. OneStream(c)
          BY <1>0, <1>1, <2>1 DEF OneStream, About, HubOK
    <2>6. InHand(c)'
      <3> SUFFICES ASSUME NEW x \in Owed(c)
                   PROVE  \/ x \in Range(got'[c]) \cup Range(todo'[c])
                          \/ \E i \in 1 .. Len(ch'[c]) : ch'[c][i] = x /\ Ahead(c, i)'
          BY <1>10 DEF InHand
      <3>1. CASE x \in Range(got[c]) \cup Range(todo[c])
            BY <1>1, <2>2, <2>3, <3>1
      <3>2. ASSUME NEW i \in 1 .. Len(ch[c]), ch[c][i] = x, Ahead(c, i)
            PROVE  \/ x \in Range(got'[c])
                   \/ \E j \in 1 .. Len(ch'[c]) : ch'[c][j] = x /\ Ahead(c, j)'
        <4>1. CASE i = 1
              BY <1>4, <2>2, <2>3, <3>2, <4>1
        <4>2. CASE i # 1
          <5>1. /\ i - 1 \in 1 .. Len(ch'[c]) /\ ch'[c][i - 1] = x /\ Ahead(c, i - 1)'
                BY <1>9, <2>3, <3>2, <4>2
          <5> QED
              BY <5>1
        <4> QED
            BY <4>1, <4>2
      <3> QED
          BY <1>1, <1>2, <3>1, <3>2 DEF InHand
    <2>7. Ordered(c)'
      <3> SUFFICES ASSUME overtaken = {}
                   PROVE  /\ Rising(Append(got[c], h))
                          /\ \A k \in 1 .. Len(Append(got[c], h)) : Append(got[c], h)[k] <= h
        <4>1. Ordered(c)' <=> (overtaken' = {} =>
                 /\ Rising(todo'[c]) /\ \A k \in 1 .. Len(todo'[c]) : todo'[c][k] > after'[c]
                 /\ Rising(got'[c]) /\ \A k \in 1 .. Len(got'[c]) : got'[c][k] <= after'[c])
              BY DEF Ordered, Rising
        <4> QED
            BY <1>1, <1>6, <2>3, <4>1
      <3>1. Rising(got[c]) /\ \A k \in 1 .. Len(got[c]) : got[c][k] <= after[c]
            BY <1>2 DEF Ordered
      <3>2. \A k \in 1 .. Len(got[c]) : got[c][k] < h
        <4> TAKE k \in 1 .. Len(got[c])
        <4>1. got[c][k] \in 1 .. acked
              BY <1>3, ElementOfSeq
        <4>2. got[c][k] <= after[c] /\ after[c] < h
              BY <2>1, <3>1
        <4>3. got[c][k] \in Nat /\ after[c] \in Nat /\ h \in Nat
              BY <1>0, <1>3, <1>4, <4>1, SMTT(30)
        <4> QED
            BY <4>2, <4>3
      <3>3. Rising(Append(got[c], h))
            BY <1>0, <1>3, <1>4, <3>1, <3>2, AppendRises
      <3>4. ASSUME NEW k \in 1 .. Len(Append(got[c], h)) PROVE Append(got[c], h)[k] <= h
        <4>1. CASE k = Len(got[c]) + 1
              BY <1>0, <1>4, <2>2, <4>1
        <4>2. CASE k # Len(got[c]) + 1
          <5>1. k \in 1 .. Len(got[c])
                BY <2>2, <4>2
          <5>2. got[c][k] \in 1 .. acked
                BY <1>3, <5>1, ElementOfSeq
          <5> QED
              BY <1>0, <1>4, <2>2, <3>2, <5>1, <5>2, SMTT(30)
        <4> QED
            BY <4>1, <4>2
      <3> QED
          BY <3>3, <3>4
    <2> QED
        BY <1>7, <1>8, <2>4, <2>5, <2>6, <2>7, OneStreamStays DEF Served
  <1>12. CASE ~News(c) /\ UNCHANGED <<got, after>>
    <2>1. ~(h > after[c])
          BY <1>12 DEF News, h
    <2>2. HubOK'
      <3>1. ch' \in [Clients -> Seq(1 .. acked)]
            BY <1>0, <1>1, <1>4 DEF HubOK
      <3> QED
          BY <1>0, <1>1, <1>12, <3>1 DEF HubOK
    <2>3. OneStream(c)
          BY <1>0, <1>1, <1>12 DEF OneStream, About, HubOK
    <2>4. InHand(c)'
      <3> SUFFICES ASSUME NEW x \in Owed(c)
                   PROVE  \/ x \in Range(got[c]) \cup Range(todo[c])
                          \/ \E i \in 1 .. Len(ch'[c]) : ch'[c][i] = x /\ Ahead(c, i)'
          BY <1>1, <1>10, <1>12 DEF InHand
      <3>1. ASSUME NEW i \in 1 .. Len(ch[c]), ch[c][i] = x, Ahead(c, i)
            PROVE  \E j \in 1 .. Len(ch'[c]) : ch'[c][j] = x /\ Ahead(c, j)'
        <4>1. i # 1
              BY <1>4, <2>1, <3>1 DEF Ahead
        <4>2. /\ i - 1 \in 1 .. Len(ch'[c]) /\ ch'[c][i - 1] = x /\ Ahead(c, i - 1)'
              BY <1>9, <1>12, <3>1, <4>1
        <4> QED
            BY <4>2
      <3> QED
          BY <1>1, <1>2, <3>1 DEF InHand
    <2>5. Ordered(c)'
          BY <1>1, <1>2, <1>12 DEF Ordered
    <2> QED
        BY <1>7, <1>8, <2>2, <2>3, <2>4, <2>5, OneStreamStays DEF Served
  <1> QED
      BY <1>11, <1>12 DEF Follow, h

\* A stream that is closed owes nothing.
LEMMA ClosedServed ==
  ASSUME NEW C \in SUBSET Clients, HubOK, Closed(C), subs' = subs \ C,
         UNCHANGED <<acked, overtaken>>, recent' \in {recent, <<>>}
  PROVE  HubOK' /\ \A c \in C : Served(c)'
  <1>0. Len(<<>>) = 0 /\ 1 .. 0 = {} /\ <<>> \in Seq(1 .. acked)
        BY EmptySeq
  <1>1. HubOK'
    <2>1. recent' \in Seq(1 .. acked) /\ Len(recent') <= RingCap
      <3>1. recent \in Seq(1 .. acked) /\ Len(recent) <= RingCap /\ 0 <= RingCap
            BY AuditStreamAssumption DEF HubOK
      <3> QED
          BY <1>0, <3>1
    <2> QED
        BY <1>0, <2>1 DEF HubOK, Closed
  <1>2. ASSUME NEW c \in C PROVE Served(c)'
    <2>1. /\ cpc'[c] = "off" /\ ch'[c] = <<>> /\ todo'[c] = <<>> /\ got'[c] = <<>>
          /\ c \notin subs'
          BY <1>2 DEF Closed
    <2>2. InPhase(c)' /\ InRing(c)' /\ InHand(c)'
          BY <1>0, <2>1, AuditStreamAssumption DEF InPhase, InRing, InHand
    <2>3. Ordered(c)'
          BY <1>0, <2>1 DEF Ordered, Rising
    <2> QED
        BY <2>2, <2>3 DEF Served
  <1> QED
      BY <1>1, <1>2

LEMMA DisconnectHub ==
  ASSUME HubIInv, NEW c \in Clients, Disconnect(c)
  PROVE  HubIInv'
  <1>0. HubOK
        BY DEF HubIInv
  <1>1. /\ Closed({c}) /\ subs' = subs \ {c}
        /\ UNCHANGED <<apc, seq, acked, recent, overtaken>>
        BY DEF Disconnect, appends
  <1>2. HubOK' /\ Served(c)'
        BY <1>0, <1>1, ClosedServed
  <1>3. OneStream(c)
        BY <1>0, <1>1 DEF OneStream, About, HubOK, Closed
  <1> QED
      BY <1>2, <1>3, OneStreamStays

LEMMA RestartHub ==
  ASSUME HubIInv, Restart
  PROVE  HubIInv'
  <1>0. HubOK
        BY DEF HubIInv
  <1>1. /\ Closed(Clients) /\ subs' = subs \ Clients /\ recent' = <<>>
        /\ apc' = [a \in Appenders |-> "idle"] /\ UNCHANGED <<acked, overtaken>>
        BY <1>0 DEF Restart, HubOK
  <1>2. HubOK' /\ \A c \in Clients : Served(c)'
        BY <1>0, <1>1, ClosedServed
  <1>3. Numbered' /\ RingOrdered'
    <2>1. Len(<<>>) = 0 /\ 1 .. 0 = {}
          BY EmptySeq
    <2> QED
        BY <1>1, <2>1 DEF Numbered, RingOrdered, Rising
  <1> QED
      BY <1>2, <1>3 DEF HubIInv

\* Before anything is published nobody is owed anything.
LEMMA HubInitially ==
  ASSUME Init
  PROVE  HubIInv
  <1>0. Len(<<>>) = 0 /\ 1 .. 0 = {} /\ 1 .. acked = {} /\ \A S : <<>> \in Seq(S)
        BY EmptySeq DEF Init
  <1>1. HubOK
        BY <1>0, AuditStreamAssumption DEF Init, HubOK
  <1>2. Numbered /\ RingOrdered
        BY <1>0 DEF Init, Numbered, RingOrdered, Rising
  <1>3. \A c \in Clients : Served(c)
        BY <1>0, AuditStreamAssumption
           DEF Init, Served, InPhase, InRing, InHand, Ordered, Rising
  <1> QED
      BY <1>1, <1>2, <1>3 DEF HubIInv

\* The invariant of the streams holds whichever of their steps meet those of Append.
THEOREM HubInvariance == Spec => []HubIInv
  <1>1. Init => HubIInv
        BY HubInitially
  <1>2. IInv /\ IInv' /\ HubIInv /\ [Next]_vars => HubIInv'
    <2> SUFFICES ASSUME IInv, IInv', HubIInv, [Next]_vars
                 PROVE  HubIInv'
        OBVIOUS
    <2>1. CASE \E a \in Appenders : Commit(a) \/ Invalidate(a) \/ Publish(a)
          BY <2>1, CommitHub, InvalidateHub, PublishHub
    <2>2. CASE \E r \in Readers : Ask(r) \/ View(r) \/ Fill(r) \/ Answered(r)
          BY <2>2, ReadersHub
    <2>3. ASSUME NEW c \in Clients, Connect(c, 0) \/ Connect(c, after[c])
          PROVE  HubIInv'
      <3>1. 0 \in 0 .. acked /\ after[c] \in 0 .. acked
            BY StoreTypes DEF HubIInv, HubOK
      <3> QED
          BY <2>3, <3>1, ConnectHub
    <2>4. CASE \E c \in Clients :
                 Subscribe(c) \/ Replay(c) \/ WriteReplay(c) \/ Follow(c) \/ Disconnect(c)
          BY <2>4, SubscribeHub, ReplayHub, WriteReplayHub, FollowHub, DisconnectHub
    <2>5. CASE Restart
          BY <2>5, RestartHub
    <2>6. CASE UNCHANGED vars
      <3>1. UNCHANGED <<apc, seq, acked>> /\ UNCHANGED <<hub, streams, owed, acked>>
            BY <2>6 DEF vars, appends
      <3>2. Numbered'
            BY <3>1 DEF HubIInv, Numbered
      <3> QED
          BY <3>1, <3>2, HubStays
    <2> QED
        BY <2>1, <2>2, <2>3, <2>4, <2>5, <2>6 DEF Next
  <1> QED
      BY <1>1, <1>2, StoreInvariance, PTL DEF Spec

\* A stream that has caught up has sent, once and in order, all it owed, for any number of
\* appenders and consoles and any sizes of ring and channel.
THEOREM AllIsSentOnce == Spec => []SentOnce
  <1>1. IInv /\ HubIInv => SentOnce
    <2> SUFFICES ASSUME IInv, HubIInv, NEW c \in Clients PROVE NoGap(c) /\ InOrder(c)
        BY DEF SentOnce
    <2>0. /\ InPhase(c) /\ InHand(c) /\ Ordered(c)
          /\ got[c] \in Seq(1 .. acked) /\ todo[c] \in Seq(1 .. acked)
          BY DEF HubIInv, Served, HubOK
    <2>1. NoGap(c)
      <3> SUFFICES ASSUME CaughtUp(c), NEW s \in Owed(c) PROVE s \in Range(got[c])
          BY DEF NoGap, Owed
      <3>1. cpc[c] = "live" /\ ch[c] = <<>> /\ todo[c] = <<>>
            BY <2>0 DEF CaughtUp, InPhase
      <3>2. 1 .. Len(ch[c]) = {} /\ Range(todo[c]) = {}
        <4>1. Len(<<>>) = 0 /\ 1 .. 0 = {}
              BY EmptySeq
        <4>2. DOMAIN todo[c] = {}
              BY <2>0, <3>1, <4>1, LenProperties
        <4> QED
            BY <3>1, <4>1, <4>2 DEF Range
      <3> QED
          BY <2>0, <3>1, <3>2 DEF InHand
    <2>2. InOrder(c)
      <3> SUFFICES ASSUME overtaken = {}, NEW i \in 1 .. Len(got[c]) - 1
                   PROVE  got[c][i] < got[c][i + 1]
          BY DEF InOrder
      <3>1. Len(got[c]) \in Nat
            BY <2>0, LenProperties
      <3>2. i \in 1 .. Len(got[c]) /\ i + 1 \in 1 .. Len(got[c]) /\ i < i + 1
            BY <3>1
      <3> QED
          BY <2>0, <3>2 DEF Ordered, Rising
    <2> QED
        BY <2>1, <2>2
  <1> QED
      BY <1>1, StoreInvariance, HubInvariance, PTL

\* Every variable of AuditStream keeps its type, the ring and the channels their capacities.
THEOREM StreamTypeCorrect == Spec => []TypeOK
  <1>1. IInv /\ HubIInv => TypeOK
    <2> SUFFICES ASSUME IInv, HubIInv PROVE TypeOK
        OBVIOUS
    <2>0. HubOK /\ 1 .. acked \subseteq Seqs /\ 0 .. acked \subseteq 0 .. log /\ StoreOK
      <3>1. log \in Nat /\ acked \in 0 .. log
            BY StoreTypes
      <3> QED
          BY <3>1, StoreTypes DEF HubIInv, IInv
    <2>1. /\ recent \in Seq(Seqs)
          /\ \A c \in Clients : ch[c] \in Seq(Seqs) /\ todo[c] \in Seq(Seqs) /\ got[c] \in Seq(Seqs)
          BY <2>0, SeqMonotonic DEF HubOK
    <2>2. /\ ch \in [Clients -> Seq(Seqs)] /\ todo \in [Clients -> Seq(Seqs)]
          /\ got \in [Clients -> Seq(Seqs)]
          BY <2>0, <2>1 DEF HubOK
    <2>3. after \in [Clients -> 0 .. log] /\ due \in [Clients -> SUBSET Seqs]
          BY <2>0 DEF HubOK
    <2>4. \A c \in Clients : Len(ch[c]) <= SubCap
          BY DEF HubIInv, Served, InPhase
    <2> QED
        BY <2>0, <2>1, <2>2, <2>3, <2>4 DEF HubOK, TypeOK
  <1> QED
      BY <1>1, StoreInvariance, HubInvariance, PTL

-----------------------------------------------------------------------------
(* PRQueue *)

ToAsk == {"waiting", "asking"}

AsRecorded(p) == row[p].state = recorded[p] /\ ~row[p].merged
IsOpen(p) == row[p].state = "open" /\ ~row[p].merged

\* Who has a row is asked about, or has been.
Asked == \A p \in PRs :
  /\ row[p] # NoRow => recorded[p] # NoRow
  /\ at[p] \in ToAsk =>
       qpc = "asking" /\ row[p] # NoRow /\ AsRecorded(p) /\ ~row[p].stale
  /\ p \in PRs \ linked => at[p] \notin ToAsk
  /\ qpc = "idle" => row[p] = NoRow

\* A row that GitHub is not, or no longer, asked about is what it told in the
\* course of the request, or what was recorded.
Told == \A p \in PRs : row[p] # NoRow /\ at[p] \notin ToAsk =>
  IF p \in linked /\ ~row[p].stale
  THEN (IsOpen(p) => p \in wasOpen) /\ (~IsOpen(p) => p \in wasShut)
  ELSE AsRecorded(p)

\* The history has every row as it is on GitHub while the request is under way.
Witnessed == qpc = "asking" => \A p \in PRs : row[p] # NoRow =>
  IF gh[p] = "open" THEN p \in wasOpen ELSE p \in wasShut

\* The request is answered when nobody is asked about.
AllTold == qpc = "answered" => \A p \in PRs : at[p] \notin ToAsk

QueueIInv == QueueTypeOK /\ Asked /\ Told /\ Witnessed /\ AllTold

-----------------------------------------------------------------------------
(* The checks of a PR *)

\* When every page is answered and there are no more than are read, all are.
LEMMA AllRead ==
  ASSUME NEW n \in 0 .. MaxPages, NEW pages \in [1 .. n -> SUBSET RunStates]
  PROVE  ReadOf(pages) = 1 .. n
  <1>1. n \in Nat /\ n <= MaxPages /\ DOMAIN pages = 1 .. n
        BY QueueAssumption
  <1>2. \A i \in 1 .. n : pages[i] # Err
    <2> SUFFICES ASSUME NEW i \in 1 .. n
                 PROVE  pages[i] # Err
        OBVIOUS
    <2>1. pages[i] \subseteq RunStates
          OBVIOUS
    <2>2. "error" \in Err /\ "error" \notin RunStates
          BY DEF Err, RunStates
    <2> QED
        BY <2>1, <2>2
  <1>3. \A i \in 1 .. n : i <= MaxPages /\ \A j \in 1 .. i : j \in 1 .. n
        BY <1>1, QueueAssumption
  <1> QED
      BY <1>1, <1>2, <1>3 DEF ReadOf

\* ciState tells of the worst check, whichever page it is on.
THEOREM WorstIsTold == WorstWins
  <1> SUFFICES ASSUME NEW n \in 0 .. MaxPages, NEW pages \in [1 .. n -> SUBSET RunStates],
                      NEW combined \in {{}} \cup {{s} : s \in RunStates}
               PROVE  LET told == UNION {pages[i] : i \in 1 .. n} \cup combined
                      IN  /\ CIState(pages, combined) = "failure" <=> "failure" \in told
                          /\ CIState(pages, combined) \in {"success", ""} => "pending" \notin told
                          /\ CIState(pages, combined) = "" <=> told = {}
      BY DEF WorstWins
  <1> DEFINE told == UNION {pages[i] : i \in 1 .. n} \cup combined
  <1>1. combined \ Err = combined
        BY DEF Err, RunStates
  <1>2. CIState(pages, combined) = IF "failure" \in told THEN "failure"
                                   ELSE IF "pending" \in told THEN "pending"
                                   ELSE IF told # {} THEN "success" ELSE ""
        BY <1>1, AllRead DEF CIState
  <1> HIDE DEF told
  <1>3. /\ CIState(pages, combined) = "failure" <=> "failure" \in told
        /\ CIState(pages, combined) \in {"success", ""} => "pending" \notin told
        /\ CIState(pages, combined) = "" <=> told = {}
        BY <1>2
  <1> QED
      BY <1>3 DEF told

-----------------------------------------------------------------------------
(* The steps *)

\* Every step keeps the types.
LEMMA TypeStep ==
  ASSUME QueueTypeOK, Asked, [QueueNext]_queueVars
  PROVE  QueueTypeOK'
  <1> USE DEF QueueTypeOK
  <1>1. CASE UNCHANGED queueVars
        BY <1>1 DEF queueVars, github, request, seen
  <1>2. ASSUME NEW p \in PRs, NEW g, Witness(p, g)
        PROVE  wasOpen' \subseteq PRs /\ wasShut' \subseteq PRs
        BY <1>2 DEF Witness
  <1>3. ASSUME NEW p \in PRs, OpenPR(p)
        PROVE  QueueTypeOK'
        BY <1>2, <1>3 DEF OpenPR, request
  <1>4. ASSUME NEW p \in PRs, NEW g \in {"open", "closed", "merged"}, Change(p, g)
        PROVE  QueueTypeOK'
        BY <1>2, <1>4 DEF Change, request
  <1>5. ASSUME NEW p \in PRs, Record(p)
        PROVE  QueueTypeOK'
        BY <1>5 DEF Record, StateOf, Listed, request, seen
  <1>6. CASE AskQueue
    <2>1. ASSUME NEW p \in PRs, recorded[p] # NoRow
          PROVE  [state |-> recorded[p], merged |-> FALSE, stale |-> FALSE] \in Row
          BY <2>1 DEF Row
    <2>2. row' \in [PRs -> Row \cup {NoRow}]
          BY <1>6, <2>1 DEF AskQueue
    <2> QED
        BY <1>6, <2>2 DEF AskQueue, github
  <1>7. ASSUME NEW p \in PRs, Acquire(p)
        PROVE  QueueTypeOK'
        BY <1>7 DEF Acquire, github, seen
  <1>8. CASE Deadline
        BY <1>8 DEF Deadline, github, seen
  <1>9. ASSUME NEW p \in PRs, at[p] \in ToAsk
        PROVE  row[p] \in Row
        BY <1>9 DEF Asked
  <1>10. ASSUME NEW p \in PRs, GiveUp(p)
         PROVE  QueueTypeOK'
    <2>1. row[p] \in Row
          BY <1>9, <1>10 DEF GiveUp, ToAsk
    <2>2. [row[p] EXCEPT !.stale = TRUE] \in Row
          BY <2>1 DEF Row
    <2>3. row' = [row EXCEPT ![p] = [row[p] EXCEPT !.stale = TRUE]]
          BY <1>10 DEF GiveUp
    <2>4. row' \in [PRs -> Row \cup {NoRow}]
          BY <2>2, <2>3
    <2> QED
        BY <1>10, <2>4 DEF GiveUp, github, seen
  <1>11. ASSUME NEW p \in PRs, Lookup(p)
         PROVE  QueueTypeOK'
    <2>1. row[p] \in Row
          BY <1>9, <1>11 DEF Lookup, ToAsk
    <2>2. Read(p) \in Row
          BY <2>1 DEF Read, Row, StateOf, Listed
    <2>3. row' \in [PRs -> Row \cup {NoRow}]
          BY <1>11, <2>2 DEF Lookup
    <2> QED
        BY <1>11, <2>3 DEF Lookup, github, seen
  <1>12. CASE Answer
         BY <1>12 DEF Answer, github, seen
  <1>13. CASE Close
         BY <1>13 DEF Close, github
  <1> QED
      BY <1>1, <1>3, <1>4, <1>5, <1>6, <1>7, <1>8, <1>10, <1>11, <1>12, <1>13 DEF QueueNext

\* Every step keeps what is known of the rows.
LEMMA RowsStep ==
  ASSUME QueueIInv, [QueueNext]_queueVars
  PROVE  Asked' /\ Told' /\ Witnessed' /\ AllTold'
  <1>1. QueueTypeOK /\ Asked /\ Told /\ Witnessed /\ AllTold
        BY DEF QueueIInv
  <1> USE DEF IsOpen, AsRecorded
  <1>2. CASE UNCHANGED queueVars
        BY <1>1, <1>2 DEF queueVars, github, request, seen, Asked, Told, Witnessed, AllTold
  <1>3. ASSUME NEW p \in PRs, NEW g, Witness(p, g), gh' = [gh EXCEPT ![p] = g],
               UNCHANGED <<recorded, linked, request>>
        PROVE  Asked' /\ Told' /\ Witnessed' /\ AllTold'
    <2>1. UNCHANGED <<recorded, linked, qpc, row, at>>
          BY <1>3 DEF request
    <2>2. wasOpen \subseteq wasOpen' /\ wasShut \subseteq wasShut'
          BY <1>3 DEF Witness
    <2>3. Asked' /\ AllTold'
          BY <1>1, <2>1 DEF Asked, AllTold
    <2>4. Told'
          BY <1>1, <2>1, <2>2 DEF Told
    <2>5. Witnessed'
      <3>1. \A q \in PRs \ {p} : gh'[q] = gh[q]
            BY <1>1, <1>3 DEF QueueTypeOK
      <3>2. gh'[p] = g
            BY <1>1, <1>3 DEF QueueTypeOK
      <3>3. qpc = "asking" => IF g = "open" THEN p \in wasOpen' ELSE p \in wasShut'
            BY <1>3 DEF Witness
      <3> QED
          BY <1>1, <2>1, <2>2, <3>1, <3>2, <3>3 DEF Witnessed
    <2> QED
        BY <2>3, <2>4, <2>5
  <1>4. ASSUME NEW p \in PRs,
               OpenPR(p) \/ \E g \in {"open", "closed", "merged"} : Change(p, g)
        PROVE  Asked' /\ Told' /\ Witnessed' /\ AllTold'
        BY <1>3, <1>4 DEF OpenPR, Change
  <1>5. ASSUME NEW p \in PRs, Record(p)
        PROVE  Asked' /\ Told' /\ Witnessed' /\ AllTold'
    <2>1. /\ UNCHANGED <<gh, linked, qpc, row, at, wasOpen, wasShut>>
          /\ row[p] = NoRow /\ at[p] \notin ToAsk
          BY <1>1, <1>5 DEF Record, request, seen, Asked
    <2>2. \A q \in PRs \ {p} : recorded'[q] = recorded[q]
          BY <1>1, <1>5 DEF Record, QueueTypeOK
    <2> QED
        BY <1>1, <2>1, <2>2 DEF Asked, Told, Witnessed, AllTold
  <1>6. CASE AskQueue
    <2>1. /\ qpc' = "asking" /\ UNCHANGED <<gh, recorded, linked>>
          /\ \A p \in PRs : row'[p] = IF recorded[p] # NoRow
               THEN [state |-> recorded[p], merged |-> FALSE, stale |-> FALSE] ELSE NoRow
          /\ \A p \in PRs : at'[p] = IF recorded[p] # NoRow /\ p \in linked THEN "waiting"
               ELSE IF recorded[p] # NoRow THEN "done" ELSE "none"
          /\ \A p \in PRs : recorded[p] # NoRow =>
               IF gh[p] = "open" THEN p \in wasOpen' ELSE p \in wasShut'
          BY <1>6 DEF AskQueue, github
    <2>2. ASSUME NEW p \in PRs, recorded[p] # NoRow
          PROVE  /\ row'[p] # NoRow /\ row'[p].state = recorded'[p]
                 /\ ~row'[p].merged /\ ~row'[p].stale
      <3>1. row'[p] = [state |-> recorded[p], merged |-> FALSE, stale |-> FALSE]
            BY <2>1, <2>2
      <3>2. recorded[p] \in Listed
            BY <1>1, <2>2 DEF QueueTypeOK
      <3>3. [state |-> recorded[p], merged |-> FALSE, stale |-> FALSE] \in Row
            BY <3>2 DEF Row
      <3>4. row'[p] # NoRow
            BY <3>1, <3>3, QueueAssumption
      <3> QED
          BY <2>1, <3>1, <3>4
    <2>3. ASSUME NEW p \in PRs
          PROVE  /\ recorded[p] = NoRow => row'[p] = NoRow
                 /\ at'[p] \in ToAsk <=> recorded[p] # NoRow /\ p \in linked
          BY <2>1 DEF ToAsk
    <2>4. Asked' /\ Told'
      <3> HIDE DEF ToAsk
      <3>1. /\ qpc' = "asking" /\ UNCHANGED <<recorded, linked>>
            BY <2>1
      <3>2. Asked'
            BY <2>2, <2>3, <3>1 DEF Asked
      <3>3. Told'
            BY <2>2, <2>3, <3>1 DEF Told
      <3> QED
          BY <3>2, <3>3
    <2>5. Witnessed' /\ AllTold'
          BY <2>1 DEF Witnessed, AllTold
    <2> QED
        BY <2>4, <2>5
  <1>7. ASSUME NEW p \in PRs, Acquire(p)
        PROVE  Asked' /\ Told' /\ Witnessed' /\ AllTold'
    <2>1. UNCHANGED <<gh, recorded, linked, qpc, row, wasOpen, wasShut>>
          BY <1>7 DEF Acquire, github, seen
    <2>2. at[p] \in ToAsk /\ at'[p] \in ToAsk /\ \A q \in PRs \ {p} : at'[q] = at[q]
          BY <1>1, <1>7 DEF Acquire, QueueTypeOK, ToAsk
    <2> HIDE DEF ToAsk
    <2> QED
        BY <1>1, <2>1, <2>2 DEF Asked, Told, Witnessed, AllTold
  <1>8. CASE Deadline
        BY <1>1, <1>8 DEF Deadline, github, seen, Asked, Told, Witnessed, AllTold
  <1>9. ASSUME NEW p \in PRs, GiveUp(p) \/ Lookup(p)
        PROVE  Asked' /\ Told' /\ Witnessed' /\ AllTold'
    <2>1. UNCHANGED <<gh, recorded, linked, qpc, wasOpen, wasShut>>
          BY <1>9 DEF GiveUp, Lookup, github, seen
    <2>2. at[p] \in ToAsk /\ at'[p] \notin ToAsk /\ \A q \in PRs \ {p} : at'[q] = at[q]
          BY <1>1, <1>9 DEF GiveUp, Lookup, QueueTypeOK, ToAsk
    <2>3. /\ qpc = "asking" /\ row[p] # NoRow /\ row[p] \in Row
          /\ AsRecorded(p) /\ ~row[p].stale /\ p \in linked
          BY <1>1, <2>2 DEF Asked, QueueTypeOK
    <2>4. \A q \in PRs \ {p} : row'[q] = row[q]
          BY <1>1, <1>9 DEF GiveUp, Lookup, QueueTypeOK
    <2>5. IF row'[p].stale
          THEN row'[p].state = row[p].state /\ row'[p].merged = row[p].merged
          ELSE row'[p].state = StateOf(gh[p]) /\ (row'[p].merged <=> gh[p] = "merged")
      <3>1. CASE GiveUp(p)
        <4>1. row' = [row EXCEPT ![p] = [row[p] EXCEPT !.stale = TRUE]]
              BY <3>1 DEF GiveUp
        <4>2. row'[p] = [row[p] EXCEPT !.stale = TRUE]
              BY <1>1, <4>1 DEF QueueTypeOK
        <4> QED
            BY <2>3, <4>2 DEF Row
      <3>2. CASE Lookup(p)
        <4>1. row'[p] = Read(p)
              BY <1>1, <3>2 DEF Lookup, QueueTypeOK
        <4> QED
            BY <2>3, <4>1 DEF Read, Row
      <3> QED
          BY <1>9, <3>1, <3>2
    <2> HIDE DEF ToAsk
    <2>7. Asked'
          BY <1>1, <2>1, <2>2, <2>3, <2>4 DEF Asked
    <2>8. Witnessed' /\ AllTold'
          BY <1>1, <2>1, <2>3, <2>4 DEF Witnessed, AllTold
    <2>9. ~row'[p].stale => (IsOpen(p)' <=> gh[p] = "open")
          BY <2>5 DEF StateOf
    <2>10. IF gh[p] = "open" THEN p \in wasOpen ELSE p \in wasShut
           BY <1>1, <2>3 DEF Witnessed
    <2>11. Told'
           BY <1>1, <2>1, <2>2, <2>3, <2>4, <2>5, <2>9, <2>10 DEF Told
    <2> QED
        BY <2>7, <2>8, <2>11
  <1>10. CASE Answer
    <2>1. UNCHANGED <<gh, recorded, linked, row, at, wasOpen, wasShut>> /\ qpc' = "answered"
          BY <1>10 DEF Answer, github, seen
    <2>2. \A p \in PRs : at[p] \notin ToAsk
          BY <1>10 DEF Answer, ToAsk
    <2> QED
        BY <1>1, <2>1, <2>2 DEF Asked, Told, Witnessed, AllTold
  <1>11. CASE Close
    <2>1. /\ qpc' = "idle" /\ UNCHANGED <<recorded, linked>>
          /\ \A p \in PRs : row'[p] = NoRow /\ at'[p] = "none"
          BY <1>11 DEF Close, github
    <2> QED
        BY <1>1, <2>1 DEF Asked, Told, Witnessed, AllTold, ToAsk
  <1> QED
      BY <1>2, <1>4, <1>5, <1>6, <1>7, <1>8, <1>9, <1>10, <1>11 DEF QueueNext

-----------------------------------------------------------------------------
(* The theorems *)

\* Nothing is asked and nothing recorded yet.
LEMMA QueueInitially ==
  ASSUME QueueInit
  PROVE  QueueIInv
  <1>1. QueueTypeOK
        BY DEF QueueInit, QueueTypeOK
  <1>2. Asked /\ Told /\ Witnessed /\ AllTold
        BY DEF QueueInit, Asked, Told, Witnessed, AllTold, ToAsk
  <1> QED
      BY <1>1, <1>2 DEF QueueIInv

\* The invariant of the queue holds in every state.
THEOREM QueueInvariance == QueueSpec => []QueueIInv
  <1>1. QueueInit => QueueIInv
        BY QueueInitially
  <1>2. QueueIInv /\ [QueueNext]_queueVars => QueueIInv'
        BY TypeStep, RowsStep DEF QueueIInv
  <1> QED
      BY <1>1, <1>2, PTL DEF QueueSpec

\* A row that GitHub has answered for is told as the PR was at some moment of the
\* request, whatever the slots, the deadline and the people at work do; every other row
\* as it is recorded; and the CI state of a row is that of its worst check.
THEOREM QueueStaysHonest == QueueSpec => []QueueIsHonest
  <1>1. QueueIInv => QueueIsHonest
    <2> SUFFICES ASSUME QueueIInv, qpc = "answered", NEW p \in PRs, row[p] # NoRow
                 PROVE  IF Confirmed(p)
                        THEN (p \in Queue => p \in wasOpen) /\ (p \notin Queue => p \in wasShut)
                        ELSE p \in Queue <=> recorded[p] = "open"
        BY WorstIsTold DEF QueueIsHonest
    <2>1. /\ IF p \in linked /\ ~row[p].stale
             THEN (IsOpen(p) => p \in wasOpen) /\ (~IsOpen(p) => p \in wasShut)
             ELSE AsRecorded(p)
          BY DEF QueueIInv, Told, AllTold
    <2>2. p \in Queue <=> IsOpen(p)
          BY DEF Queue, IsOpen
    <2>3. Confirmed(p) <=> p \in linked /\ ~row[p].stale
          BY DEF Confirmed
    <2> QED
        BY <2>1, <2>2, <2>3 DEF AsRecorded, IsOpen
  <1> QED
      BY <1>1, QueueInvariance, PTL

-----------------------------------------------------------------------------
(* LiveView *)

\* The console's cards are of their type, and their texts no longer than the cap.
CardsOK == card \in [Fixes -> Card] /\ \A f \in Fixes : Len(card[f].output) <= TailCap

\* The rest of the types, a part at a time.
TrackerOK == /\ state \in [Fixes -> 0 .. MaxStates] /\ over \subseteq Fixes
             /\ printed \in [Fixes -> 0 .. MaxLines]
StreamOK ==
  /\ hpc \in {"off", "states", "writing states", "output", "tails", "writing tails", "live"}
  /\ unwritten \subseteq Transition \cup Output
FixesOK == fixes \in Seq(Transition) /\ Len(fixes) <= StateCap
OutputOK == output \in Seq(Output) /\ Len(output) <= OutCap /\ lost \in BOOLEAN
PollOK == polling \in BOOLEAN /\ poll \in [Fixes -> 0 .. MaxStates]
PastOK == ended \subseteq Fixes /\ unseen \subseteq Fixes /\ holes \subseteq Fixes

LEMMA LiveTypes ==
  /\ LiveTypeOK <=>
       TrackerOK /\ StreamOK /\ FixesOK /\ OutputOK /\ CardsOK /\ PollOK /\ PastOK
  /\ LiveTypeOK' <=>
       TrackerOK' /\ StreamOK' /\ FixesOK' /\ OutputOK' /\ CardsOK' /\ PollOK' /\ PastOK'
  BY DEF LiveTypeOK, TrackerOK, StreamOK, FixesOK, OutputOK, CardsOK, PollOK, PastOK

LEMMA CutKeeps ==
  ASSUME NEW text \in Seq(Lines)
  PROVE  Cut(text) \in Seq(Lines) /\ Len(Cut(text)) <= TailCap
  <1>1. Len(text) \in Nat /\ TailCap \in Nat \ {0}
        BY LenProperties, LiveViewAssumption
  <1>2. CASE Len(text) > TailCap
    <2> DEFINE from == Len(text) - TailCap + 1
    <2>1. from \in Int /\ Len(text) \in Int /\ from \in 1 .. Len(text)
          BY <1>1, <1>2
    <2>2. \A i \in from .. Len(text) : text[i] \in Lines
          BY <1>1, <2>1, ElementOfSeq
    <2> HIDE DEF from
    <2>3. /\ SubSeq(text, from, Len(text)) \in Seq(Lines)
          /\ Len(SubSeq(text, from, Len(text)))
               = IF from <= Len(text) THEN Len(text) - from + 1 ELSE 0
          BY <2>1, <2>2, SubSeqProperties
    <2> QED
        BY <1>1, <1>2, <2>3 DEF Cut, from
  <1>3. CASE ~(Len(text) > TailCap)
        BY <1>1, <1>3 DEF Cut
  <1> QED
      BY <1>2, <1>3

LEMMA TextIs ==
  ASSUME NEW o \in Output
  PROVE  Text(o) \in Seq(Lines)
  <1>1. o.from \in Lines /\ o.to \in Lines /\ MaxLines \in Nat
        BY LiveViewAssumption DEF Output
  <1> DEFINE n == IF o.to >= o.from THEN o.to - o.from + 1 ELSE 0
  <1>2. n \in Nat /\ 1 .. o.to - o.from + 1 = 1 .. n
        BY <1>1 DEF Lines
  <1>3. \A i \in 1 .. n : o.from + i - 1 \in Lines
        BY <1>1 DEF Lines
  <1>4. Text(o) = [i \in 1 .. n |-> o.from + i - 1]
        BY <1>2 DEF Text
  <1> HIDE DEF n
  <1>5. [i \in 1 .. n |-> o.from + i - 1] \in [1 .. n -> Lines]
        BY <1>3
  <1> QED
      BY <1>2, <1>4, <1>5

\* What is drawn of a transition, of output and of a poll leaves the cards of their
\* type, and those that have ended as ended.
LEMMA ShownKeeps ==
  ASSUME CardsOK, NEW t \in Transition, Shown(t)
  PROVE  /\ CardsOK'
         /\ \A f \in Fixes : /\ card[f].ended => card'[f].ended
                            /\ card'[f].output = card[f].output
         /\ t.terminal => card'[t.fix].ended
  <1>1. t.fix \in Fixes /\ t.state \in 0 .. MaxStates /\ t.terminal \in BOOLEAN
        BY DEF Transition
  <1> DEFINE old == card[t.fix]
             new == [old EXCEPT !.shown = TRUE, !.state = t.state, !.ended = @ \/ t.terminal]
  <1>2. old \in Card /\ Len(old.output) <= TailCap
        BY <1>1 DEF CardsOK
  <1>3. card' = [card EXCEPT ![t.fix] = new]
        BY <1>1 DEF Shown, CardsOK
  <1>4. new \in Card /\ new.output = old.output /\ new.ended = (old.ended \/ t.terminal)
        BY <1>1, <1>2 DEF Card
  <1> HIDE DEF new
  <1>5. card'[t.fix] = new /\ \A f \in Fixes \ {t.fix} : card'[f] = card[f]
        BY <1>1, <1>3 DEF CardsOK
  <1>6. card' \in [Fixes -> Card]
        BY <1>3, <1>4 DEF CardsOK
  <1> QED
      BY <1>1, <1>2, <1>4, <1>5, <1>6 DEF CardsOK

LEMMA AppendedKeeps ==
  ASSUME CardsOK, NEW o \in Output, Appended(o)
  PROVE  /\ CardsOK' /\ \A f \in Fixes : card'[f].ended = card[f].ended
         /\ card'[o.fix].output =
              Cut(IF o.snapshot THEN Text(o) ELSE card[o.fix].output \o Text(o))
         /\ \A f \in Fixes \ {o.fix} : card'[f].output = card[f].output
  <1>1. o.fix \in Fixes /\ o.snapshot \in BOOLEAN
        BY DEF Output
  <1> DEFINE old == card[o.fix]
             text == Cut(IF o.snapshot THEN Text(o) ELSE old.output \o Text(o))
             new == [old EXCEPT !.shown = TRUE, !.output = text]
  <1>2. old \in Card /\ old.output \in Seq(Lines)
        BY <1>1 DEF CardsOK, Card
  <1>3. text \in Seq(Lines) /\ Len(text) <= TailCap
    <2>1. Text(o) \in Seq(Lines) /\ old.output \o Text(o) \in Seq(Lines)
          BY <1>2, TextIs, ConcatProperties
    <2> QED
        BY <1>1, <2>1, CutKeeps
  <1>4. card' = [card EXCEPT ![o.fix] = new]
        BY <1>1 DEF Appended, CardsOK
  <1> HIDE DEF text
  <1>5. new \in Card /\ new.output = text /\ new.ended = old.ended
        BY <1>2, <1>3 DEF Card
  <1> HIDE DEF new
  <1>6. card'[o.fix] = new /\ \A f \in Fixes \ {o.fix} : card'[f] = card[f]
        BY <1>1, <1>4 DEF CardsOK
  <1>7. card' \in [Fixes -> Card]
        BY <1>4, <1>5 DEF CardsOK
  <1> QED
      BY <1>1, <1>3, <1>5, <1>6, <1>7 DEF CardsOK, text

LEMMA SeededKeeps ==
  ASSUME CardsOK, poll \in [Fixes -> 0 .. MaxStates], card' = [f \in Fixes |-> Seeded(f)]
  PROVE  /\ CardsOK'
         /\ \A f \in Fixes : /\ card'[f].ended = card[f].ended
                            /\ card'[f].output = card[f].output
  <1>1. ASSUME NEW f \in Fixes
        PROVE  /\ Seeded(f) \in Card /\ Seeded(f).output = card[f].output
               /\ Seeded(f).ended = card[f].ended
    <2>1. card[f] \in Card /\ poll[f] \in 0 .. MaxStates
          BY DEF CardsOK
    <2> QED
        BY <2>1 DEF Seeded, Card
  <1> QED
      BY <1>1 DEF CardsOK

\* Only transitions, or tails, wait to be written.
Phases == /\ hpc = "writing states" => unwritten \subseteq Transition
          /\ hpc = "writing tails" => unwritten \subseteq Output

\* The end of a Fix that ended on this connection and was not dropped is on the card or
\* on its way there.
OnItsWay(f) == \E i \in 1 .. Len(fixes) : fixes[i].fix = f /\ fixes[i].terminal
EndIsComing == \A f \in ended \ unseen : card[f].ended \/ OnItsWay(f)

LiveIInv == LiveTypeOK /\ Phases /\ EndIsComing

\* A transition is sent behind those before it, or its Fix is marked.
LEMMA NotifySends ==
  ASSUME LiveTypeOK, NEW f \in Fixes, NEW n \in 0 .. MaxStates, NEW terminal \in BOOLEAN,
         Notify(f, n, terminal)
  PROVE  /\ fixes' \in Seq(Transition) /\ Len(fixes') <= StateCap
         /\ unseen' \subseteq Fixes /\ unseen \subseteq unseen'
         /\ \A g \in Fixes : OnItsWay(g) => OnItsWay(g)'
         /\ Streaming /\ terminal => f \in unseen' \/ OnItsWay(f)'
  <1> DEFINE t == [fix |-> f, state |-> n, terminal |-> terminal]
  <1>1. /\ fixes \in Seq(Transition) /\ Len(fixes) <= StateCap /\ unseen \subseteq Fixes
        /\ StateCap \in Nat /\ Len(fixes) \in Nat
        BY LenProperties, LiveViewAssumption DEF LiveTypeOK
  <1>2. t \in Transition /\ t.fix = f /\ t.terminal = terminal
        BY DEF Transition
  <1>3. CASE Subscribed /\ Len(fixes) < StateCap
    <2>1. fixes' = Append(fixes, t) /\ unseen' = unseen
          BY <1>3 DEF Notify
    <2> HIDE DEF t
    <2>2. /\ fixes' \in Seq(Transition) /\ Len(fixes') = Len(fixes) + 1
          /\ \A i \in 1 .. Len(fixes) : fixes'[i] = fixes[i]
          /\ fixes'[Len(fixes) + 1] = t
          BY <1>1, <1>2, <2>1, AppendProperties
    <2>3. \A g \in Fixes : OnItsWay(g) => OnItsWay(g)'
          BY <1>1, <2>2 DEF OnItsWay
    <2>4. Len(fixes) + 1 \in 1 .. Len(fixes')
          BY <1>1, <2>2
    <2>5. terminal => OnItsWay(f)'
          BY <1>2, <2>2, <2>4 DEF OnItsWay
    <2> QED
        BY <1>1, <1>3, <2>1, <2>2, <2>3, <2>5
  <1>4. CASE ~(Subscribed /\ Len(fixes) < StateCap)
    <2>1. fixes' = fixes /\ unseen' = IF Subscribed THEN unseen \cup {f} ELSE unseen
          BY <1>4 DEF Notify
    <2> QED
        BY <1>1, <2>1 DEF OnItsWay, Subscribed
  <1> QED
      BY <1>3, <1>4

\* A card that has ended stays so, in every step.
CardsStay == \A f \in Fixes : card[f].ended => card'[f].ended

LEMMA TrackerStep ==
  ASSUME LiveIInv, NEW f \in Fixes, Enter(f) \/ EndFix(f) \/ AppendLine(f)
  PROVE  LiveIInv' /\ CardsStay
  <1>0. /\ TrackerOK /\ StreamOK /\ FixesOK /\ OutputOK /\ CardsOK /\ PollOK /\ PastOK
        /\ LiveTypeOK /\ Phases /\ EndIsComing
        /\ MaxStates \in Nat /\ MaxLines \in Nat /\ OutCap \in Nat /\ TailCap \in Nat \ {0}
        BY LiveViewAssumption, LiveTypes DEF LiveIInv
  <1>1. CASE Enter(f)
    <2>1. /\ state[f] + 1 \in 0 .. MaxStates /\ state' = [state EXCEPT ![f] = @ + 1]
          /\ Notify(f, state[f] + 1, FALSE)
          /\ UNCHANGED <<over, printed, hpc, unwritten, output, lost, card, polling, poll, ended, holes>>
      <3>1. state[f] \in 0 .. MaxStates /\ state[f] < MaxStates
            BY <1>0, <1>1 DEF Enter, TrackerOK
      <3>2. state[f] + 1 \in 0 .. MaxStates
            BY <1>0, <3>1
      <3> QED
          BY <1>1, <3>2 DEF Enter, console
    <2>2. /\ fixes' \in Seq(Transition) /\ Len(fixes') <= StateCap
          /\ unseen' \subseteq Fixes /\ unseen \subseteq unseen'
          /\ \A g \in Fixes : OnItsWay(g) => OnItsWay(g)'
          BY <1>0, <2>1, NotifySends
    <2>3. state' \in [Fixes -> 0 .. MaxStates]
          BY <1>0, <2>1 DEF LiveTypeOK
    <2>4. LiveTypeOK'
          BY <1>0, <2>1, <2>2, <2>3 DEF LiveTypeOK
    <2>5. Phases' /\ EndIsComing'
          BY <1>0, <2>1, <2>2 DEF Phases, EndIsComing, LiveTypeOK
    <2> QED
        BY <2>1, <2>4, <2>5 DEF LiveIInv, CardsStay
  <1>2. CASE EndFix(f)
    <2>1. /\ state[f] \in 0 .. MaxStates /\ over' = over \cup {f}
          /\ ended' = IF Streaming THEN ended \cup {f} ELSE ended
          /\ Notify(f, state[f], TRUE)
          /\ UNCHANGED <<state, printed, hpc, unwritten, output, lost, card, polling, poll, holes>>
          BY <1>0, <1>2 DEF EndFix, LiveTypeOK, console
    <2>2. /\ fixes' \in Seq(Transition) /\ Len(fixes') <= StateCap
          /\ unseen' \subseteq Fixes /\ unseen \subseteq unseen'
          /\ \A g \in Fixes : OnItsWay(g) => OnItsWay(g)'
          /\ Streaming => f \in unseen' \/ OnItsWay(f)'
          BY <1>0, <2>1, NotifySends
    <2>3. LiveTypeOK'
          BY <1>0, <2>1, <2>2 DEF LiveTypeOK
    <2>4. Phases' /\ EndIsComing'
          BY <1>0, <2>1, <2>2 DEF Phases, EndIsComing, LiveTypeOK
    <2> QED
        BY <2>1, <2>3, <2>4 DEF LiveIInv, CardsStay
  <1>3. CASE AppendLine(f)
    <2>1. /\ printed[f] \in 0 .. MaxLines /\ printed[f] < MaxLines
          /\ printed' = [printed EXCEPT ![f] = printed[f] + 1]
          /\ UNCHANGED <<state, over, hpc, unwritten, fixes, card, polling, poll, ended, unseen>>
          BY <1>0, <1>3 DEF AppendLine, LiveTypeOK, console
    <2>2. Message(f, printed[f] + 1) \in Output
          BY <1>0, <2>1 DEF Message, Whole, TailStart, Output, Lines
    <2>3. /\ output' \in Seq(Output) /\ Len(output') <= OutCap /\ lost' \in BOOLEAN
          /\ holes' \subseteq Fixes
      <3>1. output \in Seq(Output) /\ Len(output) \in Nat /\ Len(output) <= OutCap
            BY <1>0, LenProperties DEF LiveTypeOK
      <3>2. CASE /\ output' = Append(output, Message(f, printed[f] + 1)) /\ Len(output) < OutCap
                 /\ lost' = FALSE /\ holes' = IF lost THEN holes \ {f} ELSE holes
        <4>1. output' \in Seq(Output) /\ Len(output') = Len(output) + 1
              BY <2>2, <3>1, <3>2, AppendProperties
        <4>2. Len(output') <= OutCap /\ holes' \subseteq Fixes
          <5>1. Len(output') <= OutCap
                BY <1>0, <3>1, <3>2, <4>1
          <5>2. holes' \subseteq Fixes
                BY <1>0, <3>2 DEF PastOK
          <5> QED
              BY <5>1, <5>2
        <4> QED
            BY <3>2, <4>1, <4>2
      <3>3. CASE output' = output /\ lost' = TRUE /\ holes' = holes \cup {f}
            BY <1>0, <3>3 DEF LiveTypeOK
      <3>4. CASE UNCHANGED <<output, lost, holes>>
            BY <1>0, <3>4 DEF LiveTypeOK
      <3> QED
          BY <1>3, <3>2, <3>3, <3>4 DEF AppendLine
    <2>4. printed' \in [Fixes -> 0 .. MaxLines]
          BY <1>0, <2>1 DEF TrackerOK
    <2>5. LiveTypeOK'
          BY <1>0, <2>1, <2>3, <2>4 DEF LiveTypeOK
    <2>6. Phases' /\ EndIsComing'
          BY <1>0, <2>1 DEF Phases, EndIsComing, OnItsWay
    <2> QED
        BY <2>1, <2>5, <2>6 DEF LiveIInv, CardsStay
  <1> QED
      BY <1>1, <1>2, <1>3

\* The steps that draw nothing.
LEMMA StreamStep ==
  ASSUME LiveIInv,
         PollAsk \/ OpenStream \/ SnapshotStates \/ SubscribeOutput \/ SnapshotTails
           \/ CloseStream \/ Reboot
  PROVE  LiveIInv' /\ CardsStay
  <1>0. /\ TrackerOK /\ StreamOK /\ FixesOK /\ OutputOK /\ CardsOK /\ PollOK /\ PastOK
        /\ LiveTypeOK /\ Phases /\ EndIsComing
        /\ MaxStates \in Nat /\ MaxLines \in Nat /\ OutCap \in Nat /\ TailCap \in Nat \ {0}
        /\ StateCap \in Nat
        BY LiveViewAssumption, LiveTypes DEF LiveIInv
  <1>1. CASE PollAsk
    <2>1. \A f \in Fixes : Running(f) \in 0 .. MaxStates
          BY <1>0 DEF Running, TrackerOK, Active
    <2>2. /\ polling' = TRUE /\ poll' = [f \in Fixes |-> Running(f)]
          /\ UNCHANGED <<state, over, printed, hpc, unwritten, fixes, output, lost, card, ended,
                         unseen, holes>>
          BY <1>1 DEF PollAsk, tracker, stream, past
    <2>3. LiveTypeOK'
          BY <1>0, <2>1, <2>2 DEF LiveTypeOK
    <2> QED
        BY <1>0, <2>2, <2>3 DEF LiveIInv, Phases, EndIsComing, OnItsWay, CardsStay
  <1>2. CASE OpenStream \/ SubscribeOutput
    <2>1. /\ hpc' \in {"states", "tails"}
          /\ UNCHANGED <<state, over, printed, unwritten, fixes, output, lost, card, polling, poll,
                         ended, unseen, holes>>
          BY <1>2 DEF OpenStream, SubscribeOutput, tracker, console, past
    <2>2. LiveTypeOK'
          BY <1>0, <2>1 DEF LiveTypeOK
    <2> QED
        BY <1>0, <2>1, <2>2 DEF LiveIInv, Phases, EndIsComing, OnItsWay, CardsStay
  <1>3. CASE SnapshotStates
    <2>1. /\ hpc' = "writing states"
          /\ unwritten' = {[fix |-> f, state |-> state[f], terminal |-> FALSE] : f \in Active}
          /\ UNCHANGED <<state, over, printed, fixes, output, lost, card, polling, poll,
                         ended, unseen, holes>>
          BY <1>3 DEF SnapshotStates, tracker, console, past
    <2>2. unwritten' \subseteq Transition
      <3>1. \A f \in Active : [fix |-> f, state |-> state[f], terminal |-> FALSE] \in Transition
            BY <1>0 DEF LiveTypeOK, Active, Transition
      <3> QED
          BY <2>1, <3>1
    <2>3. LiveTypeOK'
          BY <1>0, <2>1, <2>2 DEF LiveTypeOK
    <2> QED
        BY <1>0, <2>1, <2>2, <2>3 DEF LiveIInv, Phases, EndIsComing, OnItsWay, CardsStay
  <1>4. CASE SnapshotTails
    <2>1. /\ hpc' = "writing tails"
          /\ unwritten' = {Whole(f, printed[f]) : f \in {g \in Active : printed[g] > 0}}
          /\ UNCHANGED <<state, over, printed, fixes, output, lost, card, polling, poll,
                         ended, unseen, holes>>
          BY <1>4 DEF SnapshotTails, tracker, console, past
    <2>2. unwritten' \subseteq Output
      <3>1. ASSUME NEW f \in Active, printed[f] > 0 PROVE Whole(f, printed[f]) \in Output
        <4>1. f \in Fixes /\ printed[f] \in 1 .. MaxLines
              BY <1>0, <3>1 DEF TrackerOK, Active
        <4> QED
            BY <1>0, <4>1 DEF Whole, TailStart, Output, Lines
      <3> QED
          BY <2>1, <3>1
    <2>3. LiveTypeOK'
          BY <1>0, <2>1, <2>2 DEF LiveTypeOK
    <2> QED
        BY <1>0, <2>1, <2>2, <2>3 DEF LiveIInv, Phases, EndIsComing, OnItsWay, CardsStay
  <1>5. CASE CloseStream \/ Reboot
    <2>1. /\ hpc' = "off" /\ unwritten' = {} /\ fixes' = <<>> /\ output' = <<>> /\ lost' = FALSE
          /\ ended' = {} /\ unseen' = {} /\ holes' = {}
          /\ UNCHANGED <<state, printed, card>>
          BY <1>5 DEF CloseStream, Reboot, StreamGone, tracker, console
    <2>2. over' \subseteq Fixes /\ polling' \in BOOLEAN /\ poll' \in [Fixes -> 0 .. MaxStates]
      <3>1. CASE CloseStream
            BY <1>0, <3>1 DEF CloseStream, LiveTypeOK, tracker, console
      <3>2. CASE Reboot
        <4>1. over' = over \cup Active /\ polling' = FALSE /\ poll' = [f \in Fixes |-> 0]
              BY <3>2 DEF Reboot
        <4>2. Active \subseteq Fixes /\ over \subseteq Fixes /\ 0 \in 0 .. MaxStates
              BY <1>0 DEF Active, TrackerOK
        <4> QED
            BY <4>1, <4>2
      <3> QED
          BY <1>5, <3>1, <3>2
    <2>3. /\ fixes' \in Seq(Transition) /\ Len(fixes') <= StateCap
          /\ output' \in Seq(Output) /\ Len(output') <= OutCap
          BY <1>0, <2>1, EmptySeq
    <2>4. LiveTypeOK'
          BY <1>0, <2>1, <2>2, <2>3 DEF LiveTypeOK
    <2> QED
        BY <2>1, <2>4 DEF LiveIInv, Phases, EndIsComing, CardsStay
  <1> QED
      BY <1>1, <1>2, <1>3, <1>4, <1>5

\* The steps that draw.
LEMMA DrawingStep ==
  ASSUME LiveIInv, PollAnswer \/ WriteState \/ WriteTail \/ FollowState \/ FollowOutput
  PROVE  LiveIInv' /\ CardsStay
  <1>0. /\ TrackerOK /\ StreamOK /\ FixesOK /\ OutputOK /\ CardsOK /\ PollOK /\ PastOK
        /\ LiveTypeOK /\ Phases /\ EndIsComing /\ ended \subseteq Fixes
        BY LiveTypes DEF LiveIInv, PastOK
  <1>1. CASE PollAnswer
    <2>1. /\ card' = [f \in Fixes |-> Seeded(f)]
          /\ polling' = FALSE /\ poll' = [f \in Fixes |-> 0]
          /\ UNCHANGED <<state, over, printed, hpc, unwritten, fixes, output, lost, ended, unseen, holes>>
          BY <1>1 DEF PollAnswer, tracker, stream, past
    <2>2. CardsOK' /\ \A f \in Fixes : card'[f].ended = card[f].ended
          BY <1>0, <2>1, SeededKeeps DEF LiveTypeOK
    <2>3. poll' \in [Fixes -> 0 .. MaxStates]
          BY <2>1, LiveViewAssumption
    <2>4. LiveTypeOK'
          BY <1>0, <2>1, <2>2, <2>3 DEF LiveTypeOK, CardsOK
    <2> QED
        BY <1>0, <2>1, <2>2, <2>4 DEF LiveIInv, Phases, EndIsComing, OnItsWay, CardsStay
  <1>2. CASE WriteState \/ WriteTail
    <2>1. UNCHANGED <<state, over, printed, fixes, output, lost, polling, poll, ended, unseen, holes>>
          BY <1>2 DEF WriteState, WriteTail, tracker, past
    <2>2. unwritten' \subseteq unwritten
          BY <1>2 DEF WriteState, WriteTail
    <2>3. hpc' = hpc \/ hpc' \in {"output", "live"}
          BY <1>2 DEF WriteState, WriteTail
    <2>4. CardsOK' /\ CardsStay
      <3>1. ASSUME NEW t \in unwritten, Shown(t), hpc = "writing states"
            PROVE  CardsOK' /\ CardsStay
            BY <1>0, <3>1, ShownKeeps DEF Phases, CardsStay
      <3>2. ASSUME NEW o \in unwritten, Appended(o), hpc = "writing tails"
            PROVE  CardsOK' /\ CardsStay
            BY <1>0, <3>2, AppendedKeeps DEF Phases, CardsStay
      <3>3. CASE card' = card
            BY <1>0, <3>3 DEF CardsOK, CardsStay
      <3> QED
          BY <1>2, <3>1, <3>2, <3>3 DEF WriteState, WriteTail
    <2>5. LiveTypeOK'
          BY <1>0, <2>1, <2>2, <2>3, <2>4 DEF LiveTypeOK, CardsOK
    <2>6. Phases'
          BY <1>0, <2>2, <2>3 DEF Phases
    <2>7. EndIsComing'
          BY <1>0, <2>1, <2>4 DEF EndIsComing, OnItsWay, CardsStay
    <2> QED
        BY <2>4, <2>5, <2>6, <2>7 DEF LiveIInv
  <1>3. CASE FollowState
    <2>1. /\ fixes # <<>> /\ Shown(Head(fixes)) /\ fixes' = Tail(fixes)
          /\ UNCHANGED <<state, over, printed, hpc, unwritten, output, lost, polling, poll, ended, unseen, holes>>
          BY <1>3 DEF FollowState, tracker, past
    <2>2. /\ fixes \in Seq(Transition) /\ Len(fixes) \in Nat /\ Len(fixes) <= StateCap
          /\ StateCap \in Nat
          BY <1>0, LenProperties, LiveViewAssumption DEF LiveTypeOK
    <2>3. /\ Head(fixes) \in Transition /\ Head(fixes) = fixes[1]
          /\ fixes' \in Seq(Transition) /\ Len(fixes') = Len(fixes) - 1
          /\ \A i \in 1 .. Len(fixes') : fixes'[i] = fixes[i + 1]
          BY <2>1, <2>2, HeadTailProperties
    <2>4. /\ CardsOK' /\ CardsStay
          /\ Head(fixes).terminal => card'[Head(fixes).fix].ended
          BY <1>0, <2>1, <2>3, ShownKeeps DEF CardsStay
    <2>5. LiveTypeOK'
      <3>1. FixesOK'
            BY <2>2, <2>3 DEF FixesOK
      <3>2. TrackerOK' /\ StreamOK' /\ OutputOK' /\ PollOK' /\ PastOK'
            BY <1>0, <2>1 DEF TrackerOK, StreamOK, OutputOK, PollOK, PastOK
      <3> QED
          BY <2>4, <3>1, <3>2, LiveTypes
    <2>6. ASSUME NEW f \in ended \ unseen PROVE card'[f].ended \/ OnItsWay(f)'
      <3>1. CASE card[f].ended
            BY <1>0, <2>4, <3>1 DEF CardsStay
      <3>2. ASSUME NEW i \in 1 .. Len(fixes), fixes[i].fix = f, fixes[i].terminal
            PROVE  card'[f].ended \/ OnItsWay(f)'
        <4>1. CASE i = 1
              BY <2>3, <2>4, <3>2, <4>1
        <4>2. CASE i # 1
          <5>1. i - 1 \in 1 .. Len(fixes') /\ fixes'[i - 1] = fixes[i]
                BY <2>2, <2>3, <4>2
          <5> QED
              BY <3>2, <5>1 DEF OnItsWay
        <4> QED
            BY <4>1, <4>2
      <3> QED
          BY <1>0, <3>1, <3>2 DEF EndIsComing, OnItsWay
    <2>7. EndIsComing' /\ Phases'
          BY <1>0, <2>1, <2>6 DEF EndIsComing, Phases
    <2> QED
        BY <2>4, <2>5, <2>7 DEF LiveIInv
  <1>4. CASE FollowOutput
    <2>1. /\ output # <<>> /\ Appended(Head(output)) /\ output' = Tail(output)
          /\ UNCHANGED <<state, over, printed, hpc, unwritten, fixes, lost, polling, poll, ended, unseen, holes>>
          BY <1>4 DEF FollowOutput, tracker, past
    <2>2. /\ output \in Seq(Output) /\ Len(output) \in Nat /\ Len(output) <= OutCap
          /\ OutCap \in Nat
          BY <1>0, LenProperties, LiveViewAssumption DEF LiveTypeOK
    <2>3. /\ Head(output) \in Output
          /\ output' \in Seq(Output) /\ Len(output') = Len(output) - 1
          BY <2>1, <2>2, HeadTailProperties
    <2>4. CardsOK' /\ \A f \in Fixes : card'[f].ended = card[f].ended
          BY <1>0, <2>1, <2>3, AppendedKeeps
    <2>5. LiveTypeOK'
      <3>1. OutputOK'
            BY <1>0, <2>1, <2>2, <2>3 DEF OutputOK
      <3>2. TrackerOK' /\ StreamOK' /\ FixesOK' /\ PollOK' /\ PastOK'
            BY <1>0, <2>1 DEF TrackerOK, StreamOK, FixesOK, PollOK, PastOK
      <3> QED
          BY <2>4, <3>1, <3>2, LiveTypes
    <2>6. EndIsComing' /\ Phases'
          BY <1>0, <2>1, <2>4 DEF EndIsComing, OnItsWay, Phases
    <2> QED
        BY <2>4, <2>5, <2>6 DEF LiveIInv, CardsStay
  <1> QED
      BY <1>1, <1>2, <1>3, <1>4

LEMMA LiveStep == LiveIInv /\ [LiveNext]_liveVars => LiveIInv' /\ CardsStay
  <1>1. ASSUME LiveIInv, LiveNext PROVE LiveIInv' /\ CardsStay
        BY <1>1, TrackerStep, StreamStep, DrawingStep DEF LiveNext
  <1>2. ASSUME LiveIInv, UNCHANGED liveVars PROVE LiveIInv' /\ CardsStay
    <2>1. UNCHANGED <<state, over, printed, hpc, unwritten, fixes, output, lost, card, polling,
                      poll, ended, unseen, holes>>
          BY <1>2 DEF liveVars, tracker, stream, console, past
    <2> QED
        BY <1>2, <2>1
           DEF LiveIInv, LiveTypeOK, Phases, EndIsComing, OnItsWay, CardsStay
  <1> QED
      BY <1>1, <1>2

LEMMA LiveInitially == LiveInit => LiveIInv
  <1> SUFFICES ASSUME LiveInit PROVE LiveIInv
      OBVIOUS
  <1>1. /\ fixes = <<>> /\ output = <<>> /\ NoCard \in Card /\ Len(NoCard.output) = 0
        /\ NoCard.output = <<>>
        BY EmptySeq, LiveViewAssumption DEF LiveInit, NoCard, Card
  <1>2. /\ fixes \in Seq(Transition) /\ Len(fixes) <= StateCap
        /\ output \in Seq(Output) /\ Len(output) <= OutCap
        BY <1>1, EmptySeq, LiveViewAssumption
  <1>3. card \in [Fixes -> Card] /\ \A f \in Fixes : Len(card[f].output) <= TailCap
        BY <1>1, LiveViewAssumption DEF LiveInit
  <1>4. LiveTypeOK
    <2>1. FixesOK /\ OutputOK /\ CardsOK
          BY <1>2, <1>3 DEF LiveInit, FixesOK, OutputOK, CardsOK
    <2>2. TrackerOK /\ PollOK
      <3>1. 0 \in 0 .. MaxStates /\ 0 \in 0 .. MaxLines
            BY LiveViewAssumption
      <3> QED
          BY <3>1 DEF LiveInit, TrackerOK, PollOK
    <2>3. StreamOK /\ PastOK
          BY DEF LiveInit, StreamOK, PastOK
    <2> QED
        BY <2>1, <2>2, <2>3, LiveTypes
  <1> QED
      BY <1>4 DEF LiveInit, LiveIInv, Phases, EndIsComing

\* The live view keeps its types and bounds - its channels to their capacities, the cards'
\* texts to their cap - and the end of a Fix on its way.
THEOREM LiveInvariance == LiveSpec => []LiveIInv
  BY LiveInitially, LiveStep, PTL DEF LiveSpec

\* A stream that has caught up has shown the end of every Fix that ended since it began
\* to listen, unless the channel was full then.
THEOREM EndIsAlwaysSeen == LiveSpec => []EndIsSeen
  <1>1. LiveIInv => EndIsSeen
    <2> SUFFICES ASSUME LiveIInv, fixes = <<>>, NEW f \in ended \ unseen PROVE card[f].ended
        BY DEF EndIsSeen
    <2>1. Len(fixes) = 0
          BY EmptySeq
    <2> QED
        BY <2>1 DEF LiveIInv, EndIsComing, OnItsWay
  <1> QED
      BY <1>1, LiveInvariance, PTL

\* No snapshot, poll or late transition opens again the card of a Fix that has ended.
THEOREM EndedCardsStay == LiveSpec => EndedStays
  <1>1. LiveIInv /\ [LiveNext]_liveVars
          => [\A f \in Fixes : card[f].ended => card'[f].ended]_liveVars
        BY LiveStep DEF CardsStay
  <1> QED
      BY <1>1, LiveInvariance, PTL DEF LiveSpec, EndedStays

-----------------------------------------------------------------------------
(* LiveView: the output *)

\* A text that ends with line x; one that line x continues
Ends(text, x) == text # <<>> /\ text[Len(text)] = x
Joins(text, x) == text = <<>> \/ x <= text[Len(text)] + 1

\* A message's own text has no hole, and what it continues gets none; a cut text ends as
\* it did.
LEMMA TextEnds ==
  ASSUME NEW o \in Output, o.from <= o.to
  PROVE  /\ Text(o) \in Seq(Lines) /\ Len(Text(o)) = o.to - o.from + 1
         /\ \A i \in 1 .. Len(Text(o)) : Text(o)[i] = o.from + i - 1
         /\ Contiguous(Text(o)) /\ Ends(Text(o), o.to)
  <1>1. o.from \in Nat /\ o.to \in Nat
        BY DEF Output, Lines
  <1>2. Text(o) \in Seq(Lines)
        BY TextIs
  <1> DEFINE n == o.to - o.from + 1
  <1>3. n \in Nat /\ n >= 1
        BY <1>1
  <1>4. Text(o) = [i \in 1 .. n |-> o.from + i - 1]
        BY DEF Text
  <1> HIDE DEF n
  <1>5. Len(Text(o)) = n /\ \A i \in 1 .. n : Text(o)[i] = o.from + i - 1
    <2>1. DOMAIN Text(o) = 1 .. n /\ Len(Text(o)) \in Nat /\ DOMAIN Text(o) = 1 .. Len(Text(o))
          BY <1>2, <1>4, LenProperties
    <2> QED
        BY <1>3, <1>4, <2>1
  <1>6. Contiguous(Text(o))
        BY <1>1, <1>3, <1>5 DEF Contiguous
  <1>7. Ends(Text(o), o.to)
    <2>1. Text(o)[n] = o.from + n - 1
          BY <1>3, <1>5
    <2>2. Text(o) # <<>>
          BY <1>3, <1>5, EmptySeq
    <2> QED
        BY <1>1, <1>3, <1>5, <2>1, <2>2 DEF Ends, n
  <1> QED
      BY <1>2, <1>5, <1>6, <1>7 DEF n

LEMMA CutEnds ==
  ASSUME NEW text \in Seq(Lines), NEW x, Contiguous(text), Ends(text, x)
  PROVE  Contiguous(Cut(text)) /\ Ends(Cut(text), x)
  <1>1. Len(text) \in Nat /\ TailCap \in Nat \ {0}
        BY LenProperties, LiveViewAssumption
  <1>2. CASE Len(text) > TailCap
    <2> DEFINE from == Len(text) - TailCap + 1
               cut == SubSeq(text, from, Len(text))
    <2>1. from \in Int /\ Len(text) \in Int /\ from \in 1 .. Len(text)
          BY <1>1, <1>2
    <2>2. \A i \in from .. Len(text) : text[i] \in Lines
          BY <1>1, <2>1, ElementOfSeq
    <2> HIDE DEF from
    <2>3. /\ cut \in Seq(Lines)
          /\ Len(cut) = IF from <= Len(text) THEN Len(text) - from + 1 ELSE 0
          /\ \A i \in 1 .. Len(text) - from + 1 : cut[i] = text[from + i - 1]
          BY <2>1, <2>2, SubSeqProperties
    <2>4. Cut(text) = cut
          BY <1>2 DEF Cut, from
    <2> HIDE DEF cut
    <2>5. Len(cut) = Len(text) - from + 1 /\ Len(cut) >= 1
          BY <1>1, <2>1, <2>3
    <2>6. Contiguous(cut)
      <3> SUFFICES ASSUME NEW i \in 1 .. Len(cut) - 1 PROVE cut[i + 1] <= cut[i] + 1
          BY DEF Contiguous
      <3>1. cut[i] = text[from + i - 1] /\ cut[i + 1] = text[from + (i + 1) - 1]
            BY <1>1, <2>1, <2>3, <2>5
      <3>2. from + i - 1 \in 1 .. Len(text) - 1 /\ from + (i + 1) - 1 = (from + i - 1) + 1
            BY <1>1, <2>1, <2>5
      <3> QED
          BY <3>1, <3>2 DEF Contiguous
    <2>7. Ends(cut, x)
      <3>1. cut[Len(cut)] = text[Len(text)]
        <4>1. Len(cut) \in 1 .. Len(text) - from + 1 /\ from + Len(cut) - 1 = Len(text)
              BY <1>1, <2>1, <2>5
        <4> QED
            BY <2>3, <4>1
      <3>2. cut # <<>>
            BY <2>5, EmptySeq
      <3> QED
          BY <3>1, <3>2 DEF Ends
    <2> QED
        BY <2>4, <2>6, <2>7
  <1>3. CASE ~(Len(text) > TailCap)
        BY <1>1, <1>3 DEF Cut
  <1> QED
      BY <1>2, <1>3

LEMMA JoinEnds ==
  ASSUME NEW text \in Seq(Lines), NEW o \in Output, o.from <= o.to, Contiguous(text),
         Joins(text, o.from)
  PROVE  /\ text \o Text(o) \in Seq(Lines)
         /\ Contiguous(text \o Text(o)) /\ Ends(text \o Text(o), o.to)
  <1> DEFINE whole == text \o Text(o)
             n == Len(Text(o))
  <1>1. /\ o.from \in Nat /\ o.to \in Nat /\ Len(text) \in Nat
        BY LenProperties DEF Output, Lines
  <1>2. /\ Text(o) \in Seq(Lines) /\ n = o.to - o.from + 1
        /\ \A i \in 1 .. n : Text(o)[i] = o.from + i - 1
        /\ Contiguous(Text(o)) /\ Ends(Text(o), o.to)
        BY TextEnds
  <1>3. n \in Nat /\ n >= 1
        BY <1>1, <1>2
  <1>4. /\ whole \in Seq(Lines) /\ Len(whole) = Len(text) + n
        /\ \A i \in 1 .. Len(text) + n :
             whole[i] = IF i <= Len(text) THEN text[i] ELSE Text(o)[i - Len(text)]
        BY <1>2, ConcatProperties
  <1> HIDE DEF whole, n
  <1>5. Contiguous(whole)
    <2> SUFFICES ASSUME NEW i \in 1 .. Len(whole) - 1 PROVE whole[i + 1] <= whole[i] + 1
        BY DEF Contiguous
    <2>1. CASE i + 1 <= Len(text)
      <3>1. whole[i] = text[i] /\ whole[i + 1] = text[i + 1] /\ i \in 1 .. Len(text) - 1
            BY <1>1, <1>3, <1>4, <2>1
      <3> QED
          BY <3>1 DEF Contiguous
    <2>2. CASE i = Len(text)
      <3>0. /\ i \in 1 .. Len(text) + n /\ i + 1 \in 1 .. Len(text) + n
            /\ ~(i + 1 <= Len(text)) /\ (i + 1) - Len(text) = 1 /\ i <= Len(text)
            BY <1>1, <1>3, <1>4, <2>2
      <3>1. whole[i] = text[Len(text)] /\ whole[i + 1] = Text(o)[1]
            BY <3>0, <1>4, <2>2
      <3>2. Text(o)[1] = o.from /\ text # <<>>
            BY <1>1, <1>2, <1>3, <2>2, EmptySeq
      <3> QED
          BY <3>1, <3>2 DEF Joins
    <2>3. CASE i > Len(text)
      <3>1. /\ whole[i] = Text(o)[i - Len(text)] /\ whole[i + 1] = Text(o)[(i + 1) - Len(text)]
            /\ i - Len(text) \in 1 .. n - 1 /\ (i + 1) - Len(text) = (i - Len(text)) + 1
            BY <1>1, <1>3, <1>4, <2>3
      <3> QED
          BY <1>2, <3>1 DEF Contiguous, n
    <2> QED
        BY <1>1, <1>3, <1>4, <2>1, <2>2, <2>3
  <1>6. Ends(whole, o.to)
    <2>1. whole[Len(whole)] = Text(o)[n] /\ whole # <<>>
      <3>1. Len(whole) \in 1 .. Len(text) + n /\ ~(Len(whole) <= Len(text))
              /\ Len(whole) - Len(text) = n
            BY <1>1, <1>3, <1>4
      <3>2. whole # <<>>
            BY <1>1, <1>3, <1>4, EmptySeq
      <3> QED
          BY <1>4, <3>1, <3>2
    <2> QED
        BY <1>2, <2>1 DEF Ends, n
  <1> QED
      BY <1>4, <1>5, <1>6 DEF whole

\* What waits in the channel and, at first, to be written: lines that were printed, in
\* order; and nobody has shown a line of a Fix that has printed none.
QueueTells ==
  /\ ~Listening => output = <<>>
  /\ \A j \in 1 .. Len(output) : /\ output[j].from <= output[j].to
                                 /\ output[j].to <= printed[output[j].fix]
  /\ \A i, j \in 1 .. Len(output) : i <= j /\ output[i].fix = output[j].fix =>
                                      output[i].to <= output[j].to
TailsTell ==
  /\ hpc = "writing tails" =>
       \A o \in unwritten : /\ o.snapshot /\ o.from <= o.to /\ o.to <= printed[o.fix]
                            /\ \A p \in unwritten : p.fix = o.fix => p = o
  /\ hpc = "live" => unwritten = {}
NothingYet == \A f \in Fixes : /\ state[f] = 0 => printed[f] = 0
                               /\ printed[f] = 0 => card[f].output = <<>>

\* Where f's messages are; and that line x continues what the card shows of f, or will
\* show when the snapshot is written.
At(f) == {j \in 1 .. Len(output) : output[j].fix = f}
Continues(f, x) == hpc \in {"writing tails", "live"} =>
  \/ \E o \in unwritten : o.fix = f /\ x <= o.to + 1
  \/ /\ \A o \in unwritten : o.fix # f
     /\ Contiguous(card[f].output) /\ Joins(card[f].output, x)

\* A message of f continues what is before it, or a whole tail comes with or after it; and
\* what f prints next will continue the last.
Linked(f, j) ==
  \/ \E k \in At(f) : k >= j /\ output[k].snapshot
  \/ \E i \in At(f) : i < j /\ output[j].from <= output[i].to + 1
  \/ (\A i \in At(f) : i >= j) /\ Continues(f, output[j].from)
UpToDate(f) == \/ \E j \in At(f) : output[j].to = printed[f]
               \/ At(f) = {} /\ Continues(f, printed[f] + 1)
Seamless(f) == (\A j \in At(f) : Linked(f, j)) /\ UpToDate(f)
Unbroken == Listening => \A f \in (Fixes \ over) \ holes : Seamless(f)

OutputIInv == QueueTells /\ TailsTell /\ NothingYet /\ Unbroken

LEMMA OutputInitially == LiveInit => OutputIInv
  <1> SUFFICES ASSUME LiveInit PROVE OutputIInv
      OBVIOUS
  <1>1. output = <<>> /\ Len(output) = 0 /\ hpc = "off" /\ NoCard.output = <<>>
        BY EmptySeq DEF LiveInit, NoCard
  <1>2. NothingYet
        BY <1>1 DEF LiveInit, NothingYet
  <1> QED
      BY <1>1, <1>2 DEF OutputIInv, QueueTells, TailsTell, Unbroken, Listening

\* Steps that leave output, and the texts of the cards, alone
LEMMA SameStays ==
  ASSUME OutputIInv, UNCHANGED <<hpc, unwritten, printed, output, holes>>,
         over \subseteq over', \A f \in Fixes : state'[f] = 0 => state[f] = 0,
         \A f \in Fixes : card'[f].output = card[f].output
  PROVE  OutputIInv'
  <1>1. QueueTells' /\ TailsTell' /\ NothingYet'
        BY ZenonT(60) DEF OutputIInv, QueueTells, TailsTell, NothingYet, Listening
  <1>2. ASSUME NEW f \in Fixes, Seamless(f) PROVE Seamless(f)'
    <2>1. At(f)' = At(f) /\ \A x : Continues(f, x) => Continues(f, x)'
          BY DEF At, Continues
    <2>2. \A j \in At(f) : Linked(f, j) => Linked(f, j)'
          BY <2>1 DEF Linked
    <2>3. UpToDate(f) => UpToDate(f)'
          BY <2>1 DEF UpToDate
    <2> QED
        BY <1>2, <2>1, <2>2, <2>3 DEF Seamless
  <1>3. Unbroken'
        BY <1>2 DEF OutputIInv, Unbroken, Listening
  <1> QED
      BY <1>1, <1>3 DEF OutputIInv

\* ... that end before the stream listens, or end the stream
LEMMA DeafStays ==
  ASSUME OutputIInv, UNCHANGED <<printed, state>>, output' = <<>>, ~Listening',
         \A f \in Fixes : card'[f].output = card[f].output
  PROVE  OutputIInv'
  <1>1. Len(output') = 0
        BY EmptySeq
  <1>2. OutputIInv'
    <2>1. QueueTells'
          BY <1>1 DEF QueueTells
    <2>2. TailsTell' /\ Unbroken'
          BY DEF TailsTell, Unbroken, Listening
    <2>3. NothingYet'
          BY DEF OutputIInv, NothingYet
    <2> QED
        BY <2>1, <2>2, <2>3 DEF OutputIInv
  <1> QED
      BY <1>2

\* The agent's next line
LEMMA AppendLineStays ==
  ASSUME LiveIInv, OutputIInv, NEW f \in Fixes, AppendLine(f)
  PROVE  OutputIInv'
  <1> DEFINE n == printed[f] + 1
             m == Message(f, n)
  <1>0. /\ TrackerOK /\ OutputOK /\ CardsOK /\ MaxLines \in Nat /\ TailCap \in Nat \ {0}
        /\ QueueTells /\ TailsTell /\ NothingYet /\ Unbroken /\ Len(output) \in Nat
        /\ output \in Seq(Output)
        BY LiveTypes, LiveViewAssumption, LenProperties DEF LiveIInv, OutputIInv, OutputOK
  <1>1. /\ f \in Active /\ printed' = [printed EXCEPT ![f] = n]
        /\ UNCHANGED <<state, over, hpc, unwritten, card>>
        BY DEF AppendLine, console
  <1>2. /\ printed \in [Fixes -> 0 .. MaxLines] /\ printed[f] \in 0 .. MaxLines
        /\ n \in 1 .. MaxLines /\ state[f] # 0 /\ f \notin over
    <2>1. printed \in [Fixes -> 0 .. MaxLines] /\ printed[f] < MaxLines /\ state[f] > 0
          BY <1>0 DEF AppendLine, TrackerOK, Active
    <2>2. state[f] \in Nat
          BY <1>0 DEF TrackerOK
    <2> QED
        BY <1>0, <1>1, <2>1, <2>2 DEF Active
  <1>3. /\ printed'[f] = n /\ printed[f] <= printed'[f]
        /\ \A g \in Fixes \ {f} : printed'[g] = printed[g]
        BY <1>1, <1>2
  <1>4. m \in Output /\ m.fix = f /\ m.to = n /\ m.from <= n /\ (m.from = n \/ m.snapshot)
        BY <1>0, <1>2 DEF Message, Whole, TailStart, Output, Lines
  <1>5. /\ lost => m.snapshot
        BY DEF Message, Whole
  <1> HIDE DEF n, m
  <1>6. NothingYet'
        BY <1>1, <1>2, <1>3, <1>0 DEF NothingYet
  <1>7. TailsTell'
    <2>1. ASSUME hpc = "writing tails", NEW o \in unwritten PROVE o.to <= printed'[o.fix]
      <3>1. o \in Output /\ o.to <= printed[o.fix]
            BY <1>0, <2>1 DEF LiveIInv, Phases, TailsTell
      <3>2. o.fix \in Fixes /\ o.to \in Nat
            BY <3>1 DEF Output, Lines
      <3> QED
          BY <1>2, <1>3, <3>1, <3>2
    <2> QED
        BY <1>0, <1>1, <2>1 DEF TailsTell
  <1>8. CASE output' = output /\ (Listening => f \in holes') /\ holes \subseteq holes'
    <2>1. QueueTells'
      <3>1. ASSUME NEW j \in 1 .. Len(output)
            PROVE  /\ output[j].from <= output[j].to
                   /\ output[j].to <= printed'[output[j].fix]
        <4>1. output[j] \in Output
              BY <1>0, ElementOfSeq
        <4>2. /\ output[j].fix \in Fixes /\ output[j].to \in Nat
              /\ output[j].to <= printed[output[j].fix] /\ output[j].from <= output[j].to
              BY <1>0, <4>1 DEF Output, Lines, QueueTells
        <4> QED
            BY <1>2, <1>3, <4>2
      <3> QED
          BY <1>0, <1>1, <1>8, <3>1, ZenonT(60) DEF QueueTells, Listening
    <2>2. ASSUME NEW g \in Fixes \ {f}, Seamless(g) PROVE Seamless(g)'
      <3>1. At(g)' = At(g) /\ \A x : Continues(g, x) => Continues(g, x)'
            BY <1>1, <1>8 DEF At, Continues
      <3>2. \A j \in At(g) : Linked(g, j) => Linked(g, j)'
            BY <1>8, <3>1 DEF Linked
      <3>3. UpToDate(g) => UpToDate(g)'
            BY <1>3, <1>8, <3>1 DEF UpToDate
      <3> QED
          BY <2>2, <3>1, <3>2, <3>3 DEF Seamless
    <2>3. Unbroken'
          BY <1>0, <1>1, <1>8, <2>2 DEF Unbroken, Listening
    <2> QED
        BY <1>6, <1>7, <2>1, <2>3 DEF OutputIInv
  <1>9. CASE /\ Listening /\ output' = Append(output, m)
             /\ holes' = IF lost THEN holes \ {f} ELSE holes
    <2>0. PICK end \in Nat : end = Len(output) + 1
          BY <1>0
    <2>1. /\ Len(output') = end /\ output'[end] = m /\ end \in Nat
          /\ \A j \in 1 .. Len(output) : output'[j] = output[j]
          BY <1>0, <1>4, <1>9, <2>0, AppendProperties
    <2>2. \A j \in 1 .. Len(output) : j < end /\ j \in 1 .. end
          BY <1>0, <2>0
    <2>3. \A j \in 1 .. end : j = end \/ j \in 1 .. Len(output)
          BY <1>0, <2>0
    <2>4. end \in 1 .. end
          BY <1>0, <2>0
    <2>5. ASSUME NEW j \in 1 .. Len(output)
          PROVE  /\ output[j].fix \in Fixes /\ output[j].from \in Nat /\ output[j].to \in Nat
                 /\ output[j].from <= output[j].to
                 /\ output[j].to <= printed[output[j].fix]
                 /\ output[j].to <= printed'[output[j].fix]
      <3>1. output[j] \in Output
            BY <1>0, ElementOfSeq
      <3>2. /\ output[j].fix \in Fixes /\ output[j].to \in Nat /\ output[j].from \in Nat
            /\ output[j].to <= printed[output[j].fix] /\ output[j].from <= output[j].to
            BY <1>0, <3>1 DEF Output, Lines, QueueTells
      <3> QED
          BY <1>2, <1>3, <3>2
    <2>6. QueueTells'
      <3>1. \A j \in 1 .. Len(output') : /\ output'[j].from <= output'[j].to
                                        /\ output'[j].to <= printed'[output'[j].fix]
        <4>1. ASSUME NEW j \in 1 .. Len(output)
              PROVE  /\ output'[j].from <= output'[j].to
                     /\ output'[j].to <= printed'[output'[j].fix]
              BY <2>1, <2>5
        <4>2. /\ output'[end].from <= output'[end].to
              /\ output'[end].to <= printed'[output'[end].fix]
              BY <1>2, <1>3, <1>4, <2>1
        <4> QED
            BY <2>1, <2>3, <4>1, <4>2
      <3>2. ASSUME NEW i \in 1 .. Len(output'), NEW j \in 1 .. Len(output'), i <= j,
                   output'[i].fix = output'[j].fix
            PROVE  output'[i].to <= output'[j].to
        <4>1. CASE i \in 1 .. Len(output) /\ j \in 1 .. Len(output)
              BY <1>0, <2>1, <3>2, <4>1 DEF QueueTells
        <4>2. CASE i \in 1 .. Len(output) /\ j = end
              BY <1>2, <1>3, <1>4, <2>1, <2>5, <3>2, <4>2
        <4>3. CASE i = end /\ j = end
              BY <1>2, <1>4, <2>1, <4>3
        <4>4. ~(i = end /\ j \in 1 .. Len(output))
              BY <1>0, <2>1, <2>2, <3>2
        <4> QED
            BY <2>1, <2>3, <4>1, <4>2, <4>3, <4>4
      <3> QED
          BY <1>1, <1>9, <3>1, <3>2 DEF QueueTells, Listening
    <2>7. ASSUME NEW g \in Fixes
          PROVE  /\ At(g) \subseteq At(g)' /\ At(g) \subseteq 1 .. Len(output)
                 /\ \A j \in At(g)' : j = end \/ j \in At(g)
                 /\ end \in At(g)' <=> g = f
          BY <1>4, <2>1, <2>2, <2>3, <2>4 DEF At
    <2>8. \A g \in Fixes : \A x : Continues(g, x) => Continues(g, x)'
          BY <1>1 DEF Continues
    <2>9. ASSUME NEW g \in Fixes, NEW j \in At(g), Linked(g, j) PROVE Linked(g, j)'
      <3>1. CASE \E k \in At(g) : k >= j /\ output[k].snapshot
            BY <2>1, <2>7, <3>1 DEF Linked
      <3>2. CASE \E i \in At(g) : i < j /\ output[j].from <= output[i].to + 1
            BY <2>1, <2>7, <3>2 DEF Linked
      <3>3. CASE (\A i \in At(g) : i >= j) /\ Continues(g, output[j].from)
        <4>1. end >= j /\ j \in 1 .. Len(output)
              BY <1>0, <2>0, <2>2, <2>7
        <4>2. \A i \in At(g)' : i >= j
              BY <2>7, <3>3, <4>1
        <4> QED
            BY <2>1, <2>8, <3>3, <4>1, <4>2 DEF Linked
      <3> QED
          BY <2>9, <3>1, <3>2, <3>3 DEF Linked
    <2>10. ASSUME NEW g \in Fixes \ {f}, Seamless(g) PROVE Seamless(g)'
      <3>1. At(g)' = At(g)
            BY <2>7
      <3>2. UpToDate(g)'
            BY <1>3, <2>1, <2>7, <2>8, <2>10, <3>1 DEF UpToDate, Seamless
      <3> QED
          BY <2>9, <2>10, <3>1, <3>2 DEF Seamless
    <2>11. UpToDate(f)'
           BY <1>3, <1>4, <2>1, <2>7 DEF UpToDate
    <2>12. ASSUME m.snapshot PROVE Seamless(f)'
      <3>1. \A j \in At(f)' : j <= end
            BY <2>1, <2>4 DEF At
      <3>2. \A j \in At(f)' : Linked(f, j)'
            BY <2>1, <2>7, <2>12, <3>1 DEF Linked
      <3> QED
          BY <2>11, <3>2 DEF Seamless
    <2>13. ASSUME ~m.snapshot, Seamless(f) PROVE Seamless(f)'
      <3>1. m.from = n /\ n = printed[f] + 1
            BY <1>4, <2>13 DEF n
      <3>2. Linked(f, end)'
        <4>1. CASE \E j \in At(f) : output[j].to = printed[f]
              BY <1>2, <2>1, <2>2, <2>7, <3>1, <4>1 DEF Linked
        <4>2. CASE At(f) = {} /\ Continues(f, printed[f] + 1)
          <5>1. \A i \in At(f)' : i >= end
                BY <2>1, <2>7, <4>2
          <5> QED
              BY <2>1, <2>8, <3>1, <4>2, <5>1 DEF Linked
        <4> QED
            BY <2>13, <4>1, <4>2 DEF Seamless, UpToDate
      <3>3. \A j \in At(f)' : Linked(f, j)'
            BY <2>7, <2>9, <2>13, <3>2 DEF Seamless
      <3> QED
          BY <2>11, <3>3 DEF Seamless
    <2>14. Unbroken'
      <3> SUFFICES ASSUME NEW g \in (Fixes \ over') \ holes' PROVE Seamless(g)'
          BY DEF Unbroken
      <3>1. CASE g # f
        <4>1. Seamless(g)
              BY <1>0, <1>1, <1>9, <3>1 DEF Unbroken
        <4> QED
            BY <2>10, <3>1, <4>1
      <3>2. CASE g = f /\ m.snapshot
            BY <2>12, <3>2
      <3>3. CASE g = f /\ ~m.snapshot
        <4>1. f \notin holes
              BY <1>5, <1>9, <3>3
        <4>2. Seamless(f)
              BY <1>0, <1>1, <1>9, <3>3, <4>1 DEF Unbroken
        <4> QED
            BY <2>13, <3>3, <4>2
      <3> QED
          BY <3>1, <3>2, <3>3
    <2> QED
        BY <1>6, <1>7, <2>6, <2>14 DEF OutputIInv
  <1>10. \/ output' = output /\ (Listening => f \in holes') /\ holes \subseteq holes'
         \/ /\ Listening /\ output' = Append(output, m)
            /\ holes' = IF lost THEN holes \ {f} ELSE holes
         BY DEF AppendLine, m, n
  <1> QED
      BY <1>8, <1>9, <1>10

\* The subscription, before the snapshot: nothing has been sent.
LEMMA SubscribeStays ==
  ASSUME OutputIInv, SubscribeOutput
  PROVE  OutputIInv'
  <1>1. /\ hpc = "output" /\ hpc' = "tails"
        /\ UNCHANGED <<state, over, printed, unwritten, output, card, holes>>
        BY DEF SubscribeOutput, tracker, console, past
  <1>2. output = <<>> /\ Len(output) = 0
        BY <1>1, EmptySeq DEF OutputIInv, QueueTells, Listening
  <1>3. QueueTells' /\ TailsTell' /\ NothingYet'
        BY <1>1, <1>2 DEF OutputIInv, QueueTells, TailsTell, NothingYet
  <1>4. \A f \in Fixes : At(f)' = {} /\ \A x : Continues(f, x)'
        BY <1>1, <1>2 DEF At, Continues
  <1>5. \A f \in Fixes : Seamless(f)'
    <2> TAKE f \in Fixes
    <2>1. UpToDate(f)'
          BY <1>4 DEF UpToDate
    <2> QED
        BY <1>4, <2>1 DEF Seamless
  <1> QED
      BY <1>3, <1>5 DEF OutputIInv, Unbroken

\* The snapshot has all that was printed, and what is in the channel by then continues it.
LEMMA SnapshotStays ==
  ASSUME LiveIInv, OutputIInv, SnapshotTails
  PROVE  OutputIInv'
  <1>0. /\ TrackerOK /\ OutputOK /\ CardsOK /\ QueueTells /\ NothingYet /\ Unbroken
        /\ MaxLines \in Nat /\ TailCap \in Nat \ {0} /\ output \in Seq(Output)
        /\ Len(output) \in Nat
        BY LiveTypes, LiveViewAssumption, LenProperties DEF LiveIInv, OutputIInv, OutputOK
  <1>1. /\ hpc = "tails" /\ hpc' = "writing tails"
        /\ unwritten' = {Whole(f, printed[f]) : f \in {g \in Active : printed[g] > 0}}
        /\ UNCHANGED <<state, over, printed, output, card, holes>>
        BY DEF SnapshotTails, tracker, console, past
  <1>2. \A f \in Fixes : printed[f] \in 0 .. MaxLines /\ state[f] \in 0 .. MaxStates
        BY <1>0 DEF TrackerOK
  <1>3. ASSUME NEW f \in Fixes
        PROVE  /\ Whole(f, printed[f]).fix = f /\ Whole(f, printed[f]).to = printed[f]
               /\ Whole(f, printed[f]).snapshot
               /\ printed[f] > 0 => Whole(f, printed[f]).from <= printed[f]
        BY <1>0, <1>2 DEF Whole, TailStart
  <1>4. ASSUME NEW o \in unwritten'
        PROVE  o.fix \in Active /\ printed[o.fix] > 0 /\ o = Whole(o.fix, printed[o.fix])
    <2>1. PICK f \in Active : printed[f] > 0 /\ o = Whole(f, printed[f])
          BY <1>1
    <2> QED
        BY <2>1, <1>3 DEF Active
  <1>5. TailsTell'
    <2>1. ASSUME NEW o \in unwritten'
          PROVE  /\ o.snapshot /\ o.from <= o.to /\ o.to <= printed[o.fix]
                 /\ \A p \in unwritten' : p.fix = o.fix => p = o
      <3>1. o.fix \in Fixes /\ printed[o.fix] > 0 /\ o = Whole(o.fix, printed[o.fix])
            BY <1>4, <2>1 DEF Active
      <3>2. o.snapshot /\ o.from <= o.to /\ o.to = printed[o.fix]
            BY <1>3, <3>1
      <3>3. printed[o.fix] <= printed[o.fix]
            BY <1>2, <3>1
      <3> QED
          BY <1>4, <3>1, <3>2, <3>3
    <2> QED
        BY <1>1, <2>1 DEF TailsTell
  <1>6. QueueTells' /\ NothingYet'
        BY <1>0, <1>1, ZenonT(60) DEF QueueTells, NothingYet, Listening
  <1>7. ASSUME NEW f \in Fixes \ over, NEW x \in Int, x <= printed[f] + 1
        PROVE  Continues(f, x)'
    <2>1. CASE printed[f] = 0
      <3>1. card[f].output = <<>> /\ Len(card[f].output) = 0
            BY <1>0, <2>1, EmptySeq DEF NothingYet
      <3>2. Contiguous(card[f].output) /\ Joins(card[f].output, x)
            BY <3>1 DEF Contiguous, Joins
      <3>3. \A o \in unwritten' : o.fix # f
            BY <1>4, <2>1
      <3> QED
          BY <1>1, <3>2, <3>3 DEF Continues
    <2>2. CASE printed[f] # 0
      <3>1. printed[f] > 0 /\ f \in Active
        <4>1. state[f] # 0
              BY <1>0, <2>2 DEF NothingYet
        <4> QED
            BY <1>2, <2>2, <4>1 DEF Active
      <3>2. Whole(f, printed[f]) \in unwritten'
            BY <1>1, <3>1
      <3> QED
          BY <1>3, <1>7, <3>2 DEF Continues
    <2> QED
        BY <2>1, <2>2
  <1>8. ASSUME NEW f \in (Fixes \ over) \ holes PROVE Seamless(f)'
    <2>1. At(f)' = At(f) /\ Seamless(f)
          BY <1>0, <1>1 DEF At, Unbroken, Listening
    <2>2. ASSUME NEW j \in At(f) PROVE Linked(f, j)'
      <3>1. output[j].from \in Int /\ output[j].from <= printed[f] + 1
        <4>1. j \in 1 .. Len(output) /\ output[j].fix = f
              BY DEF At
        <4>2. output[j] \in Output
              BY <1>0, <4>1, ElementOfSeq
        <4>3. output[j].from \in Nat /\ output[j].to \in Nat
              BY <4>2 DEF Output, Lines
        <4>4. output[j].from <= output[j].to /\ output[j].to <= printed[f]
              BY <1>0, <4>1 DEF QueueTells
        <4> QED
            BY <1>2, <4>3, <4>4
      <3>2. Continues(f, output[j].from)'
            BY <1>1, <1>7, <3>1
      <3>3. Linked(f, j)
            BY <2>1 DEF Seamless
      <3> QED
          BY <1>1, <2>1, <3>2, <3>3 DEF Linked
    <2>3. UpToDate(f)'
      <3>1. Continues(f, printed[f] + 1)'
        <4>1. printed[f] + 1 \in Int /\ printed[f] + 1 <= printed[f] + 1
              BY <1>2
        <4> QED
            BY <1>1, <1>7, <4>1
      <3> QED
          BY <1>1, <2>1, <3>1 DEF Seamless, UpToDate
    <2> QED
        BY <2>1, <2>2, <2>3 DEF Seamless
  <1>9. Unbroken'
        BY <1>1, <1>8 DEF Unbroken
  <1> QED
      BY <1>5, <1>6, <1>9 DEF OutputIInv

\* A tail that is written is what the card shows, to its end.
LEMMA WriteTailStays ==
  ASSUME LiveIInv, OutputIInv, WriteTail
  PROVE  OutputIInv'
  <1>0. /\ CardsOK /\ Phases /\ QueueTells /\ TailsTell /\ NothingYet /\ Unbroken /\ TrackerOK
        BY LiveTypes DEF LiveIInv, OutputIInv
  <1>1. /\ hpc = "writing tails"
        /\ UNCHANGED <<state, over, printed, output, holes>>
        BY DEF WriteTail, tracker, past
  <1>2. \A f \in Fixes : At(f)' = At(f)
        BY <1>1 DEF At
  <1>3. ASSUME \A f \in Fixes \ over : \A x \in Int : Continues(f, x) => Continues(f, x)',
               hpc' \in {"writing tails", "live"}
        PROVE  Unbroken'
    <2> SUFFICES ASSUME NEW f \in (Fixes \ over) \ holes PROVE Seamless(f)'
        BY <1>1, <1>3 DEF Unbroken
    <2>1. Seamless(f) /\ output \in Seq(Output) /\ printed[f] \in Int
      <3>1. Seamless(f)
            BY <1>0, <1>1 DEF Unbroken, Listening
      <3>2. output \in Seq(Output)
            BY LiveTypes DEF LiveIInv, OutputOK
      <3>3. printed[f] \in Int
            BY <1>0 DEF TrackerOK
      <3> QED
          BY <3>1, <3>2, <3>3
    <2>2. ASSUME NEW j \in At(f) PROVE Linked(f, j)'
      <3>1. output[j].from \in Int
        <4>1. output[j] \in Output
              BY <2>1, ElementOfSeq DEF At
        <4> QED
            BY <4>1 DEF Output, Lines
      <3>2. Continues(f, output[j].from) => Continues(f, output[j].from)'
            BY <1>1, <1>3, <3>1
      <3>3. Linked(f, j)
            BY <2>1 DEF Seamless
      <3> QED
          BY <1>1, <1>2, <3>2, <3>3 DEF Linked
    <2>3. UpToDate(f)'
      <3>1. UpToDate(f) /\ printed[f] + 1 \in Int
            BY <2>1 DEF Seamless
      <3>2. Continues(f, printed[f] + 1) => Continues(f, printed[f] + 1)'
        <4>1. PICK x \in Int : x = printed[f] + 1
              BY <3>1
        <4>2. Continues(f, x) => Continues(f, x)'
              BY <1>3
        <4> QED
            BY <1>1, <4>1, <4>2
      <3> QED
          BY <1>1, <1>2, <3>1, <3>2 DEF UpToDate
    <2> QED
        BY <1>2, <2>2, <2>3 DEF Seamless
  <1>4. CASE unwritten = {} /\ hpc' = "live" /\ UNCHANGED <<card, unwritten>>
    <2>1. \A f \in Fixes : \A x : Continues(f, x) => Continues(f, x)'
          BY <1>1, <1>4 DEF Continues
    <2>2. QueueTells' /\ TailsTell' /\ NothingYet'
          BY <1>0, <1>1, <1>4, ZenonT(60) DEF QueueTells, TailsTell, NothingYet, Listening
    <2> QED
        BY <1>3, <1>4, <2>1, <2>2 DEF OutputIInv
  <1>5. ASSUME NEW o \in unwritten, Appended(o), unwritten' = unwritten \ {o}, hpc' = hpc
        PROVE  OutputIInv'
    <2>1. /\ o \in Output /\ o.fix \in Fixes /\ o.snapshot /\ o.from <= o.to
          /\ \A p \in unwritten : p.fix = o.fix => p = o
          BY <1>0, <1>1 DEF Phases, TailsTell, Output
    <2>2. /\ card'[o.fix].output = Cut(Text(o))
          /\ \A f \in Fixes \ {o.fix} : card'[f].output = card[f].output
          BY <1>0, <1>5, <2>1, AppendedKeeps
    <2>3. Contiguous(card'[o.fix].output) /\ Ends(card'[o.fix].output, o.to)
          BY <2>1, <2>2, TextEnds, CutEnds
    <2>4. ASSUME NEW f \in Fixes, NEW x \in Int, Continues(f, x) PROVE Continues(f, x)'
      <3>1. CASE f = o.fix
        <4>1. x <= o.to + 1
              BY <1>1, <2>1, <2>4, <3>1 DEF Continues
        <4>2. \A p \in unwritten' : p.fix # f
              BY <1>5, <2>1, <3>1
        <4>3. Joins(card'[f].output, x)
              BY <2>3, <3>1, <4>1 DEF Ends, Joins
        <4> QED
            BY <2>3, <3>1, <4>2, <4>3 DEF Continues
      <3>2. CASE f # o.fix
        <4>1. card'[f].output = card[f].output
              BY <2>2, <3>2
        <4>2. CASE \E p \in unwritten : p.fix = f /\ x <= p.to + 1
              BY <1>5, <3>2, <4>2 DEF Continues
        <4>3. CASE /\ \A p \in unwritten : p.fix # f
                   /\ Contiguous(card[f].output) /\ Joins(card[f].output, x)
              BY <1>5, <4>1, <4>3 DEF Continues
        <4> QED
            BY <1>1, <2>4, <4>2, <4>3 DEF Continues
      <3> QED
          BY <3>1, <3>2
    <2>5. TailsTell' /\ QueueTells'
          BY <1>0, <1>1, <1>5, ZenonT(60) DEF QueueTells, TailsTell, Listening
    <2>6. NothingYet'
      <3>1. printed[o.fix] # 0
        <4>1. o.to \in 1 .. MaxLines /\ o.to <= printed[o.fix]
              BY <1>0, <1>1, <2>1 DEF Output, Lines, TailsTell
        <4> QED
            BY <1>0, <2>1, <4>1, LiveViewAssumption DEF TrackerOK
      <3> QED
          BY <1>0, <1>1, <2>1, <2>2, <3>1 DEF NothingYet
    <2> QED
        BY <1>1, <1>3, <1>5, <2>4, <2>5, <2>6 DEF OutputIInv
  <1> QED
      BY <1>4, <1>5 DEF WriteTail

\* A message that is drawn: of its Fix, the card now ends where it does, unless a whole tail
\* comes after it.
LEMMA FollowOutputStays ==
  ASSUME LiveIInv, OutputIInv, FollowOutput
  PROVE  OutputIInv'
  <1> DEFINE h == Head(output)
  <1>0. /\ CardsOK /\ QueueTells /\ TailsTell /\ NothingYet /\ Unbroken /\ TrackerOK
        /\ output \in Seq(Output) /\ Len(output) \in Nat /\ MaxLines \in Nat
        BY LiveTypes, LenProperties, LiveViewAssumption DEF LiveIInv, OutputIInv, OutputOK
  <1>1. /\ hpc = "live" /\ hpc' = "live" /\ output # <<>> /\ output' = Tail(output) /\ Appended(h)
        /\ UNCHANGED <<state, over, printed, unwritten, holes>> /\ unwritten = {}
        BY <1>0 DEF FollowOutput, tracker, past, TailsTell
  <1>2. PICK last \in Nat : last = Len(output) /\ last >= 1
    <2>1. Len(output) \in Nat \ {0}
          BY <1>0, <1>1, EmptySeq
    <2> QED
        BY <2>1
  <1>3. /\ h \in Output /\ h = output[1] /\ Len(output') = last - 1
        /\ \A j \in 1 .. last - 1 : output'[j] = output[j + 1]
    <2>1. /\ Head(output) \in Output /\ Tail(output) \in Seq(Output)
          /\ Len(Tail(output)) = Len(output) - 1
          /\ \A i \in 1 .. Len(Tail(output)) : Tail(output)[i] = output[i + 1]
          BY <1>0, <1>1, HeadTailProperties
    <2> QED
        BY <1>0, <1>1, <1>2, <2>1
  <1>4. ASSUME NEW j \in 1 .. last
        PROVE  /\ output[j] \in Output /\ output[j].fix \in Fixes
               /\ output[j].from \in Nat /\ output[j].to \in Nat /\ output[j].to >= 1
               /\ output[j].from <= output[j].to /\ output[j].to <= printed[output[j].fix]
    <2>1. output[j] \in Output
          BY <1>0, <1>2, <1>4, ElementOfSeq
    <2> QED
        BY <1>0, <1>2, <2>1 DEF Output, Lines, QueueTells
  <1>5. /\ h.fix \in Fixes /\ h.from <= h.to /\ h.to >= 1 /\ h.to <= printed[h.fix]
        /\ h.from \in Nat /\ h.to \in Nat
    <2>1. 1 \in 1 .. last
          BY <1>2
    <2> QED
        BY <1>3, <1>4, <2>1
  <1>6. /\ card'[h.fix].output =
             Cut(IF h.snapshot THEN Text(h) ELSE card[h.fix].output \o Text(h))
        /\ \A f \in Fixes \ {h.fix} : card'[f].output = card[f].output
        BY <1>0, <1>1, <1>3, AppendedKeeps
  <1> HIDE DEF h
  <1>7. QueueTells'
    <2>1. \A j \in 1 .. last - 1 : j + 1 \in 1 .. last
          BY <1>2
    <2>2. \A j \in 1 .. Len(output') : /\ output'[j].from <= output'[j].to
                                      /\ output'[j].to <= printed'[output'[j].fix]
          BY <1>1, <1>3, <1>4, <2>1
    <2>3. \A i, j \in 1 .. Len(output') : i <= j /\ output'[i].fix = output'[j].fix =>
                                            output'[i].to <= output'[j].to
      <3> SUFFICES ASSUME NEW i \in 1 .. last - 1, NEW j \in 1 .. last - 1, i <= j,
                          output'[i].fix = output'[j].fix
                   PROVE  output'[i].to <= output'[j].to
          BY <1>3
      <3>1. /\ i + 1 \in 1 .. Len(output) /\ j + 1 \in 1 .. Len(output) /\ i + 1 <= j + 1
            /\ output'[i] = output[i + 1] /\ output'[j] = output[j + 1]
            BY <1>2, <1>3, <2>1
      <3> QED
          BY <1>0, <3>1 DEF QueueTells
    <2> QED
        BY <1>1, <2>2, <2>3 DEF QueueTells, Listening
  <1>8. TailsTell'
        BY <1>1 DEF TailsTell
  <1>9. NothingYet'
    <2>1. printed[h.fix] # 0
          BY <1>0, <1>5 DEF TrackerOK
    <2> QED
        BY <1>0, <1>1, <1>5, <1>6, <2>1 DEF NothingYet
  \* What is in the channel still, by where it was
  <1>10. ASSUME NEW f \in Fixes
         PROVE  /\ At(f) \subseteq 1 .. last
                /\ \A j \in At(f)' : j + 1 \in At(f) /\ output'[j] = output[j + 1]
                                     /\ j \in 1 .. last - 1
                /\ \A j \in At(f) : j # 1 => /\ j - 1 \in At(f)' /\ output'[j - 1] = output[j]
                /\ 1 \in At(f) <=> f = h.fix
    <2>1. At(f) = {j \in 1 .. last : output[j].fix = f}
          BY <1>2 DEF At
    <2>2. At(f)' = {j \in 1 .. last - 1 : output'[j].fix = f}
          BY <1>3 DEF At
    <2>3. \A j \in 1 .. last - 1 : j + 1 \in 1 .. last /\ output'[j] = output[j + 1]
          BY <1>2, <1>3
    <2>4. ASSUME NEW j \in 1 .. last, j # 1
          PROVE  j - 1 \in 1 .. last - 1 /\ output'[j - 1] = output[j]
      <3>1. j - 1 \in 1 .. last - 1 /\ (j - 1) + 1 = j
            BY <1>2, <2>4
      <3> QED
          BY <1>3, <3>1
    <2>5. 1 \in 1 .. last
          BY <1>2
    <2> QED
        BY <1>3, <2>1, <2>2, <2>3, <2>4, <2>5
  <1>11. \A f \in Fixes : \A i, j \in At(f) : i <= j => output[i].to <= output[j].to
    <2> SUFFICES ASSUME NEW f \in Fixes, NEW i \in At(f), NEW j \in At(f), i <= j
                 PROVE  output[i].to <= output[j].to
        OBVIOUS
    <2>1. /\ i \in 1 .. Len(output) /\ j \in 1 .. Len(output)
          /\ output[i].fix = f /\ output[j].fix = f
          BY DEF At
    <2> QED
        BY <1>0, <2>1 DEF QueueTells
  <1>12. ASSUME NEW f \in Fixes, f # h.fix, Seamless(f) PROVE Seamless(f)'
    <2>1. \A x : Continues(f, x) => Continues(f, x)'
          BY <1>1, <1>6, <1>12 DEF Continues
    <2>2. \A j \in At(f) : j # 1
          BY <1>10, <1>12
    <2>3. ASSUME NEW j \in At(f)' PROVE Linked(f, j)'
      <3>1. j + 1 \in At(f) /\ output'[j] = output[j + 1] /\ Linked(f, j + 1) /\ j \in Nat
            BY <1>2, <1>10, <1>12, <2>3 DEF Seamless
      <3>2. CASE \E k \in At(f) : k >= j + 1 /\ output[k].snapshot
        <4>1. PICK k \in At(f) : k >= j + 1 /\ output[k].snapshot
              BY <3>2
        <4>2. k - 1 \in At(f)' /\ k - 1 >= j /\ output'[k - 1].snapshot
              BY <1>2, <1>10, <2>2, <3>1, <4>1
        <4> QED
            BY <4>2 DEF Linked
      <3>3. CASE \E i \in At(f) : i < j + 1 /\ output[j + 1].from <= output[i].to + 1
        <4>1. PICK i \in At(f) : i < j + 1 /\ output[j + 1].from <= output[i].to + 1
              BY <3>3
        <4>2. i - 1 \in At(f)' /\ i - 1 < j /\ output'[i - 1] = output[i]
              BY <1>2, <1>10, <2>2, <3>1, <4>1
        <4> QED
            BY <3>1, <4>1, <4>2 DEF Linked
      <3>4. CASE (\A i \in At(f) : i >= j + 1) /\ Continues(f, output[j + 1].from)
        <4>1. \A i \in At(f)' : i >= j
          <5> TAKE i \in At(f)'
          <5>1. i + 1 >= j + 1 /\ i \in Nat
                BY <1>2, <1>10, <3>4
          <5> QED
              BY <3>1, <5>1
        <4> QED
            BY <2>1, <3>1, <3>4, <4>1 DEF Linked
      <3> QED
          BY <3>1, <3>2, <3>3, <3>4 DEF Linked
    <2>4. UpToDate(f)'
      <3>1. CASE \E j \in At(f) : output[j].to = printed[f]
        <4>1. PICK j \in At(f) : output[j].to = printed[f]
              BY <3>1
        <4>2. j - 1 \in At(f)' /\ output'[j - 1] = output[j]
              BY <1>10, <2>2
        <4>3. output'[j - 1].to = printed'[f]
              BY <1>1, <4>1, <4>2
        <4> QED
            BY <4>2, <4>3 DEF UpToDate
      <3>2. CASE At(f) = {} /\ Continues(f, printed[f] + 1)
        <4>1. At(f)' = {}
              BY <1>10, <3>2
        <4>2. PICK x : x = printed[f] + 1
              OBVIOUS
        <4>3. Continues(f, x)' /\ x = printed'[f] + 1
              BY <1>1, <2>1, <3>2, <4>2
        <4>4. Continues(f, printed[f] + 1)'
              BY <4>3
        <4> QED
            BY <4>1, <4>4 DEF UpToDate
      <3> QED
          BY <1>12, <3>1, <3>2 DEF Seamless, UpToDate
    <2> QED
        BY <2>3, <2>4 DEF Seamless
  <1>13. ASSUME NEW f \in Fixes, f = h.fix, Seamless(f) PROVE Seamless(f)'
    <2>0. 1 \in At(f) /\ Linked(f, 1) /\ UpToDate(f) /\ \A j \in At(f) : j >= 1 /\ j \in Nat
          BY <1>2, <1>10, <1>13 DEF Seamless
    \* The card now ends where the message does, or a whole tail comes.
    <2>1. \/ \E k \in At(f) : k > 1 /\ output[k].snapshot
          \/ \A x \in Int : x <= h.to + 1 => Continues(f, x)'
      <3>1. CASE h.snapshot
        <4>1. Contiguous(card'[f].output) /\ Ends(card'[f].output, h.to)
              BY <1>3, <1>5, <1>6, <1>13, <3>1, TextEnds, CutEnds
        <4> QED
            BY <1>1, <4>1 DEF Continues, Ends, Joins
      <3>2. CASE ~h.snapshot /\ Continues(f, output[1].from)
        <4>1. Contiguous(card[f].output) /\ Joins(card[f].output, h.from)
              BY <1>1, <1>3, <3>2 DEF Continues
        <4>2. card[f].output \in Seq(Lines)
              BY <1>0 DEF CardsOK, Card
        <4>3. Contiguous(card'[f].output) /\ Ends(card'[f].output, h.to)
              BY <1>3, <1>5, <1>6, <1>13, <3>2, <4>1, <4>2, JoinEnds, CutEnds, ZenonT(60)
        <4> QED
            BY <1>1, <4>3 DEF Continues, Ends, Joins
      <3>3. CASE \E k \in At(f) : k >= 1 /\ output[k].snapshot
            BY <1>3, <2>0, <3>1, <3>3
      <3>4. ~(\E i \in At(f) : i < 1 /\ output[1].from <= output[i].to + 1)
            BY <2>0
      <3> QED
          BY <1>3, <2>0, <3>1, <3>2, <3>3, <3>4 DEF Linked
    <2>2. ASSUME NEW j \in At(f)' PROVE Linked(f, j)'
      <3>1. /\ j + 1 \in At(f) /\ output'[j] = output[j + 1] /\ Linked(f, j + 1) /\ j \in Nat
            /\ output[j + 1].from \in Int /\ j + 1 # 1 /\ j >= 1
            /\ \A i \in At(f) : output[i].to \in Int
            BY <1>2, <1>4, <1>10, <1>13, <2>2 DEF Seamless
      <3>2. CASE \E k \in At(f) : k >= j + 1 /\ output[k].snapshot
        <4>1. PICK k \in At(f) : k >= j + 1 /\ output[k].snapshot
              BY <3>2
        <4>2. k - 1 \in At(f)' /\ k - 1 >= j /\ output'[k - 1].snapshot
              BY <1>2, <1>10, <2>0, <3>1, <4>1
        <4> QED
            BY <4>2 DEF Linked
      <3>3. ASSUME NEW i \in At(f), i # 1, i < j + 1, output[j + 1].from <= output[i].to + 1
            PROVE  Linked(f, j)'
        <4>1. i - 1 \in At(f)' /\ i - 1 < j /\ output'[i - 1] = output[i]
              BY <1>2, <1>10, <2>0, <3>1, <3>3
        <4> QED
            BY <3>1, <3>3, <4>1 DEF Linked
      <3>4. CASE output[j + 1].from <= output[1].to + 1
        <4>1. CASE \E i \in At(f) : i # 1 /\ i < j + 1
          <5>1. PICK i \in At(f) : i # 1 /\ i < j + 1
                BY <4>1
          <5>2. output[1].to <= output[i].to
                BY <1>11, <2>0
          <5>3. output[j + 1].from <= output[i].to + 1
                BY <2>0, <3>1, <3>4, <5>2
          <5> QED
              BY <3>3, <5>1, <5>3
        <4>2. CASE ~\E i \in At(f) : i # 1 /\ i < j + 1
          <5>1. CASE \E k \in At(f) : k > 1 /\ output[k].snapshot
            <6>1. PICK k \in At(f) : k > 1 /\ output[k].snapshot
                  BY <5>1
            <6>2. k >= j + 1
                  BY <2>0, <3>1, <4>2, <6>1
            <6> QED
                BY <3>2, <6>1, <6>2
          <5>2. CASE \A x \in Int : x <= h.to + 1 => Continues(f, x)'
            <6>1. \A i \in At(f)' : i >= j
              <7> TAKE i \in At(f)'
              <7>1. i + 1 \in At(f) /\ i \in Nat /\ i >= 1
                    BY <1>2, <1>10
              <7>2. ~(i + 1 < j + 1)
                    BY <4>2, <7>1
              <7> QED
                  BY <3>1, <7>1, <7>2
            <6>2. PICK x \in Int : x = output[j + 1].from
                  BY <3>1
            <6>3. Continues(f, x)'
                  BY <1>3, <3>4, <5>2, <6>2
            <6>4. Continues(f, output[j].from)'
                  BY <3>1, <6>2, <6>3
            <6> QED
                BY <6>1, <6>4 DEF Linked
          <5> QED
              BY <2>1, <5>1, <5>2
        <4> QED
            BY <4>1, <4>2
      <3>5. ~((\A i \in At(f) : i >= j + 1) /\ Continues(f, output[j + 1].from))
            BY <2>0, <3>1
      <3> QED
          BY <2>0, <3>1, <3>2, <3>3, <3>4, <3>5 DEF Linked
    <2>3. UpToDate(f)'
      <3>1. PICK j \in At(f) : output[j].to = printed[f]
            BY <2>0 DEF UpToDate
      <3>2. CASE \E k \in At(f) : k # 1
        <4>1. PICK k \in At(f) : k # 1 /\ k >= j
              BY <2>0, <3>2
        <4>2. output[k].to = printed[f]
          <5>1. output[j].to <= output[k].to
                BY <1>11, <4>1
          <5>2. output[k].to <= printed[f] /\ output[k].to \in Int /\ output[j].to \in Int
                BY <1>4, <1>10 DEF At
          <5> QED
              BY <3>1, <5>1, <5>2
        <4> QED
            BY <1>1, <1>10, <4>1, <4>2, ZenonT(60) DEF UpToDate
      <3>3. CASE \A k \in At(f) : k = 1
        <4>1. At(f)' = {}
          <5> SUFFICES ASSUME NEW i \in At(f)' PROVE FALSE
              OBVIOUS
          <5>1. i + 1 \in At(f) /\ i \in 1 .. last - 1
                BY <1>10
          <5> QED
              BY <1>2, <3>3, <5>1
        <4>2. printed[f] = h.to
              BY <1>3, <3>1, <3>3
        <4>3. \A x \in Int : x <= h.to + 1 => Continues(f, x)'
              BY <2>1, <3>3
        <4>4. PICK x \in Int : x = h.to + 1
              BY <1>5
        <4>5. Continues(f, x)' /\ x = printed'[f] + 1
              BY <1>1, <4>2, <4>3, <4>4
        <4>6. Continues(f, printed[f] + 1)'
              BY <4>5
        <4> QED
            BY <4>1, <4>6 DEF UpToDate
      <3> QED
          BY <3>2, <3>3
    <2> QED
        BY <2>2, <2>3 DEF Seamless
  <1>14. Unbroken'
         BY <1>0, <1>1, <1>12, <1>13 DEF Unbroken, Listening
  <1> QED
      BY <1>7, <1>8, <1>9, <1>14 DEF OutputIInv

LEMMA OutputStep == LiveIInv /\ OutputIInv /\ [LiveNext]_liveVars => OutputIInv'
  <1> SUFFICES ASSUME LiveIInv, OutputIInv, [LiveNext]_liveVars PROVE OutputIInv'
      OBVIOUS
  <1>0. /\ CardsOK /\ FixesOK /\ PollOK /\ TrackerOK /\ Phases
        BY LiveTypes DEF LiveIInv
  <1>1. ASSUME NEW f \in Fixes, Enter(f) PROVE OutputIInv'
    <2>1. /\ UNCHANGED <<over, printed, hpc, unwritten, output, card, holes>>
          /\ state' = [state EXCEPT ![f] = state[f] + 1] /\ state[f] \in Nat
          BY <1>0, <1>1 DEF Enter, console, TrackerOK
    <2>2. \A g \in Fixes : state'[g] = 0 => state[g] = 0
          BY <1>0, <2>1 DEF TrackerOK
    <2> QED
        BY <2>1, <2>2, SameStays
  <1>2. ASSUME NEW f \in Fixes, EndFix(f) PROVE OutputIInv'
    <2>1. /\ UNCHANGED <<state, printed, hpc, unwritten, output, card, holes>>
          /\ over \subseteq over'
          BY <1>2 DEF EndFix, console
    <2> QED
        BY <2>1, SameStays
  <1>3. ASSUME NEW f \in Fixes, AppendLine(f) PROVE OutputIInv'
        BY <1>3, AppendLineStays
  <1>4. CASE PollAsk
        BY <1>4, SameStays DEF PollAsk, tracker, stream, past
  <1>5. CASE PollAnswer
    <2>1. \A f \in Fixes : card'[f].output = card[f].output
          BY <1>0, <1>5, SeededKeeps DEF PollAnswer, PollOK
    <2> QED
        BY <1>5, <2>1, SameStays DEF PollAnswer, tracker, stream, past
  <1>6. CASE FollowState
    <2>1. Head(fixes) \in Transition
          BY <1>0, <1>6, HeadTailProperties DEF FollowState, FixesOK
    <2>2. \A f \in Fixes : card'[f].output = card[f].output
          BY <1>0, <1>6, <2>1, ShownKeeps DEF FollowState
    <2> QED
        BY <1>6, <2>2, SameStays DEF FollowState, tracker, past
  <1>7. CASE OpenStream \/ SnapshotStates \/ WriteState
    <2>1. /\ ~Listening /\ ~Listening' /\ UNCHANGED <<state, printed, output>>
          BY <1>7 DEF OpenStream, SnapshotStates, WriteState, Listening, tracker
    <2>2. \A f \in Fixes : card'[f].output = card[f].output
      <3>1. ASSUME NEW t \in unwritten, Shown(t), hpc = "writing states"
            PROVE  \A f \in Fixes : card'[f].output = card[f].output
        <4>1. t \in Transition
              BY <1>0, <3>1 DEF Phases
        <4> QED
            BY <1>0, <3>1, <4>1, ShownKeeps
      <3> QED
          BY <1>7, <3>1 DEF OpenStream, SnapshotStates, WriteState, console
    <2>3. output = <<>>
          BY <2>1 DEF OutputIInv, QueueTells
    <2> QED
        BY <2>1, <2>2, <2>3, DeafStays
  <1>8. CASE CloseStream \/ Reboot
    <2>1. /\ hpc' = "off" /\ output' = <<>> /\ UNCHANGED <<state, printed, card>>
          BY <1>8 DEF CloseStream, Reboot, StreamGone, tracker, console
    <2> QED
        BY <2>1, DeafStays DEF Listening
  <1>9. CASE UNCHANGED liveVars
    <2>1. UNCHANGED <<state, over, printed, hpc, unwritten, output, card, holes>>
          BY <1>9 DEF liveVars, tracker, stream, console, past
    <2> QED
        BY <2>1, SameStays
  <1> QED
      BY <1>1, <1>2, <1>3, <1>4, <1>5, <1>6, <1>7, <1>8, <1>9, SubscribeStays, SnapshotStays,
         WriteTailStays, FollowOutputStays DEF LiveNext

\* A set of naturals with an element has a least one.
LEMMA LeastExists ==
  ASSUME NEW S, S \subseteq Nat, S # {} PROVE \E j \in S : \A i \in S : i >= j
  <1>1. PICK j \in S : \A i \in S : ~(<<i, j>> \in OpToRel(<, Nat))
        BY NatLessThanWellFounded, WFMin
  <1>2. \A i \in S : ~(i < j)
    <2> TAKE i \in S
    <2>1. <<i, j>> \in Nat \X Nat /\ <<i, j>>[1] = i /\ <<i, j>>[2] = j
          OBVIOUS
    <2> QED
        BY <1>1, <2>1 DEF OpToRel
  <1> QED
      BY <1>2

\* What a live stream shows of a running Fix has no hole, or the tail that fills it is on
\* its way.  Not so for a Fix that had lines dropped and no snapshot since (Append): its
\* next line repairs it, or nothing does if another Fix's snapshot has cleared the mark.
THEOREM HolesAlwaysMarked == LiveSpec => []HolesAreMarked
  <1>1. LiveInit => LiveIInv /\ OutputIInv
        BY LiveInitially, OutputInitially
  <1>2. LiveIInv /\ OutputIInv /\ [LiveNext]_liveVars => (LiveIInv /\ OutputIInv)'
        BY LiveStep, OutputStep
  <1>3. LiveIInv /\ OutputIInv => HolesAreMarked
    <2> SUFFICES ASSUME LiveIInv, OutputIInv, hpc = "live", NEW f \in Active \ holes
                 PROVE  Contiguous(card[f].output) \/ TailIsComing(f)
        BY DEF HolesAreMarked
    <2>1. Seamless(f) /\ unwritten = {}
          BY DEF OutputIInv, Unbroken, Listening, TailsTell, Active
    <2>2. CASE \E j \in At(f) : \A i \in At(f) : i >= j
      <3>1. PICK j \in At(f) : \A i \in At(f) : i >= j
            BY <2>2
      <3>2. \A i \in At(f) : ~(i < j)
            BY <3>1 DEF At
      <3>3. Linked(f, j)
            BY <2>1, <3>1 DEF Seamless
      <3>4. CASE \E k \in At(f) : k >= j /\ output[k].snapshot
            BY <3>4 DEF TailIsComing, At
      <3>5. CASE Continues(f, output[j].from)
            BY <2>1, <3>5 DEF Continues
      <3> QED
          BY <3>2, <3>3, <3>4, <3>5 DEF Linked
    <2>3. CASE At(f) = {}
          BY <2>1, <2>3 DEF Seamless, UpToDate, Continues
    <2>4. At(f) = {} \/ \E j \in At(f) : \A i \in At(f) : i >= j
      <3>1. At(f) \subseteq Nat
            BY LiveTypes DEF At, LiveIInv
      <3> QED
          BY <3>1, LeastExists
    <2> QED
        BY <2>2, <2>3, <2>4
  <1> QED
      BY <1>1, <1>2, <1>3, PTL DEF LiveSpec

-----------------------------------------------------------------------------
(* The server side together *)

\* A behaviour of the composition is one of each part: what is proved of a part holds of
\* the runs.
LEMMA ConsoleParts == AllSpec => Spec /\ LiveSpec /\ QueueSpec
  <1>1. AllInit => Init /\ LiveInit /\ QueueInit
        BY DEF AllInit
  <1>2. [AllNext]_allVars => [Next]_vars /\ [LiveNext]_liveVars /\ [QueueNext]_queueVars
        BY DEF AllNext, allVars
  <1> QED
      BY <1>1, <1>2, PTL DEF AllSpec, Spec, LiveSpec, QueueSpec

\* The streams, the live view and the queue keep to their types, and ring and channels to
\* their capacities, for any number of appenders, consoles, Fixes and PRs.
THEOREM ConsoleTypesCorrect == AllSpec => []TypesOK
  <1>1. TypeOK /\ LiveIInv /\ QueueIInv => TypesOK
        BY DEF TypesOK, LiveIInv, QueueIInv
  <1> QED
      BY <1>1, ConsoleParts, StreamTypeCorrect, LiveInvariance, QueueInvariance, PTL

\* An open page sees the end of a Fix, and its output without a hole, whatever is printed
\* between the steps of the stream and of the poll.  Not so for an end that the full
\* channel of states dropped, nor for a Fix that had lines dropped and no snapshot since,
\* of which the page need not know.
THEOREM NothingStaysUnseen == AllSpec => []NothingUnseen
  <1>1. EndIsSeen /\ HolesAreMarked => NothingUnseen
        BY DEF NothingUnseen
  <1> QED
      BY <1>1, ConsoleParts, EndIsAlwaysSeen, HolesAlwaysMarked, PTL
=============================================================================
