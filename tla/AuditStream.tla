----------------------------- MODULE AuditStream -----------------------------
(***************************************************************************)
(* The audit store and the event stream of the API.  Append commits a      *)
(* record to bbolt, drops the cache of All, and publishes the record to    *)
(* the ring and the subscribers: three steps, and the workers of several   *)
(* repos append at once.  All reads through the cache.  handleEvents       *)
(* subscribes, replays the ring from Last-Event-ID, then follows its       *)
(* channel.  A record is its sequence number: bbolt's updates are serial,  *)
(* so the log is 1 .. log.                                                 *)
(***************************************************************************)
EXTENDS Integers, Sequences, FiniteSets, Functions

CONSTANTS
  Appenders,  \* goroutines that append
  Readers,    \* requests that call All
  Clients,    \* consoles
  RingCap,    \* recentCap
  SubCap,     \* capacity of a subscriber's channel
  MaxRecords  \* bound of the model: records ever appended

ASSUME AuditStreamAssumption ==
  /\ RingCap \in Nat \ {0} /\ SubCap \in Nat \ {0}
  /\ MaxRecords \in Nat

VARIABLES
  log,        \* the last sequence number in the database
  apc, seq,   \* apc[a], seq[a]: where a is in Append, and its record
  all,        \* AuditStore.all: the number of records in the cache
  allValid,   \* AuditStore.allValid
  allGen,     \* AuditStore.allGen
  rpc,        \* rpc[r]: where r is in All
  gen,        \* gen[r]: allGen when r found the cache invalid
  out,        \* out[r]: the number of records r has read
  recent,     \* AuditStore.recent
  subs,       \* AuditStore.subs
  ch,         \* ch[c]: c's channel
  cpc,        \* cpc[c]: where c's handleEvents is
  after,      \* after[c]: the sequence number c's stream is at
  todo,       \* todo[c]: the rest of c's replay
  acked,      \* history: the last record whose Append has returned
  floor,      \* history: floor[r]: acked when r called All
  got,        \* history: got[c]: what c has received on this connection
  due,        \* history: due[c]: what it is to receive
  missed,     \* history: missed[c]: what its channel or the ring had no room for
  overtaken   \* history: records published after a later one

appends == <<log, apc, seq, acked>>
cache == <<all, allValid, allGen>>
readers == <<rpc, gen, out, floor>>
hub == <<recent, subs, ch>>
streams == <<cpc, after, todo, got>>
owed == <<due, missed, overtaken>>
vars == <<appends, cache, readers, hub, streams, owed>>

Seqs == 1 .. MaxRecords

StoreOK ==
  /\ log \in 0 .. MaxRecords /\ acked \in 0 .. log
  /\ apc \in [Appenders -> {"idle", "committed", "invalidated"}]
  /\ seq \in [Appenders -> 0 .. log]
  /\ all \in 0 .. log /\ allValid \in BOOLEAN /\ allGen \in Nat
  /\ rpc \in [Readers -> {"idle", "view", "fill", "done"}]
  /\ gen \in [Readers -> Nat] /\ out \in [Readers -> 0 .. log]
  /\ floor \in [Readers -> 0 .. log]

TypeOK ==
  /\ StoreOK
  /\ recent \in Seq(Seqs) /\ Len(recent) <= RingCap
  /\ subs \subseteq Clients
  /\ ch \in [Clients -> Seq(Seqs)] /\ \A c \in Clients : Len(ch[c]) <= SubCap
  /\ cpc \in [Clients -> {"off", "new", "subscribed", "replay", "live"}]
  /\ after \in [Clients -> 0 .. log]
  /\ todo \in [Clients -> Seq(Seqs)] /\ got \in [Clients -> Seq(Seqs)]
  /\ due \in [Clients -> SUBSET Seqs] /\ missed \in [Clients -> SUBSET Seqs]
  /\ overtaken \subseteq Seqs

Init ==
  /\ log = 0 /\ acked = 0
  /\ apc = [a \in Appenders |-> "idle"] /\ seq = [a \in Appenders |-> 0]
  /\ all = 0 /\ allValid = FALSE /\ allGen = 0
  /\ rpc = [r \in Readers |-> "idle"] /\ gen = [r \in Readers |-> 0]
  /\ out = [r \in Readers |-> 0] /\ floor = [r \in Readers |-> 0]
  /\ recent = <<>> /\ subs = {} /\ ch = [c \in Clients |-> <<>>]
  /\ cpc = [c \in Clients |-> "off"] /\ after = [c \in Clients |-> 0]
  /\ todo = [c \in Clients |-> <<>>] /\ got = [c \in Clients |-> <<>>]
  /\ due = [c \in Clients |-> {}] /\ missed = [c \in Clients |-> {}]
  /\ overtaken = {}

-----------------------------------------------------------------------------
(* Append *)

Commit(a) ==
  /\ apc[a] = "idle"
  /\ log < MaxRecords
  /\ log' = log + 1
  /\ seq' = [seq EXCEPT ![a] = log + 1]
  /\ apc' = [apc EXCEPT ![a] = "committed"]
  /\ UNCHANGED <<acked, cache, readers, hub, streams, owed>>

\* invalidateAll
Invalidate(a) ==
  /\ apc[a] = "committed"
  /\ all' = 0 /\ allValid' = FALSE /\ allGen' = allGen + 1
  /\ apc' = [apc EXCEPT ![a] = "invalidated"]
  /\ UNCHANGED <<log, seq, acked, readers, hub, streams, owed>>

\* Mutant of Kept: the ring is not cut.
KeptAll(q) == q

\* What is left of the ring, and what has fallen off
Kept(q) == IF Len(q) > RingCap THEN Tail(q) ELSE q
Fallen(q) == IF Len(q) > RingCap THEN {Head(q)} ELSE {}

Connected == {c \in Clients : cpc[c] # "off"}

\* publish; the Append returns.
Publish(a) ==
  /\ apc[a] = "invalidated"
  /\ LET s == seq[a]
         q == Append(recent, s)
         full == {c \in subs : Len(ch[c]) = SubCap}
     IN  /\ recent' = Kept(q)
         /\ ch' = [c \in Clients |-> IF c \in subs \ full THEN Append(ch[c], s) ELSE ch[c]]
         /\ acked' = IF s > acked THEN s ELSE acked
         /\ due' = [c \in Clients |-> IF c \in Connected THEN due[c] \cup {s} ELSE due[c]]
         /\ missed' = [c \in Clients |->
              missed[c] \cup (IF c \in full THEN {s} ELSE {})
                        \cup (IF cpc[c] \in {"new", "subscribed"} THEN Fallen(q) ELSE {})]
         /\ overtaken' = IF s < acked THEN overtaken \cup {s} ELSE overtaken
  /\ apc' = [apc EXCEPT ![a] = "idle"]
  /\ seq' = [seq EXCEPT ![a] = 0]
  /\ UNCHANGED <<log, cache, readers, subs, streams>>

-----------------------------------------------------------------------------
(* All *)

\* From the cache, or on to the database
Ask(r) ==
  /\ rpc[r] = "idle"
  /\ floor' = [floor EXCEPT ![r] = acked]
  /\ \/ /\ allValid
        /\ out' = [out EXCEPT ![r] = all]
        /\ rpc' = [rpc EXCEPT ![r] = "done"]
        /\ UNCHANGED gen
     \/ /\ ~allValid
        /\ gen' = [gen EXCEPT ![r] = allGen]
        /\ rpc' = [rpc EXCEPT ![r] = "view"]
        /\ UNCHANGED out
  /\ UNCHANGED <<appends, cache, hub, streams, owed>>

View(r) ==
  /\ rpc[r] = "view"
  /\ out' = [out EXCEPT ![r] = log]
  /\ rpc' = [rpc EXCEPT ![r] = "fill"]
  /\ UNCHANGED <<appends, cache, gen, floor, hub, streams, owed>>

\* Mutant of Unchanged: the generation is not compared.
UnchangedAlways(r) == TRUE

\* No Append has dropped the cache since r looked at it.
Unchanged(r) == allGen = gen[r]

Fill(r) ==
  /\ rpc[r] = "fill"
  /\ IF Unchanged(r) THEN all' = out[r] /\ allValid' = TRUE
     ELSE UNCHANGED <<all, allValid>>
  /\ rpc' = [rpc EXCEPT ![r] = "done"]
  /\ UNCHANGED <<appends, allGen, gen, out, floor, hub, streams, owed>>

Answered(r) ==
  /\ rpc[r] = "done"
  /\ rpc' = [rpc EXCEPT ![r] = "idle"]
  /\ gen' = [gen EXCEPT ![r] = 0]
  /\ out' = [out EXCEPT ![r] = 0]
  /\ floor' = [floor EXCEPT ![r] = 0]
  /\ UNCHANGED <<appends, cache, hub, streams, owed>>

-----------------------------------------------------------------------------
(* handleEvents *)

\* A page is loaded, or a browser comes back with its Last-Event-ID.
Connect(c, from) ==
  /\ cpc[c] = "off"
  /\ cpc' = [cpc EXCEPT ![c] = "new"]
  /\ after' = [after EXCEPT ![c] = from]
  /\ due' = [due EXCEPT ![c] = {s \in Range(recent) : s > from}]
  /\ UNCHANGED <<appends, cache, readers, hub, todo, got, missed, overtaken>>

\* Mutant of Subscribe: the stream subscribes after its replay.
SubscribeLate(c) ==
  /\ \/ /\ cpc[c] = "new"
        /\ cpc' = [cpc EXCEPT ![c] = "subscribed"]
        /\ UNCHANGED subs
     \/ /\ cpc[c] = "live" /\ c \notin subs
        /\ subs' = subs \cup {c}
        /\ UNCHANGED cpc
  /\ UNCHANGED <<appends, cache, readers, recent, ch, after, todo, got, owed>>

Subscribe(c) ==
  /\ cpc[c] = "new"
  /\ subs' = subs \cup {c}
  /\ cpc' = [cpc EXCEPT ![c] = "subscribed"]
  /\ UNCHANGED <<appends, cache, readers, recent, ch, after, todo, got, owed>>

\* ReplaySinceSeq: the records of the ring after n, in the ring's order
Since(q, n) ==
  LET newer == {i \in DOMAIN q : q[i] > n}
      Rank(i) == Cardinality({j \in newer : j <= i})
  IN  [k \in 1 .. Cardinality(newer) |-> q[CHOOSE i \in newer : Rank(i) = k]]

Replay(c) ==
  /\ cpc[c] = "subscribed"
  /\ todo' = [todo EXCEPT ![c] = Since(recent, after[c])]
  /\ cpc' = [cpc EXCEPT ![c] = "replay"]
  /\ UNCHANGED <<appends, cache, readers, hub, after, got, owed>>

Receive(c, s) ==
  /\ got' = [got EXCEPT ![c] = Append(@, s)]
  /\ after' = [after EXCEPT ![c] = s]

WriteReplay(c) ==
  /\ cpc[c] = "replay"
  /\ \/ /\ todo[c] # <<>>
        /\ Receive(c, Head(todo[c]))
        /\ todo' = [todo EXCEPT ![c] = Tail(@)]
        /\ UNCHANGED cpc
     \/ /\ todo[c] = <<>>
        /\ cpc' = [cpc EXCEPT ![c] = "live"]
        /\ UNCHANGED <<after, todo, got>>
  /\ UNCHANGED <<appends, cache, readers, hub, owed>>

News(c) == Head(ch[c]) > after[c]

Follow(c) ==
  /\ cpc[c] = "live"
  /\ ch[c] # <<>>
  /\ ch' = [ch EXCEPT ![c] = Tail(@)]
  /\ IF News(c) THEN Receive(c, Head(ch[c])) ELSE UNCHANGED <<got, after>>
  /\ UNCHANGED <<appends, cache, readers, recent, subs, cpc, todo, owed>>

\* The handlers of some streams end; what they had not written is lost.
Closed(C) ==
  /\ cpc' = [c \in Clients |-> IF c \in C THEN "off" ELSE cpc[c]]
  /\ ch' = [c \in Clients |-> IF c \in C THEN <<>> ELSE ch[c]]
  /\ todo' = [c \in Clients |-> IF c \in C THEN <<>> ELSE todo[c]]
  /\ got' = [c \in Clients |-> IF c \in C THEN <<>> ELSE got[c]]
  /\ due' = [c \in Clients |-> IF c \in C THEN {} ELSE due[c]]
  /\ missed' = [c \in Clients |-> IF c \in C THEN {} ELSE missed[c]]
  /\ UNCHANGED after

Disconnect(c) ==
  /\ c \in Connected
  /\ Closed({c})
  /\ subs' = subs \ {c}
  /\ UNCHANGED <<appends, cache, readers, recent, overtaken>>

-----------------------------------------------------------------------------
\* The daemon stops anywhere and starts again; what is left is the database.
Restart ==
  /\ apc' = [a \in Appenders |-> "idle"] /\ seq' = [a \in Appenders |-> 0]
  /\ all' = 0 /\ allValid' = FALSE /\ allGen' = 0
  /\ rpc' = [r \in Readers |-> "idle"] /\ gen' = [r \in Readers |-> 0]
  /\ out' = [r \in Readers |-> 0] /\ floor' = [r \in Readers |-> 0]
  /\ recent' = <<>> /\ subs' = {}
  /\ Closed(Clients)
  /\ UNCHANGED <<log, acked, overtaken>>

Next ==
  \/ \E a \in Appenders : Commit(a) \/ Invalidate(a) \/ Publish(a)
  \/ \E r \in Readers : Ask(r) \/ View(r) \/ Fill(r) \/ Answered(r)
  \/ \E c \in Clients :
       \/ Connect(c, 0) \/ Connect(c, after[c])
       \/ Subscribe(c) \/ Replay(c) \/ WriteReplay(c) \/ Follow(c) \/ Disconnect(c)
  \/ Restart

Spec == Init /\ [][Next]_vars

-----------------------------------------------------------------------------
(* Properties *)

\* All returns every record whose Append had returned when it was called, from
\* the cache as from the database (the generation that guards a racing fill).
AllIsFresh == \A r \in Readers : rpc[r] = "done" => out[r] >= floor[r]

CaughtUp(c) == cpc[c] = "live" /\ ch[c] = <<>>

\* A stream that has caught up has sent every record that was in the ring or came
\* since its request, whichever of the steps of subscribing, replaying and
\* following it came between - but for those a full channel or ring has lost and
\* those published after a later one.  Replay and channel overlap, and yet nothing
\* is sent twice or out of order, as long as records are published in the order of
\* their numbers.
NoGap(c) == CaughtUp(c) => due[c] \ (missed[c] \cup overtaken) \subseteq Range(got[c])
InOrder(c) == overtaken = {} => \A i \in 1 .. Len(got[c]) - 1 : got[c][i] < got[c][i + 1]

SentOnce == \A c \in Clients : NoGap(c) /\ InOrder(c)

-----------------------------------------------------------------------------
(* The inductive invariant behind AllIsFresh *)

\* What Publish is about to acknowledge, or has
Dropped(s) == s <= acked \/ \E a \in Appenders : apc[a] = "invalidated" /\ s = seq[a]

\* A valid cache holds every record whose Append has dropped the cache, and so
\* does what a reader is about to fill it with.
CacheComplete == \A s \in Seqs : allValid /\ Dropped(s) => s <= all

FillComplete ==
  \A r \in Readers, s \in Seqs :
    rpc[r] = "fill" /\ Unchanged(r) /\ Dropped(s) => s <= out[r]

\* An answer is as new as its call from the moment it is read.
OutIsFresh == \A r \in Readers : rpc[r] \in {"fill", "done"} => out[r] >= floor[r]

GensBehind == \A r \in Readers : gen[r] <= allGen

IInv == StoreOK /\ CacheComplete /\ FillComplete /\ GensBehind /\ OutIsFresh
=============================================================================
