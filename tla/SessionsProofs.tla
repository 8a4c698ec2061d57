---------------------------- MODULE SessionsProofs ----------------------------
(***************************************************************************)
(* Recordings and login, for any Fixes, repos, slugs, tabs and browsers:   *)
(* what a Fix records is its own and stands while the Fix runs, for as     *)
(* long as recordings are kept, and what it is told of others is what they *)
(* left (Sessions); a session stands for groups its user had within its    *)
(* time, and the issuer's keys are fetched at most once a minute (Login).  *)
(***************************************************************************)
EXTENDS MCSessions, SequenceTheorems, FiniteSetTheorems, WellFoundedInduction, TLAPS

-----------------------------------------------------------------------------
(* The recordings *)

Pcs == {"idle", "mkdir", "create", "open", "finish", "done", "left", "bare", "dead"}
Runs == [pc : Pcs, id : Id \cup {NoFix}, try : 0 .. MaxSuffix + 1, begun : 0 .. MaxTime,
         attempt : 0 .. MaxAttempts, patch : BOOLEAN]

\* A Fix has the name that its start, its repo and its collisions give, and tries its
\* names before a recording of its own second may be old.
RunsOK ==
  /\ now \in 0 .. MaxTime
  /\ run \in [Fixes -> Runs]
  /\ \A f \in Fixes :
       /\ run[f].pc = "idle" => run[f].try = 0
       /\ run[f].pc # "idle" => /\ run[f].id = NewID(run[f].begun, RepoOf[f], run[f].try)
                                /\ run[f].begun <= now
       /\ run[f].try = MaxSuffix + 1 => run[f].pc = "bare"
       /\ run[f].pc = "mkdir" => now < run[f].begun + Retain

Files == UNION {[S -> File] : S \in SUBSET Name}

\* No directory is older than its name says.
DirsOK ==
  \A i \in DOMAIN disk :
    /\ i \in Id /\ disk[i] \in [mtime : Int, files : Files]
    /\ i.at <= disk[i].mtime /\ disk[i].mtime <= now

\* A sweep takes what is older than the retention.
SweepsOK ==
  /\ lastPrune \in -PruneEvery .. now
  /\ prune \in [{"daemon", "cli"} -> [left : SUBSET Id, cutoff : Int]]
  /\ \A p \in {"daemon", "cli"} :
       prune[p].cutoff <= now /\ (prune[p].left # {} => prune[p].cutoff <= now - Retain)

\* A Fix that made its directory; no two made the same, and if it is there no more
\* then it was old.
Made(f) == run[f].pc \in Recording \cup {"done", "left", "dead"}
Apart == \A f, g \in Fixes : f # g /\ Made(f) /\ Made(g) => run[f].id # run[g].id
Deleted == \A f \in Fixes : Made(f) /\ Gone(f) => run[f].begun + Retain <= now
Owned == \A i \in DOMAIN disk : \E f \in Fixes : Made(f) /\ run[f].id = i

\* What is in it, as far as its Fix has come.
HasDiff(i) == <<"diff", 1>> \in DOMAIN disk[i].files
HasMeta(i) == <<"meta", 1>> \in DOMAIN disk[i].files
Content(f) ==
  LET fs == disk[run[f].id].files IN
    /\ \A k \in DOMAIN fs : fs[k].fix = f /\ (k[1] # "meta" => fs[k].n = k[2])
    /\ run[f].pc = "done" => HasMeta(run[f].id)
    /\ HasMeta(run[f].id) => (fs[<<"meta", 1>>].n = 2 <=> run[f].pc = "done")
    /\ run[f].pc \in {"create", "open"} => ~HasDiff(run[f].id)
    /\ run[f].pc \in {"finish", "done"} => (HasDiff(run[f].id) <=> run[f].patch = TRUE)
Contents == \A f \in Fixes : Made(f) /\ ~Gone(f) => Content(f)

DisksIInv == RunsOK /\ DirsOK /\ SweepsOK /\ Apart /\ Deleted /\ Owned /\ Contents

\* What Recent has, as far as it has come, of every Fix that was due: it is still to
\* be loaded, it was found, it was told, or its recording is gone.
Ended(g) == run[g].pc = "done" /\ Alike(g, reader.fix)
ReaderTyped ==
  /\ reader \in [fix : Fixes \cup {NoFix}, left : SUBSET Id, found : SUBSET [id : Id, fix : Fixes],
                 told : SUBSET [fix : Fixes, patch : BOOLEAN], due : SUBSET Fixes]
  /\ IsFiniteSet(reader.told) /\ Cardinality(reader.told) <= Limit
  /\ reader.fix = NoFix => reader = Waiting
  /\ reader.fix # NoFix => run[reader.fix].pc = "open"
FoundIsTrue == \A x \in reader.found : Ended(x.fix) /\ run[x.fix].id = x.id
ToldIsTrue == \A t \in reader.told :
  Ended(t.fix) /\ ((t.patch = TRUE <=> run[t.fix].patch = TRUE) \/ Gone(t.fix))
DueIsCome == \A g \in reader.due :
  Ended(g) /\ \/ Gone(g) \/ run[g].id \in reader.left
              \/ [id |-> run[g].id, fix |-> g] \in reader.found
              \/ \E t \in reader.told : t.fix = g
NewestFirst ==
  /\ reader.told # {} => reader.left = {}
  /\ \A x \in reader.found, t \in reader.told : run[x.fix].begun <= run[t.fix].begun

ReaderIInv == ReaderTyped /\ FoundIsTrue /\ ToldIsTrue /\ DueIsCome /\ NewestFirst

SessionsIInv == DisksIInv /\ ReaderIInv

-----------------------------------------------------------------------------
\* The constants are numbers, and a recording is kept for some time.
LEMMA Keeping ==
  /\ Retain \in Nat /\ PruneEvery \in Nat /\ Limit \in Nat
  /\ MaxSuffix \in Nat /\ MaxAttempts \in Nat /\ MaxTime \in Nat /\ Retain > 0
  /\ \A f \in Fixes : RepoOf[f] \in Repos
  /\ \A r \in Repos : Slug[r].nums \in Seq(Nat)
  /\ NoFix \notin Fixes
  BY SessionsAssumption

\* The name of a directory tells when its Fix began.
LEMMA NewIDType ==
  ASSUME NEW at \in 0 .. MaxTime, NEW r \in Repos, NEW n \in Nat
  PROVE  NewID(at, r, n) \in Id /\ NewID(at, r, n).at = at
  <1>1. Slug[r].nums \in Seq(Nat) /\ Append(Slug[r].nums, n) \in Seq(Nat)
        BY Keeping, AppendProperties
  <1> QED
      BY <1>1 DEF NewID, Id

\* The name of a Fix that began is that of a directory, at the time it began.
LEMMA Named ==
  ASSUME RunsOK, NEW f \in Fixes, run[f].pc # "idle"
  PROVE  run[f].id \in Id /\ run[f].id.at = run[f].begun
  <1>1. /\ run[f].id = NewID(run[f].begun, RepoOf[f], run[f].try)
        /\ run[f].begun \in 0 .. MaxTime /\ run[f].try \in Nat /\ RepoOf[f] \in Repos
        BY Keeping DEF RunsOK, Runs
  <1> QED
      BY <1>1, NewIDType

\* What a Fix made stands while the Fix runs, until Retain after it began.
LEMMA Standing ==
  ASSUME DisksIInv, NEW f \in Fixes, run[f].pc \in Recording, now < run[f].begun + Retain
  PROVE  run[f].id \in DOMAIN disk
  <1>1. now \in Int /\ run[f].begun \in Int /\ Made(f)
        BY Keeping DEF DisksIInv, RunsOK, Runs, Made
  <1> QED
      BY <1>1, Keeping DEF DisksIInv, Deleted, Gone

\* A name that is free was never another's.
LEMMA FreeIsNew ==
  ASSUME DisksIInv, NEW f \in Fixes, run[f].pc = "mkdir", run[f].id \notin DOMAIN disk,
         NEW g \in Fixes, Made(g)
  PROVE  run[g].id # run[f].id
  <1> SUFFICES ASSUME run[g].id = run[f].id PROVE FALSE
      OBVIOUS
  <1>1. now \in Int /\ run[f].begun \in Int /\ now < run[f].begun + Retain
        BY Keeping DEF DisksIInv, RunsOK, Runs
  <1>2. run[g].pc # "idle" /\ run[f].pc # "idle"
        BY DEF Made, Recording
  <1>3. run[g].begun = run[f].begun
        BY <1>2, Named DEF DisksIInv
  <1>4. run[g].begun + Retain <= now
        BY DEF DisksIInv, Deleted, Gone
  <1> QED
      BY <1>1, <1>3, <1>4, Keeping

\* A sweep takes nothing that is younger than Retain by its name.
LEMMA SweptIsOld ==
  ASSUME DisksIInv, NEW p \in {"daemon", "cli"}, NEW i \in prune[p].left, i \in DOMAIN disk,
         Old(i, prune[p].cutoff)
  PROVE  i.at \in Int /\ i.at + Retain <= now
  <1>1. prune[p].cutoff \in Int /\ prune[p].cutoff <= now - Retain /\ now \in Int
        BY Keeping DEF DisksIInv, SweepsOK, RunsOK
  <1>2. /\ i.at \in Int /\ disk[i].mtime \in Int /\ i.at <= disk[i].mtime
        /\ disk[i].mtime <= prune[p].cutoff
        BY DEF DisksIInv, DirsOK, Old, Id
  <1> QED
      BY <1>1, <1>2, Keeping

\* What os.Mkdir makes is empty.
LEMMA MadeDir ==
  ASSUME NEW i, i \notin DOMAIN disk, NEW D, D = NewDir(i)
  PROVE  /\ DOMAIN D = DOMAIN disk \cup {i}
         /\ \A j \in DOMAIN disk : D[j] = disk[j]
         /\ D[i] = [mtime |-> now, files |-> <<>>]
  BY DEF NewDir

\* A directory may be empty.
LEMMA NoFiles == <<>> \in Files /\ DOMAIN <<>> = {}
  <1>1. <<>> \in [{} -> File]
        OBVIOUS
  <1> QED
      BY <1>1 DEF Files

\* What is in a directory is named and is a Fix's.
LEMMA FilesAre ==
  ASSUME NEW fs \in Files
  PROVE  DOMAIN fs \subseteq Name /\ \A k \in DOMAIN fs : fs[k] \in File
  BY DEF Files

\* What is written to a directory is in it next to what was.
WroteTo(D, f, ks, n) ==
  LET i == run[f].id IN
    /\ DOMAIN D = DOMAIN disk
    /\ \A j \in DOMAIN disk \ {i} : D[j] = disk[j]
    /\ D[i] \in [mtime : Int, files : Files]
    /\ D[i].mtime \in {now, disk[i].mtime}
    /\ DOMAIN D[i].files = ks \cup DOMAIN disk[i].files
    /\ \A k \in ks : D[i].files[k] = [fix |-> f, n |-> n]
    /\ \A k \in DOMAIN disk[i].files \ ks : D[i].files[k] = disk[i].files[k]

\* What Written writes to a directory that is there (WroteTo).
LEMMA WrittenIn ==
  ASSUME DirsOK, now \in Int, NEW f \in Fixes, run[f].id \in DOMAIN disk,
         NEW ks \in SUBSET Name, NEW n \in 1 .. MaxAttempts + 2
  PROVE  WroteTo(Written(f, ks, n), f, ks, n)
  <1> DEFINE i == run[f].id
             fs == [k \in ks \cup DOMAIN disk[i].files |->
                      IF k \in ks THEN [fix |-> f, n |-> n] ELSE disk[i].files[k]]
             m == IF ks \subseteq DOMAIN disk[i].files THEN disk[i].mtime ELSE now
             D == Written(f, ks, n)
  <1>1. disk[i] \in [mtime : Int, files : Files]
        BY DEF DirsOK
  <1>2. D = [disk EXCEPT ![i].mtime = m, ![i].files = fs]
        BY DEF Written
  <1>3. m \in {now, disk[i].mtime} /\ m \in Int
        BY <1>1
  <1>4. /\ DOMAIN fs = ks \cup DOMAIN disk[i].files
        /\ \A k \in ks : fs[k] = [fix |-> f, n |-> n]
        /\ \A k \in DOMAIN disk[i].files \ ks : fs[k] = disk[i].files[k]
        /\ fs = [k \in DOMAIN fs |-> fs[k]]
        OBVIOUS
  <1>5. fs \in Files
    <2>1. DOMAIN disk[i].files \subseteq Name /\ \A k \in DOMAIN disk[i].files : disk[i].files[k] \in File
          BY <1>1, FilesAre
    <2>2. [fix |-> f, n |-> n] \in File
          BY DEF File
    <2>3. DOMAIN fs \subseteq Name /\ \A k \in DOMAIN fs : fs[k] \in File
          BY <2>1, <2>2, <1>4
    <2> HIDE DEF fs
    <2>4. fs \in [DOMAIN fs -> File]
          BY <2>3, <1>4
    <2> QED
        BY <2>3, <2>4 DEF Files
  <1> HIDE DEF fs, m, D
  <1>6. /\ DOMAIN D = DOMAIN disk
        /\ \A j \in DOMAIN disk \ {i} : D[j] = disk[j]
        /\ D[i] = [disk[i] EXCEPT !.mtime = m, !.files = fs]
        BY <1>2
  <1>7. D[i] \in [mtime : Int, files : Files] /\ D[i].mtime = m /\ D[i].files = fs
        BY <1>1, <1>3, <1>5, <1>6
  <1> QED
      BY <1>3, <1>4, <1>6, <1>7 DEF D, WroteTo

-----------------------------------------------------------------------------
(* RunsOK and SweepsOK *)

\* One Fix goes on.
LEMMA RunKept ==
  ASSUME RunsOK, NEW f \in Fixes, NEW r \in Runs,
         r.pc # "idle", r.id = NewID(r.begun, RepoOf[f], r.try), r.begun <= now,
         r.try = MaxSuffix + 1 => r.pc = "bare",
         r.pc = "mkdir" => now < r.begun + Retain,
         run' = [run EXCEPT ![f] = r], now' = now
  PROVE  RunsOK'
  <1>1. /\ run' \in [Fixes -> Runs] /\ run'[f] = r
        /\ \A g \in Fixes \ {f} : run'[g] = run[g]
        BY DEF RunsOK
  <1>2. ASSUME NEW g \in Fixes
        PROVE  /\ run'[g].pc = "idle" => run'[g].try = 0
               /\ run'[g].pc # "idle" => /\ run'[g].id = NewID(run'[g].begun, RepoOf[g], run'[g].try)
                                         /\ run'[g].begun <= now
               /\ run'[g].try = MaxSuffix + 1 => run'[g].pc = "bare"
               /\ run'[g].pc = "mkdir" => now < run'[g].begun + Retain
    <2>1. CASE g = f
          BY <2>1, <1>1
    <2>2. CASE g # f
          BY <2>2, <1>1 DEF RunsOK
    <2> QED
        BY <2>1, <2>2
  <1> QED
      BY <1>1, <1>2 DEF RunsOK, NewID

\* A Fix that goes on with its name and its start.
LEMMA RunOn ==
  ASSUME RunsOK, NEW f \in Fixes, NEW r \in Runs, run[f].pc \in Recording \cup {"mkdir"},
         r.id = run[f].id, r.begun = run[f].begun, r.try = run[f].try,
         r.pc = "bare" \/ (r.pc \notin {"idle", "mkdir"} /\ r.try # MaxSuffix + 1),
         run' = [run EXCEPT ![f] = r], now' = now
  PROVE  RunsOK'
  <1>1. /\ run[f].id = NewID(run[f].begun, RepoOf[f], run[f].try) /\ run[f].begun <= now
        BY DEF RunsOK, Recording
  <1> QED
      BY <1>1, RunKept

\* Every step keeps the names of the Fixes.
LEMMA RunsStep ==
  ASSUME RunsOK, [Next]_vars
  PROVE  RunsOK'
  <1>0. /\ now \in 0 .. MaxTime /\ MaxTime \in Nat /\ MaxSuffix \in Nat
        /\ MaxAttempts \in Nat /\ Retain \in Nat /\ Retain > 0
        BY Keeping DEF RunsOK
  <1>1. ASSUME NEW f \in Fixes, Begin(f) PROVE RunsOK'
    <2> DEFINE r == [run[f] EXCEPT !.pc = "mkdir", !.begun = now, !.id = NewID(now, RepoOf[f], 0)]
    <2>1. run' = [run EXCEPT ![f] = r] /\ now' = now /\ run[f] \in Runs
          BY <1>1 DEF Begin, RunsOK
    <2>2. NewID(now, RepoOf[f], 0) \in Id
          BY <1>0, NewIDType, Keeping
    <2>3. run[f].try = 0
          BY <1>1 DEF Begin, RunsOK
    <2> DEFINE j == NewID(now, RepoOf[f], 0)
    <2>4. j \in Id /\ r = [run[f] EXCEPT !.pc = "mkdir", !.begun = now, !.id = j]
          BY <2>2
    <2> HIDE DEF j
    <2>5. /\ r \in Runs /\ r.pc = "mkdir" /\ r.begun = now /\ r.id = j /\ r.try = 0
          BY <2>1, <2>3, <2>4, <1>0, ZenonT(60) DEF Runs, Pcs
    <2> HIDE DEF r
    <2>6. j = NewID(r.begun, RepoOf[f], r.try)
          BY <2>5 DEF j
    <2>7. /\ r.pc # "idle" /\ r.begun <= now /\ r.try # MaxSuffix + 1 /\ now < r.begun + Retain
          BY <2>5, <1>0
    <2> QED
        BY <2>1, <2>5, <2>6, <2>7, RunKept
  <1>2. ASSUME NEW f \in Fixes, Mkdir(f) PROVE RunsOK'
    <2>1. /\ run[f] \in Runs /\ run[f].pc = "mkdir" /\ now' = now
          /\ run[f].try \in 0 .. MaxSuffix /\ run[f].begun \in 0 .. MaxTime /\ run[f].begun <= now
          /\ now < run[f].begun + Retain
          BY <1>2, <1>0 DEF Mkdir, RunsOK, Runs
    <2>2. CASE run[f].id \notin DOMAIN disk
      <3> DEFINE r == [run[f] EXCEPT !.pc = "create"]
      <3>1. run' = [run EXCEPT ![f] = r]
            BY <1>2, <2>2 DEF Mkdir
      <3>2. /\ r \in Runs /\ r.id = run[f].id /\ r.begun = run[f].begun /\ r.try = run[f].try
            /\ r.pc = "create"
            BY <2>1 DEF Runs, Pcs
      <3> HIDE DEF r
      <3>3. r.try # MaxSuffix + 1 /\ run[f].pc \in Recording \cup {"mkdir"}
            BY <2>1, <3>2, <1>0
      <3> QED
          BY <2>1, <3>1, <3>2, <3>3, RunOn
    <2>3. CASE run[f].id \in DOMAIN disk
      <3> DEFINE n == run[f].try + 1
                 j == NewID(run[f].id.at, RepoOf[f], n)
                 r == [run[f] EXCEPT !.try = n, !.id = j, !.pc = IF n > MaxSuffix THEN "bare" ELSE "mkdir"]
      <3>1. run' = [run EXCEPT ![f] = r]
            BY <1>2, <2>3 DEF Mkdir
      <3>2. run[f].id.at = run[f].begun
            BY <2>1, Named
      <3>3. n \in 0 .. MaxSuffix + 1 /\ n \in Nat /\ j = NewID(run[f].begun, RepoOf[f], n) /\ j \in Id
        <4>1. n \in 0 .. MaxSuffix + 1 /\ n \in Nat
              BY <2>1, <1>0
        <4>2. RepoOf[f] \in Repos /\ j = NewID(run[f].begun, RepoOf[f], n)
              BY <3>2, Keeping
        <4> HIDE DEF n, j
        <4> QED
            BY <4>1, <4>2, <2>1, NewIDType
      <3> HIDE DEF n, j
      <3>4. /\ r \in Runs /\ r.id = j /\ r.begun = run[f].begun /\ r.try = n
            /\ r.pc = IF n > MaxSuffix THEN "bare" ELSE "mkdir"
            BY <2>1, <3>3 DEF Runs, Pcs
      <3> HIDE DEF r
      <3>5. r.id = NewID(r.begun, RepoOf[f], r.try)
            BY <3>3, <3>4
      <3>6. (r.try = MaxSuffix + 1 => r.pc = "bare") /\ r.pc # "idle" /\ r.begun <= now
            BY <3>3, <3>4, <2>1, <1>0
      <3> QED
          BY <2>1, <3>1, <3>4, <3>5, <3>6, RunKept
    <2> QED
        BY <2>2, <2>3
  <1>3. ASSUME NEW f \in Fixes, Started(f) \/ Attempt(f) \/ NoWorktree(f) \/ Diff(f) \/ Finish(f)
        PROVE  RunsOK'
    <2>1. PICK p \in Pcs \ {"idle", "mkdir"}, n \in 0 .. MaxAttempts, d \in BOOLEAN :
            run' = [run EXCEPT ![f] = [run[f] EXCEPT !.pc = p, !.attempt = n, !.patch = d]]
      <3>1. /\ run \in [Fixes -> Runs] /\ run[f] \in Runs /\ run[f].pc \in Pcs
            /\ run[f].pc \notin {"idle", "mkdir"}
            /\ run[f].attempt \in 0 .. MaxAttempts /\ run[f].patch \in BOOLEAN
        <4>1. run[f].pc \notin {"idle", "mkdir"}
              BY <1>3 DEF Started, Attempt, NoWorktree, Diff, Finish
        <4> QED
            BY <4>1 DEF RunsOK, Runs
      <3> DEFINE On(p, n, d) == [run EXCEPT ![f] = [run[f] EXCEPT !.pc = p, !.attempt = n, !.patch = d]]
      <3>2. ASSUME NEW p \in Pcs \ {"idle", "mkdir"}, run' = [run EXCEPT ![f].pc = p]
            PROVE  run' = On(p, run[f].attempt, run[f].patch)
        <4>1. [run[f] EXCEPT !.pc = p]
              = [run[f] EXCEPT !.pc = p, !.attempt = run[f].attempt, !.patch = run[f].patch]
              BY <3>1 DEF Runs
        <4> QED
            BY <3>1, <3>2, <4>1
      <3>3. CASE Started(f)
        <4>1. PICK p \in Pcs \ {"idle", "mkdir"} : run' = [run EXCEPT ![f].pc = p]
              BY <3>3 DEF Started, Pcs
        <4> QED
            BY <4>1, <3>1, <3>2
      <3>4. CASE Attempt(f)
        <4>1. run[f].attempt + 1 \in 0 .. MaxAttempts
              BY <3>4, <3>1, <1>0 DEF Attempt
        <4>2. run' = [run EXCEPT ![f].attempt = run[f].attempt + 1]
              BY <3>4 DEF Attempt
        <4>3. [run[f] EXCEPT !.attempt = run[f].attempt + 1]
              = [run[f] EXCEPT !.pc = run[f].pc, !.attempt = run[f].attempt + 1, !.patch = run[f].patch]
              BY <3>1, <4>1 DEF Runs
        <4>4. run' = On(run[f].pc, run[f].attempt + 1, run[f].patch)
              BY <3>1, <4>2, <4>3
        <4> QED
            BY <4>1, <4>4, <3>1
      <3>5. CASE NoWorktree(f)
        <4>1. "left" \in Pcs \ {"idle", "mkdir"} /\ run' = [run EXCEPT ![f].pc = "left"]
              BY <3>5 DEF NoWorktree, Pcs
        <4> QED
            BY <4>1, <3>1, <3>2
      <3>6. CASE Diff(f)
        <4>1. PICK d \in BOOLEAN : run' = [run EXCEPT ![f].pc = "finish", ![f].patch = d]
              BY <3>6 DEF Diff
        <4>2. [run[f] EXCEPT !.pc = "finish", !.patch = d]
              = [run[f] EXCEPT !.pc = "finish", !.attempt = run[f].attempt, !.patch = d]
              BY <3>1 DEF Runs
        <4>3. run' = On("finish", run[f].attempt, d)
              BY <3>1, <4>1, <4>2
        <4>4. "finish" \in Pcs \ {"idle", "mkdir"}
              BY DEF Pcs
        <4> QED
            BY <4>3, <4>4, <3>1
      <3>7. CASE Finish(f)
        <4>1. "done" \in Pcs \ {"idle", "mkdir"} /\ run' = [run EXCEPT ![f].pc = "done"]
              BY <3>7 DEF Finish, Pcs
        <4> QED
            BY <4>1, <3>1, <3>2
      <3> QED
          BY <1>3, <3>3, <3>4, <3>5, <3>6, <3>7
    <2> DEFINE r == [run[f] EXCEPT !.pc = p, !.attempt = n, !.patch = d]
    <2>2. /\ run[f] \in Runs /\ run[f].pc \in Recording /\ now' = now
          BY <1>3 DEF Started, Attempt, NoWorktree, Diff, Finish, RunsOK, Recording
    <2>3. /\ r \in Runs /\ r.id = run[f].id /\ r.begun = run[f].begun /\ r.try = run[f].try
          /\ r.pc \notin {"idle", "mkdir"}
          BY <2>2 DEF Runs
    <2>4. r.try # MaxSuffix + 1
          BY <2>2, <2>3 DEF RunsOK, Recording
    <2>5. run' = [run EXCEPT ![f] = r]
          BY <2>1
    <2> HIDE DEF r
    <2> QED
        BY <2>2, <2>3, <2>4, <2>5, RunOn
  <1>4. CASE Tick
    <2>1. run' = run /\ now' = now + 1 /\ now' \in 0 .. MaxTime
          BY <1>4, <1>0 DEF Tick
    <2>2. ASSUME NEW f \in Fixes
          PROVE  /\ run[f].pc # "idle" => run[f].begun <= now + 1
                 /\ run[f].pc = "mkdir" => now + 1 < run[f].begun + Retain
      <3>1. run[f].begun \in Int
            BY DEF RunsOK, Runs
      <3>2. run[f].pc = "mkdir" => now + 1 < run[f].begun + Retain
            BY <1>4 DEF Tick
      <3> QED
          BY <3>1, <3>2, <1>0 DEF RunsOK
    <2> QED
        BY <2>1, <2>2 DEF RunsOK
  <1>5. CASE Crash
    <2> DEFINE r(f) == IF Running(f) THEN [run[f] EXCEPT !.pc = IF @ = "mkdir" THEN "bare" ELSE "dead"]
                       ELSE run[f]
    <2>1. run' = [f \in Fixes |-> r(f)] /\ now' = now
          BY <1>5 DEF Crash
    <2>2. ASSUME NEW f \in Fixes
          PROVE  /\ r(f) \in Runs /\ r(f).pc \notin Recording \cup {"mkdir"}
                 /\ r(f).id = run[f].id /\ r(f).begun = run[f].begun /\ r(f).try = run[f].try
                 /\ r(f).pc = "idle" <=> run[f].pc = "idle"
                 /\ r(f).try = MaxSuffix + 1 => r(f).pc = "bare"
      <3>1. run[f] \in Runs /\ (run[f].try = MaxSuffix + 1 => run[f].pc = "bare")
            BY DEF RunsOK
      <3> QED
          BY <3>1 DEF Runs, Pcs, Running, Recording
    <2> HIDE DEF r
    <2>3. run' \in [Fixes -> Runs] /\ \A f \in Fixes : run'[f] = r(f)
          BY <2>1, <2>2
    <2> QED
        BY <2>1, <2>2, <2>3 DEF RunsOK
  <1>6. CASE UNCHANGED <<now, run>>
        BY <1>6 DEF RunsOK
  <1> QED
    <2>1. ASSUME NEW f \in Fixes, Ask(f) PROVE UNCHANGED <<now, run>>
          BY <2>1 DEF Ask
    <2>2. ASSUME NEW p \in {"daemon", "cli"}, PruneEntry(p) PROVE UNCHANGED <<now, run>>
          BY <2>2 DEF PruneEntry
    <2>3. PruneCommand \/ Load \/ Tell \/ UNCHANGED vars => UNCHANGED <<now, run>>
          BY DEF PruneCommand, Load, Tell, vars
    <2> QED
        BY <1>1, <1>2, <1>3, <1>4, <1>5, <1>6, <2>1, <2>2, <2>3 DEF Next

\* One sweep goes on.
LEMMA SweepKept ==
  ASSUME SweepsOK, now \in 0 .. MaxTime, now' = now, NEW p \in {"daemon", "cli"},
         NEW s \in [left : SUBSET Id, cutoff : Int], s.cutoff <= now,
         s.left # {} => s.cutoff <= now - Retain,
         prune' = [prune EXCEPT ![p] = s], lastPrune' = lastPrune \/ lastPrune' = now
  PROVE  SweepsOK'
  <1>1. /\ prune' \in [{"daemon", "cli"} -> [left : SUBSET Id, cutoff : Int]] /\ prune'[p] = s
        /\ \A q \in {"daemon", "cli"} \ {p} : prune'[q] = prune[q]
        BY DEF SweepsOK
  <1>2. lastPrune' \in -PruneEvery .. now'
        BY Keeping DEF SweepsOK
  <1>3. \A q \in {"daemon", "cli"} :
          prune'[q].cutoff <= now' /\ (prune'[q].left # {} => prune'[q].cutoff <= now' - Retain)
    <2> TAKE q \in {"daemon", "cli"}
    <2>1. CASE q = p
          BY <2>1, <1>1
    <2>2. CASE q # p
          BY <2>2, <1>1 DEF SweepsOK
    <2> QED
        BY <2>1, <2>2
  <1> QED
      BY <1>1, <1>2, <1>3 DEF SweepsOK

\* Every step keeps the sweeps' cutoffs a retention behind the clock.
LEMMA SweepsStep ==
  ASSUME RunsOK, DirsOK, SweepsOK, [Next]_vars
  PROVE  SweepsOK'
  <1>0. now \in 0 .. MaxTime /\ MaxTime \in Nat /\ Retain \in Nat /\ PruneEvery \in Nat
        BY Keeping DEF RunsOK
  <1>i. /\ Idle \in [left : SUBSET Id, cutoff : Int] /\ Idle.cutoff <= now
        /\ Idle.left # {} => Idle.cutoff <= now - Retain
        BY <1>0 DEF Idle
  <1>s. /\ Sweep \in [left : SUBSET Id, cutoff : Int] /\ Sweep.cutoff <= now
        /\ Sweep.left # {} => Sweep.cutoff <= now - Retain
        BY <1>0 DEF Sweep, DirsOK
  <1>1. ASSUME NEW f \in Fixes, Started(f) PROVE SweepsOK'
    <2>1. now' = now
          BY <1>1 DEF Started
    <2>2. CASE UNCHANGED <<lastPrune, prune>>
          BY <2>1, <2>2 DEF SweepsOK
    <2>3. CASE /\ lastPrune' = now
               /\ prune' = [prune EXCEPT !["daemon"] = IF Sweep.left = {} THEN Idle ELSE Sweep]
      <3> DEFINE s == IF Sweep.left = {} THEN Idle ELSE Sweep
      <3>1. /\ s \in [left : SUBSET Id, cutoff : Int] /\ s.cutoff <= now
            /\ s.left # {} => s.cutoff <= now - Retain
            BY <1>i, <1>s
      <3>2. prune' = [prune EXCEPT !["daemon"] = s] /\ lastPrune' = now
            BY <2>3
      <3> HIDE DEF s
      <3> QED
          BY <2>1, <3>1, <3>2, <1>0, SweepKept
    <2> QED
        BY <1>1, <2>2, <2>3 DEF Started
  <1>2. CASE PruneCommand
    <2>1. now' = now /\ lastPrune' = lastPrune /\ prune' = [prune EXCEPT !["cli"] = Sweep]
          BY <1>2 DEF PruneCommand
    <2> QED
        BY <2>1, <1>0, <1>s, SweepKept
  <1>3. ASSUME NEW p \in {"daemon", "cli"}, PruneEntry(p) PROVE SweepsOK'
    <2>1. PICK i \in prune[p].left :
            prune' = [prune EXCEPT ![p] = IF @.left = {i} THEN Idle
                                          ELSE [left |-> @.left \ {i}, cutoff |-> @.cutoff]]
          BY <1>3 DEF PruneEntry, First
    <2>2. now' = now /\ lastPrune' = lastPrune
          BY <1>3 DEF PruneEntry
    <2> DEFINE s == IF prune[p].left = {i} THEN Idle
                    ELSE [left |-> prune[p].left \ {i}, cutoff |-> prune[p].cutoff]
    <2>3. prune[p] \in [left : SUBSET Id, cutoff : Int]
          BY DEF SweepsOK
    <2>4. prune[p].cutoff <= now /\ (prune[p].left # {} => prune[p].cutoff <= now - Retain)
          BY DEF SweepsOK
    <2>5. /\ s \in [left : SUBSET Id, cutoff : Int] /\ s.cutoff <= now
          /\ s.left # {} => s.cutoff <= now - Retain
          BY <1>i, <2>1, <2>3, <2>4
    <2>6. prune' = [prune EXCEPT ![p] = s]
          BY <2>1, <2>3 DEF SweepsOK
    <2> HIDE DEF s
    <2> QED
        BY <2>2, <2>5, <2>6, <1>0, SweepKept
  <1>4. CASE Tick
    <2>1. now' = now + 1 /\ lastPrune' = lastPrune /\ prune' = prune
          BY <1>4 DEF Tick
    <2>2. \A p \in {"daemon", "cli"} : prune[p].cutoff \in Int
          BY DEF SweepsOK
    <2> QED
        BY <2>1, <2>2, <1>0 DEF SweepsOK
  <1>5. CASE Crash
    <2>1. now' = now /\ lastPrune' = -PruneEvery /\ prune' = [prune EXCEPT !["daemon"] = Idle]
          BY <1>5 DEF Crash
    <2>2. SweepsOK /\ now \in 0 .. MaxTime
          BY <1>0
    <2>3. /\ prune' \in [{"daemon", "cli"} -> [left : SUBSET Id, cutoff : Int]]
          /\ prune'["daemon"] = Idle /\ prune'["cli"] = prune["cli"]
          BY <2>1, <1>i DEF SweepsOK
    <2>4. lastPrune' \in -PruneEvery .. now'
          BY <2>1, <1>0
    <2> QED
        BY <2>1, <2>3, <2>4, <1>i DEF SweepsOK
  <1>6. CASE UNCHANGED <<now, lastPrune, prune>>
        BY <1>6 DEF SweepsOK
  <1> QED
    <2>1. ASSUME NEW f \in Fixes,
                 Begin(f) \/ Mkdir(f) \/ Ask(f) \/ Attempt(f) \/ NoWorktree(f) \/ Diff(f) \/ Finish(f)
          PROVE  UNCHANGED <<now, lastPrune, prune>>
          BY <2>1 DEF Begin, Mkdir, Ask, Attempt, NoWorktree, Diff, Finish
    <2>2. Load \/ Tell \/ UNCHANGED vars => UNCHANGED <<now, lastPrune, prune>>
          BY DEF Load, Tell, vars
    <2> QED
        BY <1>1, <1>2, <1>3, <1>4, <1>5, <1>6, <2>1, <2>2 DEF Next

-----------------------------------------------------------------------------
(* What is on disk, and whose it is *)

Disks == DirsOK /\ Apart /\ Deleted /\ Owned /\ Contents

\* A Fix goes on, or ends without a word, and writes nothing: as it is, or as it must
\* be, its recording being gone.
Quiet(g) ==
  /\ Made(g)' => Made(g)
  /\ Made(g) /\ ~Gone(g) => Made(g)'
  /\ Made(g)' => /\ run'[g].id = run[g].id /\ run'[g].begun = run[g].begun
                 /\ \/ Gone(g)
                    \/ /\ run'[g].patch = run[g].patch
                       /\ \/ run'[g].pc = run[g].pc
                          \/ run[g].pc \in Recording /\ run'[g].pc \in {"left", "dead"}

\* Nobody makes, writes or deletes anything (Quiet).
LEMMA DisksStill ==
  ASSUME DisksIInv, disk' = disk, now' \in Int, now <= now', \A g \in Fixes : Quiet(g)
  PROVE  Disks'
  <1>0. now \in Int /\ \A g \in Fixes : run[g].begun \in Int
        BY DEF DisksIInv, RunsOK, Runs
  <1>1. DirsOK'
    <2> SUFFICES ASSUME NEW i \in DOMAIN disk
                 PROVE  /\ i \in Id /\ disk[i] \in [mtime : Int, files : Files]
                        /\ i.at <= disk[i].mtime /\ disk[i].mtime <= now'
        BY DEF DirsOK
    <2>1. /\ i \in Id /\ disk[i] \in [mtime : Int, files : Files]
          /\ i.at <= disk[i].mtime /\ disk[i].mtime <= now
          BY DEF DisksIInv, DirsOK
    <2>2. disk[i].mtime \in Int
          BY <2>1
    <2> QED
        BY <2>1, <2>2, <1>0
  <1>q. \A g \in Fixes :
          Made(g)' => Made(g) /\ run'[g].id = run[g].id /\ run'[g].begun = run[g].begun
        BY DEF Quiet
  <1>2. Apart'
        BY <1>q DEF DisksIInv, Apart
  <1>o. Owned'
    <2> SUFFICES ASSUME NEW i \in DOMAIN disk PROVE \E g \in Fixes : Made(g)' /\ run'[g].id = i
        BY DEF Owned
    <2>1. PICK g \in Fixes : Made(g) /\ run[g].id = i
          BY DEF DisksIInv, Owned
    <2>2. Made(g)'
          BY <2>1 DEF Quiet, Gone
    <2> QED
        BY <2>1, <2>2, <1>q
  <1>3. Deleted'
    <2> SUFFICES ASSUME NEW f \in Fixes, Made(f)', Gone(f)' PROVE run'[f].begun + Retain <= now'
        BY DEF Deleted
    <2>1. Made(f) /\ Gone(f) /\ run'[f].begun = run[f].begun
          BY <1>q DEF Gone
    <2> QED
        BY <2>1, <1>0, Keeping DEF DisksIInv, Deleted
  <1>4. Contents'
    <2> SUFFICES ASSUME NEW f \in Fixes, Made(f)', ~Gone(f)' PROVE Content(f)'
        BY DEF Contents
    <2>0. Made(f) /\ ~Gone(f) /\ run'[f].id = run[f].id
          BY <1>q DEF Gone
    <2>1. Content(f)
          BY <2>0 DEF DisksIInv, Contents
    <2>2. /\ run'[f].id = run[f].id /\ run'[f].patch = run[f].patch
          /\ \/ run'[f].pc = run[f].pc
             \/ run[f].pc # "done" /\ run'[f].pc \in {"left", "dead"}
          BY <2>0 DEF Quiet, Recording
    <2> QED
        BY <2>1, <2>2 DEF Content, HasMeta, HasDiff
  <1> QED
      BY <1>1, <1>2, <1>o, <1>3, <1>4 DEF Disks

\* A Fix whose recording was deleted goes on, and is noted nowhere.
LEMMA DisksGone ==
  ASSUME DisksIInv, NEW f \in Fixes, Made(f), Gone(f), disk' = disk, now' = now,
         \A g \in Fixes \ {f} : run'[g] = run[g],
         run'[f].id = run[f].id, run'[f].begun = run[f].begun
  PROVE  Disks'
  <1>1. Quiet(f)
        BY DEF Quiet
  <1>2. \A g \in Fixes \ {f} : Quiet(g)
        BY DEF Quiet, Made
  <1>3. now \in Int /\ now <= now
        BY DEF DisksIInv, RunsOK
  <1> QED
      BY <1>1, <1>2, <1>3, DisksStill

\* A Fix that runs writes to its own recording, and changes no name.
LEMMA DisksWritten ==
  ASSUME DisksIInv, NEW f \in Fixes, run[f].pc \in Recording, now' = now,
         run[f].id \in DOMAIN disk, DOMAIN disk' = DOMAIN disk,
         \A j \in DOMAIN disk \ {run[f].id} : disk'[j] = disk[j],
         disk'[run[f].id] \in [mtime : Int, files : Files],
         disk'[run[f].id].mtime \in {now, disk[run[f].id].mtime},
         \A g \in Fixes \ {f} : run'[g] = run[g],
         run'[f].id = run[f].id, run'[f].begun = run[f].begun, Made(f)', Content(f)'
  PROVE  Disks'
  <1>0. now \in Int /\ run[f].id \in DOMAIN disk /\ Made(f)
        BY DEF DisksIInv, RunsOK, Made
  <1>1. DirsOK'
    <2> SUFFICES ASSUME NEW i \in DOMAIN disk
                 PROVE  /\ i \in Id /\ disk'[i] \in [mtime : Int, files : Files]
                        /\ i.at <= disk'[i].mtime /\ disk'[i].mtime <= now
        BY DEF DirsOK
    <2>1. /\ i \in Id /\ disk[i] \in [mtime : Int, files : Files]
          /\ i.at <= disk[i].mtime /\ disk[i].mtime <= now
          BY DEF DisksIInv, DirsOK
    <2>2. i.at \in Int /\ disk[i].mtime \in Int
          BY <2>1 DEF Id
    <2>3. CASE i = run[f].id
          BY <2>1, <2>2, <2>3, <1>0
    <2>4. CASE i # run[f].id
          BY <2>1, <2>4
    <2> QED
        BY <2>3, <2>4
  <1>2. \A g \in Fixes : /\ Made(g)' <=> Made(g)
                         /\ run'[g].id = run[g].id /\ run'[g].begun = run[g].begun
        BY <1>0 DEF Made
  <1>3. Apart' /\ Owned'
        BY <1>2 DEF DisksIInv, Apart, Owned
  <1>4. Deleted'
        BY <1>2 DEF DisksIInv, Deleted, Gone
  <1>5. Contents'
    <2> SUFFICES ASSUME NEW g \in Fixes \ {f}, Made(g), ~Gone(g) PROVE Content(g)'
        BY <1>2 DEF Contents, Gone
    <2>1. Content(g) /\ run'[g] = run[g]
          BY DEF DisksIInv, Contents
    <2>2. run[g].id \in DOMAIN disk /\ run[g].id # run[f].id
          BY <1>0 DEF DisksIInv, Apart, Gone
    <2>3. disk'[run[g].id] = disk[run[g].id]
          BY <2>2
    <2> QED
        BY <2>1, <2>3, ZenonT(60) DEF Content, HasMeta, HasDiff
  <1> QED
      BY <1>1, <1>3, <1>4, <1>5 DEF Disks

\* os.Mkdir of a name that is free
LEMMA DisksMade ==
  ASSUME DisksIInv, NEW f \in Fixes, Mkdir(f), run[f].id \notin DOMAIN disk
  PROVE  Disks'
  <1> DEFINE i == run[f].id
  <1>0. /\ run[f].pc = "mkdir" /\ now' = now /\ now \in 0 .. MaxTime
        /\ run' = [run EXCEPT ![f].pc = "create"] /\ run \in [Fixes -> Runs]
        BY DEF Mkdir, DisksIInv, RunsOK
  <1>1. /\ DOMAIN disk' = DOMAIN disk \cup {i}
        /\ \A j \in DOMAIN disk : disk'[j] = disk[j]
        /\ disk'[i] = [mtime |-> now, files |-> <<>>]
    <2>1. disk' = NewDir(i)
          BY DEF Mkdir
    <2> QED
        BY <2>1, MadeDir
  <1>2. /\ run'[f].pc = "create" /\ run'[f].id = i /\ run'[f].begun = run[f].begun
        /\ \A g \in Fixes \ {f} : run'[g] = run[g]
        BY <1>0 DEF Runs
  <1>3. i \in Id /\ i.at = run[f].begun /\ i.at <= now
        BY <1>0, Named DEF DisksIInv, RunsOK
  <1>4. /\ ~Made(f) /\ Made(f)'
        /\ \A g \in Fixes \ {f} : Made(g)' <=> Made(g)
        BY <1>0, <1>2 DEF Made, Recording
  <1>5. \A g \in Fixes : Made(g) => run[g].id # i
        BY <1>0, FreeIsNew
  <1>6. DirsOK'
    <2>1. [mtime |-> now, files |-> <<>>] \in [mtime : Int, files : Files]
          BY <1>0, NoFiles
    <2> QED
        BY <1>0, <1>1, <1>3, <2>1 DEF DisksIInv, DirsOK
  <1>7. Apart'
        BY <1>2, <1>4, <1>5 DEF DisksIInv, Apart
  <1>8. Owned'
    <2> SUFFICES ASSUME NEW j \in DOMAIN disk' PROVE \E g \in Fixes : Made(g)' /\ run'[g].id = j
        BY DEF Owned
    <2>1. CASE j = i
          BY <2>1, <1>2, <1>4
    <2>2. CASE j # i
      <3>1. PICK g \in Fixes : Made(g) /\ run[g].id = j
            BY <2>2, <1>1 DEF DisksIInv, Owned
      <3>2. g # f
            BY <3>1, <1>4
      <3> QED
          BY <3>1, <3>2, <1>2, <1>4
    <2> QED
        BY <2>1, <2>2
  <1>9. Deleted'
        BY <1>0, <1>1, <1>2, <1>4 DEF DisksIInv, Deleted, Gone
  <1>10. Contents'
    <2> SUFFICES ASSUME NEW g \in Fixes, Made(g)', ~Gone(g)' PROVE Content(g)'
        BY DEF Contents
    <2>1. CASE g = f
      <3>1. disk'[run'[g].id].files = <<>> /\ DOMAIN <<>> = {} /\ run'[g].pc = "create"
            BY <2>1, <1>1, <1>2, NoFiles
      <3> QED
          BY <3>1 DEF Content, HasMeta, HasDiff
    <2>2. CASE g # f
      <3>1. run'[g] = run[g] /\ Made(g) /\ run[g].id # i
            BY <2>2, <1>2, <1>4, <1>5
      <3>2. ~Gone(g) /\ disk'[run[g].id] = disk[run[g].id]
            BY <3>1, <1>1 DEF Gone
      <3>3. Content(g)
            BY <3>1, <3>2 DEF DisksIInv, Contents
      <3> QED
          BY <3>1, <3>2, <3>3 DEF Content, HasMeta, HasDiff
    <2> QED
        BY <2>1, <2>2
  <1> QED
      BY <1>6, <1>7, <1>8, <1>9, <1>10 DEF Disks

\* RemoveAll of an old one
LEMMA DisksSwept ==
  ASSUME DisksIInv, NEW p \in {"daemon", "cli"}, PruneEntry(p)
  PROVE  Disks'
  <1>0. run' = run /\ now' = now /\ now \in Int
        BY DEF PruneEntry, DisksIInv, RunsOK
  <1>1. PICK i \in prune[p].left :
          disk' = IF i \in DOMAIN disk /\ Old(i, prune[p].cutoff)
                  THEN Restrict(disk, DOMAIN disk \ {i}) ELSE disk
        BY DEF PruneEntry, First
  <1>2. CASE ~(i \in DOMAIN disk /\ Old(i, prune[p].cutoff))
    <2>1. disk' = disk
          BY <1>1, <1>2
    <2> QED
        BY <2>1, <1>0, DisksStill DEF Quiet, Made
  <1>3. CASE i \in DOMAIN disk /\ Old(i, prune[p].cutoff)
    <2>1. /\ DOMAIN disk' = DOMAIN disk \ {i}
          /\ \A j \in DOMAIN disk' : disk'[j] = disk[j]
          BY <1>1, <1>3 DEF Restrict
    <2>2. i.at \in Int /\ i.at + Retain <= now
          BY <1>3, SweptIsOld
    <2>3. DirsOK'
          BY <2>1, <1>0 DEF DisksIInv, DirsOK
    <2>4. Apart' /\ Owned'
          BY <2>1, <1>0 DEF DisksIInv, Apart, Owned, Made
    <2>5. Deleted'
      <3> SUFFICES ASSUME NEW f \in Fixes, Made(f), Gone(f)' PROVE run[f].begun + Retain <= now
          BY <1>0 DEF Deleted, Made
      <3>1. CASE Gone(f)
            BY <3>1 DEF DisksIInv, Deleted
      <3>2. CASE run[f].id = i
        <4>1. run[f].pc # "idle"
              BY DEF Made, Recording
        <4> QED
            BY <4>1, <3>2, <2>2, Named DEF DisksIInv
      <3> QED
          BY <3>1, <3>2, <2>1, <1>0 DEF Gone
    <2>6. Contents'
      <3> SUFFICES ASSUME NEW f \in Fixes, Made(f), ~Gone(f)' PROVE Content(f)'
          BY <1>0 DEF Contents, Made
      <3>1. ~Gone(f) /\ disk'[run[f].id] = disk[run[f].id]
            BY <2>1, <1>0 DEF Gone
      <3>2. Content(f)
            BY <3>1 DEF DisksIInv, Contents
      <3> QED
          BY <3>1, <3>2, <1>0 DEF Content, HasMeta, HasDiff
    <2> QED
        BY <2>3, <2>4, <2>5, <2>6 DEF Disks
  <1> QED
      BY <1>2, <1>3

\* A Fix whose recording was deleted writes nothing.
LEMMA NoneWrites ==
  ASSUME DisksIInv, NEW f \in Fixes, Gone(f),
         Started(f) \/ Attempt(f) \/ Diff(f) \/ Finish(f)
  PROVE  Disks'
  <1>0. run \in [Fixes -> Runs] /\ now' = now /\ Made(f)
        BY DEF DisksIInv, RunsOK, Started, Attempt, Diff, Finish, Made, Recording
  <1>1. disk' = disk
        BY DEF Started, Attempt, Diff, Finish, Written, Gone
  <1>2. /\ run'[f].id = run[f].id /\ run'[f].begun = run[f].begun
        /\ \A g \in Fixes \ {f} : run'[g] = run[g]
        BY <1>0 DEF Started, Attempt, Diff, Finish, Runs
  <1> QED
      BY <1>0, <1>1, <1>2, DisksGone

\* Start's meta.json, the files of an attempt, the diff and Finish's meta.json
LEMMA StartedWrites ==
  ASSUME DisksIInv, NEW f \in Fixes, Started(f), ~Gone(f)
  PROVE  Disks'
  <1>0. /\ run[f].pc = "create" /\ now' = now /\ now \in Int /\ run \in [Fixes -> Runs]
        /\ run[f].id \in DOMAIN disk /\ Made(f)
        BY DEF Started, Gone, DisksIInv, RunsOK, Recording, Made
  <1>d. DirsOK
        BY DEF DisksIInv
  <1> DEFINE i == run[f].id
             ks == {<<"meta", 1>>}
  <1>1. /\ run'[f].pc = "open" /\ run'[f].id = i /\ run'[f].begun = run[f].begun
        /\ \A g \in Fixes \ {f} : run'[g] = run[g]
        BY <1>0 DEF Started, Runs
  <1>2. ks \in SUBSET Name /\ 1 \in 1 .. MaxAttempts + 2 /\ disk' = Written(f, ks, 1)
        BY Keeping DEF Started, Name
  <1>k. /\ <<"meta", 1>> \in ks /\ <<"diff", 1>> \notin ks
        /\ \A k \in ks : k[1] = "meta"
        OBVIOUS
  <1> HIDE DEF ks
  <1>3. WroteTo(disk', f, ks, 1)
    <2>1. WroteTo(Written(f, ks, 1), f, ks, 1)
          BY <1>0, <1>2, <1>d, WrittenIn
    <2> QED
        BY <2>1, <1>2
  <1>4. Content(f)
        BY <1>0 DEF DisksIInv, Contents, Gone
  <1>5. Content(f)'
    <2>1. \A k \in DOMAIN disk'[i].files :
            disk'[i].files[k].fix = f /\ (k[1] # "meta" => disk'[i].files[k].n = k[2])
          BY <1>3, <1>4, <1>k DEF Content, WroteTo
    <2> QED
        BY <2>1, <1>k, <1>0, <1>1, <1>3, <1>4 DEF Content, HasMeta, HasDiff, WroteTo
  <1>6. Made(f)'
        BY <1>1 DEF Made, Recording
  <1> QED
      BY <1>0, <1>1, <1>3, <1>5, <1>6, DisksWritten DEF Recording, WroteTo

\* An attempt writes its prompt and output to the Fix's own directory.
LEMMA AttemptWrites ==
  ASSUME DisksIInv, NEW f \in Fixes, Attempt(f), ~Gone(f)
  PROVE  Disks'
  <1>0. /\ run[f].pc = "open" /\ now' = now /\ now \in Int /\ run \in [Fixes -> Runs]
        /\ run[f].id \in DOMAIN disk /\ Made(f)
        BY DEF Attempt, Gone, DisksIInv, RunsOK, Recording, Made
  <1>d. DirsOK
        BY DEF DisksIInv
  <1> DEFINE i == run[f].id
             n == run[f].attempt + 1
             ks == {<<"prompt", n>>, <<"output", n>>}
  <1>1. /\ run'[f].pc = "open" /\ run'[f].id = i /\ run'[f].begun = run[f].begun
        /\ \A g \in Fixes \ {f} : run'[g] = run[g]
        BY <1>0 DEF Attempt, Runs
  <1>2. n \in 1 .. MaxAttempts /\ n \in 1 .. MaxAttempts + 2
    <2>1. run[f].attempt \in Nat /\ run[f].attempt + 1 <= MaxAttempts
          BY <1>0, Keeping DEF Attempt, Runs
    <2> QED
        BY <2>1, Keeping
  <1>3. ks \in SUBSET Name /\ disk' = Written(f, ks, n)
        BY <1>2 DEF Attempt, Name, AttemptFile
  <1>4. /\ <<"meta", 1>> \notin ks /\ <<"diff", 1>> \notin ks
        /\ \A k \in ks : k[2] = n
        OBVIOUS
  <1> HIDE DEF ks, n
  <1>5. WroteTo(disk', f, ks, n)
    <2>1. WroteTo(Written(f, ks, n), f, ks, n)
          BY <1>0, <1>2, <1>3, <1>d, WrittenIn
    <2> QED
        BY <2>1, <1>2, <1>3
  <1>6. Content(f)
        BY <1>0 DEF DisksIInv, Contents, Gone
  <1>7. Content(f)'
    <2>1. \A k \in DOMAIN disk'[i].files :
            disk'[i].files[k].fix = f /\ (k[1] # "meta" => disk'[i].files[k].n = k[2])
          BY <1>4, <1>5, <1>6 DEF Content, WroteTo
    <2> QED
        BY <2>1, <1>0, <1>1, <1>4, <1>5, <1>6 DEF Content, HasMeta, HasDiff, WroteTo
  <1>8. Made(f)'
        BY <1>1 DEF Made, Recording
  <1> QED
      BY <1>0, <1>1, <1>5, <1>7, <1>8, DisksWritten DEF Recording, WroteTo

\* The patch, if there is one, is written to the Fix's own directory.
LEMMA DiffWrites ==
  ASSUME DisksIInv, NEW f \in Fixes, Diff(f), ~Gone(f)
  PROVE  Disks'
  <1>0. /\ run[f].pc = "open" /\ now' = now /\ now \in Int /\ run \in [Fixes -> Runs]
        /\ run[f].id \in DOMAIN disk /\ Made(f)
        BY DEF Diff, Gone, DisksIInv, RunsOK, Recording, Made
  <1>d. DirsOK
        BY DEF DisksIInv
  <1> DEFINE i == run[f].id
             ks == {<<"diff", 1>>}
  <1>p. PICK p \in BOOLEAN : /\ run' = [run EXCEPT ![f].pc = "finish", ![f].patch = p]
                             /\ disk' = IF p THEN Written(f, ks, 1) ELSE disk
        BY DEF Diff
  <1>1. /\ run'[f].pc = "finish" /\ run'[f].id = i /\ run'[f].begun = run[f].begun
        /\ run'[f].patch = p
        /\ \A g \in Fixes \ {f} : run'[g] = run[g]
        BY <1>0, <1>p DEF Runs
  <1>2. ks \in SUBSET Name /\ 1 \in 1 .. MaxAttempts + 2
        BY Keeping DEF Name
  <1>m. Made(f)'
        BY <1>1 DEF Made, Recording
  <1>4. Content(f)
        BY <1>0 DEF DisksIInv, Contents, Gone
  <1>k. <<"meta", 1>> \notin ks /\ <<"diff", 1>> \in ks /\ \A k \in ks : k[2] = 1
        OBVIOUS
  <1> HIDE DEF ks
  <1>5. CASE p = TRUE
    <2>1. WroteTo(disk', f, ks, 1)
      <3>1. WroteTo(Written(f, ks, 1), f, ks, 1)
            BY <1>0, <1>2, <1>d, WrittenIn
      <3> QED
          BY <3>1, <1>p, <1>5
    <2>2. \A k \in DOMAIN disk'[i].files :
            disk'[i].files[k].fix = f /\ (k[1] # "meta" => disk'[i].files[k].n = k[2])
          BY <1>4, <1>k, <2>1 DEF Content, WroteTo
    <2>3. Content(f)'
          BY <2>1, <2>2, <1>0, <1>1, <1>4, <1>5, <1>k DEF Content, HasMeta, HasDiff, WroteTo
    <2> QED
        BY <1>0, <1>1, <1>m, <2>1, <2>3, DisksWritten DEF Recording, WroteTo
  <1>6. CASE p = FALSE
    <2>1. disk' = disk
          BY <1>p, <1>6
    <2>2. Content(f)'
          BY <2>1, <1>0, <1>1, <1>4, <1>6 DEF Content, HasMeta, HasDiff, WroteTo
    <2>3. disk[i] \in [mtime : Int, files : Files]
          BY <1>0 DEF DisksIInv, DirsOK
    <2> QED
        BY <1>0, <1>1, <1>m, <2>1, <2>2, <2>3, DisksWritten DEF Recording, WroteTo
  <1> QED
      BY <1>5, <1>6

\* Finish writes the end to the Fix's own directory.
LEMMA FinishWrites ==
  ASSUME DisksIInv, NEW f \in Fixes, Finish(f), ~Gone(f)
  PROVE  Disks'
  <1>0. /\ run[f].pc = "finish" /\ now' = now /\ now \in Int /\ run \in [Fixes -> Runs]
        /\ run[f].id \in DOMAIN disk /\ Made(f)
        BY DEF Finish, Gone, DisksIInv, RunsOK, Recording, Made
  <1>d. DirsOK
        BY DEF DisksIInv
  <1> DEFINE i == run[f].id
             ks == {<<"meta", 1>>}
  <1>1. /\ run'[f].pc = "done" /\ run'[f].id = i /\ run'[f].begun = run[f].begun
        /\ run'[f].patch = run[f].patch
        /\ \A g \in Fixes \ {f} : run'[g] = run[g]
        BY <1>0 DEF Finish, Runs
  <1>2. ks \in SUBSET Name /\ 2 \in 1 .. MaxAttempts + 2 /\ disk' = Written(f, ks, 2)
        BY Keeping DEF Finish, Name
  <1>k. /\ <<"meta", 1>> \in ks /\ <<"diff", 1>> \notin ks
        /\ \A k \in ks : k[1] = "meta"
        OBVIOUS
  <1> HIDE DEF ks
  <1>3. WroteTo(disk', f, ks, 2)
    <2>1. WroteTo(Written(f, ks, 2), f, ks, 2)
          BY <1>0, <1>2, <1>d, WrittenIn
    <2> QED
        BY <2>1, <1>2
  <1>4. Content(f)
        BY <1>0 DEF DisksIInv, Contents, Gone
  <1>5. Content(f)'
    <2>1. \A k \in DOMAIN disk'[i].files :
            disk'[i].files[k].fix = f /\ (k[1] # "meta" => disk'[i].files[k].n = k[2])
          BY <1>3, <1>4, <1>k DEF Content, WroteTo
    <2> QED
        BY <2>1, <1>0, <1>1, <1>3, <1>4, <1>k DEF Content, HasMeta, HasDiff, WroteTo
  <1>6. Made(f)'
        BY <1>1 DEF Made, Recording
  <1> QED
      BY <1>0, <1>1, <1>3, <1>5, <1>6, DisksWritten DEF Recording, WroteTo

\* Every step keeps whose the directories are and what is in them.
LEMMA DisksStep ==
  ASSUME DisksIInv, [Next]_vars
  PROVE  DisksIInv'
  <1> SUFFICES Disks'
      BY RunsStep, SweepsStep DEF DisksIInv, Disks
  <1>0. now \in Int /\ run \in [Fixes -> Runs]
        BY DEF DisksIInv, RunsOK
  <1>1. ASSUME NEW f \in Fixes, Begin(f) PROVE Disks'
    <2>1. /\ run[f].pc = "idle" /\ run'[f].pc = "mkdir" /\ disk' = disk /\ now' = now
          /\ \A g \in Fixes \ {f} : run'[g] = run[g]
          BY <1>0, <1>1 DEF Begin, Runs
    <2>2. ~Made(f) /\ ~Made(f)'
          BY <2>1 DEF Made, Recording
    <2>3. \A g \in Fixes \ {f} : Made(g)' <=> Made(g)
          BY <2>1 DEF Made
    <2> QED
        BY <2>1, <2>2, <2>3, <1>0, DisksStill DEF Quiet
  <1>2. ASSUME NEW f \in Fixes, Mkdir(f) PROVE Disks'
    <2>1. CASE run[f].id \notin DOMAIN disk
          BY <2>1, <1>2, DisksMade
    <2>2. CASE run[f].id \in DOMAIN disk
      <3>1. /\ run[f].pc = "mkdir" /\ run'[f].pc \in {"mkdir", "bare"} /\ disk' = disk /\ now' = now
            /\ \A g \in Fixes \ {f} : run'[g] = run[g]
        <4>1. PICK n, j : run' = [run EXCEPT ![f] = [run[f] EXCEPT !.try = n, !.id = j,
                                              !.pc = IF n > MaxSuffix THEN "bare" ELSE "mkdir"]]
              BY <1>2, <2>2 DEF Mkdir
        <4>2. run[f].pc = "mkdir" /\ disk' = disk /\ now' = now
              BY <1>2, <2>2 DEF Mkdir
        <4> QED
            BY <1>0, <4>1, <4>2 DEF Runs
      <3>2. ~Made(f) /\ ~Made(f)'
            BY <3>1 DEF Made, Recording
      <3>3. \A g \in Fixes \ {f} : Made(g)' <=> Made(g)
            BY <3>1 DEF Made
      <3> QED
          BY <3>1, <3>2, <3>3, <1>0, DisksStill DEF Quiet
    <2> QED
        BY <2>1, <2>2
  <1>3. ASSUME NEW f \in Fixes, Started(f) \/ Attempt(f) \/ Diff(f) \/ Finish(f) PROVE Disks'
        BY <1>3, NoneWrites, StartedWrites, AttemptWrites, DiffWrites, FinishWrites
  <1>4. ASSUME NEW f \in Fixes, NoWorktree(f) PROVE Disks'
    <2>1. /\ run[f].pc = "open" /\ run'[f].pc = "left" /\ disk' = disk /\ now' = now
          /\ run'[f].id = run[f].id /\ run'[f].begun = run[f].begun /\ run'[f].patch = run[f].patch
          /\ \A g \in Fixes \ {f} : run'[g] = run[g]
          BY <1>0, <1>4 DEF NoWorktree, Runs
    <2>2. Made(f) /\ Made(f)'
          BY <2>1 DEF Made, Recording
    <2>3. \A g \in Fixes \ {f} : Made(g)' <=> Made(g)
          BY <2>1 DEF Made
    <2> QED
        BY <2>1, <2>2, <2>3, <1>0, DisksStill DEF Quiet, Recording
  <1>5. ASSUME NEW p \in {"daemon", "cli"}, PruneEntry(p) PROVE Disks'
        BY <1>5, DisksSwept
  <1>6. CASE Tick
    <2>1. run' = run /\ disk' = disk /\ now' = now + 1
          BY <1>6 DEF Tick
    <2>2. now' \in Int /\ now <= now'
          BY <2>1, <1>0
    <2>3. \A g \in Fixes : Made(g)' <=> Made(g)
          BY <2>1 DEF Made
    <2> QED
        BY <2>1, <2>2, <2>3, DisksStill DEF Quiet
  <1>7. CASE Crash
    <2>1. /\ disk' = disk /\ now' = now
          /\ \A f \in Fixes :
               run'[f] = IF Running(f)
                         THEN [run[f] EXCEPT !.pc = IF @ = "mkdir" THEN "bare" ELSE "dead"]
                         ELSE run[f]
          BY <1>7 DEF Crash
    <2>2. ASSUME NEW g \in Fixes
          PROVE  /\ run'[g].id = run[g].id /\ run'[g].begun = run[g].begun /\ run'[g].patch = run[g].patch
                 /\ run'[g].pc = IF run[g].pc = "mkdir" THEN "bare"
                                 ELSE IF run[g].pc \in Recording THEN "dead" ELSE run[g].pc
      <3>1. run[g] \in Runs
            BY <1>0
      <3> QED
          BY <3>1, <2>1 DEF Running, Recording, Runs
    <2>3. \A g \in Fixes : Made(g)' <=> Made(g)
          BY <2>2 DEF Made, Recording
    <2>4. \A g \in Fixes : Made(g) =>
            \/ run'[g].pc = run[g].pc
            \/ run[g].pc \in Recording /\ run'[g].pc \in {"left", "dead"}
          BY <2>2 DEF Made, Recording
    <2>5. \A g \in Fixes : Made(g) => /\ run'[g].id = run[g].id /\ run'[g].begun = run[g].begun
                                     /\ run'[g].patch = run[g].patch
          BY <2>2
    <2> QED
        BY <2>1, <2>3, <2>4, <2>5, <1>0, DisksStill DEF Quiet
  <1>8. CASE UNCHANGED <<now, disk, run>>
    <2>1. run' = run /\ disk' = disk /\ now' = now /\ now <= now
          BY <1>8, <1>0
    <2>2. \A g \in Fixes : Made(g)' <=> Made(g)
          BY <2>1 DEF Made
    <2> QED
        BY <2>1, <2>2, <1>0, DisksStill DEF Quiet
  <1> QED
    <2>1. ASSUME NEW f \in Fixes, Ask(f) PROVE UNCHANGED <<now, disk, run>>
          BY <2>1 DEF Ask
    <2>2. PruneCommand \/ Load \/ Tell \/ UNCHANGED vars => UNCHANGED <<now, disk, run>>
          BY DEF PruneCommand, Load, Tell, vars
    <2> QED
        BY <1>1, <1>2, <1>3, <1>4, <1>5, <1>6, <1>7, <1>8, <2>1, <2>2 DEF Next

-----------------------------------------------------------------------------
(* What is told *)

\* What a Fix that has ended is, it stays; and a name that is gone is not made again.
LEMMA DoneStays ==
  ASSUME DisksIInv, [Next]_vars, NEW g \in Fixes, run[g].pc = "done"
  PROVE  run'[g] = run[g]
  <1>0. run \in [Fixes -> Runs]
        BY DEF DisksIInv, RunsOK
  <1>1. ASSUME NEW f \in Fixes,
               \/ Begin(f) \/ Mkdir(f) \/ Started(f) \/ Ask(f) \/ Attempt(f)
               \/ NoWorktree(f) \/ Diff(f) \/ Finish(f)
        PROVE  run'[g] = run[g]
    <2>1. CASE f = g
          BY <2>1, <1>1 DEF Begin, Mkdir, Started, Ask, Attempt, NoWorktree, Diff, Finish
    <2>2. CASE f # g
          BY <2>2, <1>0, <1>1 DEF Begin, Mkdir, Started, Ask, Attempt, NoWorktree, Diff, Finish
    <2> QED
        BY <2>1, <2>2
  <1>2. ASSUME NEW p \in {"daemon", "cli"}, PruneEntry(p) PROVE run'[g] = run[g]
        BY <1>2 DEF PruneEntry
  <1>3. PruneCommand \/ Load \/ Tell \/ Tick \/ UNCHANGED vars => run'[g] = run[g]
        BY DEF PruneCommand, Load, Tell, Tick, vars
  <1>4. Crash => run'[g] = run[g]
        BY DEF Crash, Running, Recording
  <1> QED
      BY <1>1, <1>2, <1>3, <1>4 DEF Next

\* The recording of a Fix that ended, once gone, stays gone.
LEMMA GoneStays ==
  ASSUME DisksIInv, [Next]_vars, NEW g \in Fixes, run[g].pc = "done", Gone(g)
  PROVE  Gone(g)'
  <1>0. run'[g] = run[g] /\ Made(g) /\ run[g].id \notin DOMAIN disk
        BY DoneStays DEF Gone, Made
  <1> SUFFICES run[g].id \notin DOMAIN disk'
      BY <1>0 DEF Gone
  <1>1. ASSUME NEW f \in Fixes, Mkdir(f) PROVE run[g].id \notin DOMAIN disk'
    <2>1. CASE run[f].id \in DOMAIN disk
          BY <2>1, <1>0, <1>1 DEF Mkdir
    <2>2. CASE run[f].id \notin DOMAIN disk
      <3>1. run[g].id # run[f].id
            BY <1>0, <1>1, <2>2, FreeIsNew DEF Mkdir
      <3>2. disk' = NewDir(run[f].id)
            BY <1>1, <2>2 DEF Mkdir
      <3>3. DOMAIN disk' = DOMAIN disk \cup {run[f].id}
            BY <2>2, <3>2, MadeDir
      <3> QED
          BY <3>1, <3>3, <1>0
    <2> QED
        BY <2>1, <2>2
  <1>2. ASSUME NEW f \in Fixes, Started(f) \/ Attempt(f) \/ Diff(f) \/ Finish(f)
        PROVE  run[g].id \notin DOMAIN disk'
    <2>1. \A ks, n : DOMAIN Written(f, ks, n) = DOMAIN disk
          BY DEF Written
    <2>2. DOMAIN disk' = DOMAIN disk
          BY <1>2, <2>1 DEF Started, Attempt, Diff, Finish
    <2> QED
        BY <2>2, <1>0
  <1>3. ASSUME NEW p \in {"daemon", "cli"}, PruneEntry(p) PROVE run[g].id \notin DOMAIN disk'
    <2>1. PICK i : disk' = Restrict(disk, DOMAIN disk \ {i}) \/ disk' = disk
          BY <1>3 DEF PruneEntry
    <2> QED
        BY <2>1, <1>0 DEF Restrict
  <1>4. ASSUME NEW f \in Fixes, Begin(f) \/ Ask(f) \/ NoWorktree(f) PROVE disk' = disk
        BY <1>4 DEF Begin, Ask, NoWorktree
  <1>5. PruneCommand \/ Load \/ Tell \/ Tick \/ Crash \/ UNCHANGED vars => disk' = disk
        BY DEF PruneCommand, Load, Tell, Tick, Crash, vars
  <1> QED
      BY <1>0, <1>1, <1>2, <1>3, <1>4, <1>5 DEF Next

\* No Fix reads of the others when the one that did is done.
LEMMA ReaderWaits ==
  ASSUME reader' = Waiting
  PROVE  ReaderIInv'
  <1>1. /\ reader'.fix = NoFix /\ reader'.left = {} /\ reader'.found = {}
        /\ reader'.told = {} /\ reader'.due = {}
        /\ reader' \in [fix : Fixes \cup {NoFix}, left : SUBSET Id, found : SUBSET [id : Id, fix : Fixes],
                        told : SUBSET [fix : Fixes, patch : BOOLEAN], due : SUBSET Fixes]
        BY DEF Waiting
  <1>2. IsFiniteSet({}) /\ Cardinality({}) = 0
        BY FS_EmptySet
  <1>3. ReaderTyped'
        BY <1>1, <1>2, Keeping DEF ReaderTyped
  <1>4. FoundIsTrue' /\ ToldIsTrue' /\ DueIsCome' /\ NewestFirst'
        BY <1>1 DEF FoundIsTrue, ToldIsTrue, DueIsCome, NewestFirst
  <1> QED
      BY <1>3, <1>4 DEF ReaderIInv

\* While others go on, what was read stays true.
LEMMA ReaderStays ==
  ASSUME SessionsIInv, [Next]_vars, reader' = reader,
         reader.fix # NoFix => run'[reader.fix].pc = "open"
  PROVE  ReaderIInv'
  <1>1. \A g \in Fixes : Ended(g) => Ended(g)' /\ run'[g] = run[g] /\ (Gone(g) => Gone(g)')
        BY DoneStays, GoneStays DEF SessionsIInv, Ended, Alike
  <1>2. /\ reader \in [fix : Fixes \cup {NoFix}, left : SUBSET Id, found : SUBSET [id : Id, fix : Fixes],
                       told : SUBSET [fix : Fixes, patch : BOOLEAN], due : SUBSET Fixes]
        /\ \A x \in reader.found : x.fix \in Fixes
        /\ \A t \in reader.told : t.fix \in Fixes
        /\ \A g \in reader.due : g \in Fixes
        BY DEF SessionsIInv, ReaderIInv, ReaderTyped
  <1>3. ReaderTyped'
        BY DEF SessionsIInv, ReaderIInv, ReaderTyped
  <1>4. FoundIsTrue'
        BY <1>1, <1>2 DEF SessionsIInv, ReaderIInv, FoundIsTrue
  <1>5. ToldIsTrue'
        BY <1>1, <1>2 DEF SessionsIInv, ReaderIInv, ToldIsTrue
  <1>6. DueIsCome'
        BY <1>1, <1>2 DEF SessionsIInv, ReaderIInv, DueIsCome
  <1>7. NewestFirst'
    <2>1. \A x \in reader.found, t \in reader.told : run'[x.fix] = run[x.fix] /\ run'[t.fix] = run[t.fix]
          BY <1>1, <1>2 DEF SessionsIInv, ReaderIInv, FoundIsTrue, ToldIsTrue
    <2> QED
        BY <2>1 DEF SessionsIInv, ReaderIInv, NewestFirst
  <1> QED
      BY <1>3, <1>4, <1>5, <1>6, <1>7 DEF ReaderIInv

\* The name of a recording begins as its repo's do.
LEMMA OwnName ==
  ASSUME RunsOK, NEW g \in Fixes, run[g].pc # "idle"
  PROVE  MayBelongTo(run[g].id, RepoOf[g])
  <1> DEFINE s == Slug[RepoOf[g]].nums
             n == run[g].try
  <1>1. s \in Seq(Nat) /\ n \in Nat
        BY Keeping DEF RunsOK, Runs
  <1>0. run[g].id = NewID(run[g].begun, RepoOf[g], run[g].try)
        BY DEF RunsOK
  <1>2. /\ run[g].id.base = Slug[RepoOf[g]].base
        /\ run[g].id.nums = IF n = 0 THEN s ELSE Append(s, n)
        BY <1>0 DEF NewID
  <1>3. Append(s, n) # <<>> /\ Append(s, n)[Len(Append(s, n))] = n
    <2>1. \A u \in Seq(Nat), m \in Nat :
            Append(u, m) # <<>> /\ Append(u, m)[Len(Append(u, m))] = m
          BY AppendProperties
    <2> QED
        BY <1>1, <2>1
  <1> HIDE DEF s, n
  <1>4. CASE n = 0
        BY <1>2, <1>4 DEF MayBelongTo, s
  <1>5. CASE n # 0
        BY <1>2, <1>3, <1>5 DEF MayBelongTo, s
  <1> QED
      BY <1>4, <1>5

\* It asks: whatever is due has a name that List lets through.
LEMMA AskReads ==
  ASSUME SessionsIInv, NEW f \in Fixes, Ask(f)
  PROVE  ReaderIInv'
  <1> DEFINE L == {i \in DOMAIN disk : MayBelongTo(i, RepoOf[f])}
             D == {g \in Fixes : run[g].pc = "done" /\ Alike(f, g) /\ run[g].id \in DOMAIN disk}
  <1>1. /\ reader' = [fix |-> f, left |-> L, found |-> {}, told |-> {}, due |-> D]
        /\ run' = run /\ disk' = disk /\ run[f].pc = "open"
        BY DEF Ask, Waiting
  <1>2. L \subseteq Id /\ D \subseteq Fixes
        BY DEF SessionsIInv, DisksIInv, DirsOK
  <1>3. ASSUME NEW g \in D PROVE run[g].id \in L /\ run[g].pc = "done" /\ Alike(g, f)
    <2>1. g \in Fixes /\ run[g].pc = "done" /\ RepoOf[g] = RepoOf[f] /\ Alike(g, f) /\ run[g].id \in DOMAIN disk
          BY DEF Alike
    <2>2. MayBelongTo(run[g].id, RepoOf[g])
          BY <2>1, OwnName DEF SessionsIInv, DisksIInv
    <2> QED
        BY <2>1, <2>2
  <1> HIDE DEF L, D
  <1>4. IsFiniteSet({}) /\ Cardinality({}) = 0
        BY FS_EmptySet
  <1>5. /\ reader'.fix = f /\ reader'.left = L /\ reader'.found = {} /\ reader'.told = {}
        /\ reader'.due = D
        BY <1>1
  <1>6. ReaderTyped'
    <2>1. reader' \in [fix : Fixes \cup {NoFix}, left : SUBSET Id, found : SUBSET [id : Id, fix : Fixes],
                      told : SUBSET [fix : Fixes, patch : BOOLEAN], due : SUBSET Fixes]
          BY <1>1, <1>2
    <2> QED
        BY <2>1, <1>1, <1>4, <1>5, Keeping DEF ReaderTyped
  <1>7. FoundIsTrue' /\ ToldIsTrue' /\ NewestFirst'
        BY <1>5 DEF FoundIsTrue, ToldIsTrue, NewestFirst
  <1>8. DueIsCome'
        BY <1>1, <1>3, <1>5 DEF DueIsCome, Ended, Alike
  <1> QED
      BY <1>6, <1>7, <1>8 DEF ReaderIInv

\* What it loads is what an ended Fix wrote, and an ended Fix is loaded if it is there.
LEMMA LoadReads ==
  ASSUME SessionsIInv, Load
  PROVE  ReaderIInv'
  <1> DEFINE f == reader.fix
  <1>1. PICK i \in reader.left :
          reader' = [reader EXCEPT
            !.left = @ \ {i},
            !.found = @ \cup {[id |-> i, fix |-> m.fix] :
                      m \in {m \in Meta(i) : m.n = 2 /\ Alike(m.fix, f) /\ i # run[f].id}}]
        BY DEF Load, First
  <1>2. run' = run /\ disk' = disk
        BY DEF Load
  <1>3. /\ reader \in [fix : Fixes \cup {NoFix}, left : SUBSET Id, found : SUBSET [id : Id, fix : Fixes],
                       told : SUBSET [fix : Fixes, patch : BOOLEAN], due : SUBSET Fixes]
        /\ f # NoFix /\ f \in Fixes /\ run[f].pc = "open" /\ reader.told = {} /\ i \in Id
        BY <1>1 DEF SessionsIInv, ReaderIInv, ReaderTyped, NewestFirst, Waiting
  <1> DEFINE got == {[id |-> i, fix |-> m.fix] :
                      m \in {m \in Meta(i) : m.n = 2 /\ Alike(m.fix, f) /\ i # run[f].id}}
  <1>4. ASSUME NEW m \in Meta(i), m.n = 2, Alike(m.fix, f)
        PROVE  m.fix \in Fixes /\ run[m.fix].pc = "done" /\ run[m.fix].id = i
    <2>1. i \in DOMAIN disk /\ HasMeta(i) /\ m = disk[i].files[<<"meta", 1>>]
          BY <1>4 DEF Meta, HasMeta
    <2>2. PICK h \in Fixes : Made(h) /\ run[h].id = i
          BY <2>1 DEF SessionsIInv, DisksIInv, Owned
    <2>3. Content(h)
          BY <2>1, <2>2 DEF SessionsIInv, DisksIInv, Contents, Gone
    <2>4. m.fix = h /\ run[h].pc = "done"
          BY <1>4, <2>1, <2>2, <2>3 DEF Content, HasMeta
    <2> QED
        BY <2>2, <2>4
  <1>5. ASSUME NEW g \in Fixes, run[g].pc = "done", Alike(g, f), run[g].id = i, ~Gone(g)
        PROVE  [id |-> i, fix |-> g] \in got
    <2>1. Made(g) /\ Made(f) /\ f # g
          BY <1>3, <1>5 DEF Made, Recording
    <2>2. i \in DOMAIN disk /\ Content(g)
          BY <2>1, <1>5 DEF SessionsIInv, DisksIInv, Contents, Gone
    <2>3. HasMeta(i)
          BY <1>5, <2>2 DEF Content
    <2> DEFINE m == disk[i].files[<<"meta", 1>>]
    <2>4. m.fix = g /\ m.n = 2
          BY <1>5, <2>2, <2>3 DEF Content, HasMeta
    <2>5. m \in Meta(i)
          BY <2>2, <2>3 DEF Meta, HasMeta
    <2>6. i # run[f].id
          BY <2>1, <1>3, <1>5 DEF SessionsIInv, DisksIInv, Apart
    <2> HIDE DEF m
    <2> QED
        BY <2>4, <2>5, <2>6, <1>5
  <1>6. \A x \in got : x.id = i /\ x.fix \in Fixes /\ run[x.fix].pc = "done" /\ Alike(x.fix, f) /\ run[x.fix].id = i
        BY <1>4
  <1>7. got \subseteq [id : Id, fix : Fixes]
        BY <1>3, <1>4
  <1>8. reader' = [reader EXCEPT !.left = @ \ {i}, !.found = @ \cup got]
        BY <1>1
  <1> HIDE DEF got
  <1>9. /\ reader'.fix = f /\ reader'.left = reader.left \ {i} /\ reader'.found = reader.found \cup got
        /\ reader'.told = {} /\ reader'.due = reader.due
        /\ reader' \in [fix : Fixes \cup {NoFix}, left : SUBSET Id, found : SUBSET [id : Id, fix : Fixes],
                        told : SUBSET [fix : Fixes, patch : BOOLEAN], due : SUBSET Fixes]
        BY <1>3, <1>7, <1>8
  <1>10. ReaderTyped'
    <2>1. IsFiniteSet(reader.told) /\ Cardinality(reader.told) <= Limit
          BY DEF SessionsIInv, ReaderIInv, ReaderTyped
    <2> QED
        BY <2>1, <1>2, <1>3, <1>9 DEF ReaderTyped
  <1>11. FoundIsTrue'
        BY <1>2, <1>6, <1>9 DEF SessionsIInv, ReaderIInv, FoundIsTrue, Ended, Alike
  <1>12. ToldIsTrue' /\ NewestFirst'
        BY <1>9 DEF ToldIsTrue, NewestFirst
  <1>13. DueIsCome'
    <2> SUFFICES ASSUME NEW g \in reader.due
                 PROVE  /\ run[g].pc = "done" /\ Alike(g, f)
                        /\ \/ Gone(g) \/ run[g].id \in reader'.left
                           \/ [id |-> run[g].id, fix |-> g] \in reader'.found
        BY <1>2, <1>9 DEF DueIsCome, Ended, Gone, Alike
    <2>1. /\ g \in Fixes /\ run[g].pc = "done" /\ Alike(g, f)
          /\ \/ Gone(g) \/ run[g].id \in reader.left
             \/ [id |-> run[g].id, fix |-> g] \in reader.found
          BY <1>3 DEF SessionsIInv, ReaderIInv, DueIsCome, Ended
    <2>2. CASE run[g].id = i /\ ~Gone(g)
          BY <2>1, <2>2, <1>5, <1>9
    <2>3. CASE run[g].id # i \/ Gone(g)
          BY <2>1, <2>3, <1>9
    <2> QED
        BY <2>2, <2>3
  <1> QED
      BY <1>10, <1>11, <1>12, <1>13 DEF ReaderIInv

\* It tells of the newest that it found and has not told of yet.
LEMMA TellReads ==
  ASSUME SessionsIInv, Tell
  PROVE  ReaderIInv'
  <1> DEFINE f == reader.fix
             P(x) == x.id \in DOMAIN disk /\ <<"diff", 1>> \in DOMAIN disk[x.id].files
  <1>1. PICK x \in reader.found :
          /\ \A y \in reader.found : run[y.fix].begun <= run[x.fix].begun
          /\ reader' = [reader EXCEPT !.found = @ \ {x}, !.told = @ \cup {[fix |-> x.fix, patch |-> P(x)]}]
        BY DEF Tell
  <1> DEFINE new == [fix |-> x.fix, patch |-> P(x)]
  <1>2. /\ run' = run /\ disk' = disk /\ f # NoFix /\ reader.left = {} /\ Cardinality(reader.told) < Limit
        BY DEF Tell
  <1>3. /\ reader \in [fix : Fixes \cup {NoFix}, left : SUBSET Id, found : SUBSET [id : Id, fix : Fixes],
                       told : SUBSET [fix : Fixes, patch : BOOLEAN], due : SUBSET Fixes]
        /\ run[f].pc = "open" /\ IsFiniteSet(reader.told) /\ x.fix \in Fixes
        BY <1>2 DEF SessionsIInv, ReaderIInv, ReaderTyped
  <1>4. run[x.fix].pc = "done" /\ Alike(x.fix, f) /\ run[x.fix].id = x.id
        BY DEF SessionsIInv, ReaderIInv, FoundIsTrue, Ended
  <1>5. Gone(x.fix) \/ (P(x) <=> run[x.fix].patch = TRUE)
    <2> SUFFICES ASSUME ~Gone(x.fix) PROVE P(x) <=> run[x.fix].patch = TRUE
        OBVIOUS
    <2>1. x.id \in DOMAIN disk /\ Content(x.fix)
          BY <1>3, <1>4 DEF SessionsIInv, DisksIInv, Contents, Gone, Made
    <2> QED
        BY <2>1, <1>4 DEF Content, HasDiff
  <1>6. P(x) \in BOOLEAN
        OBVIOUS
  <1>7. /\ new \in [fix : Fixes, patch : BOOLEAN] /\ new.fix = x.fix
        /\ new.patch = TRUE <=> P(x)
        BY <1>3, <1>6
  <1>8. reader' = [reader EXCEPT !.found = @ \ {x}, !.told = @ \cup {new}]
        BY <1>1
  <1> HIDE DEF P, new
  <1>9. /\ reader'.fix = f /\ reader'.left = {} /\ reader'.found = reader.found \ {x}
        /\ reader'.told = reader.told \cup {new} /\ reader'.due = reader.due
        /\ reader' \in [fix : Fixes \cup {NoFix}, left : SUBSET Id, found : SUBSET [id : Id, fix : Fixes],
                        told : SUBSET [fix : Fixes, patch : BOOLEAN], due : SUBSET Fixes]
        BY <1>2, <1>3, <1>7, <1>8
  <1>10. ReaderTyped'
    <2>1. /\ IsFiniteSet(reader.told \cup {new})
          /\ Cardinality(reader.told \cup {new}) = Cardinality(reader.told)
             \/ Cardinality(reader.told \cup {new}) = Cardinality(reader.told) + 1
          BY <1>3, FS_AddElement
    <2>2. Cardinality(reader.told) \in Nat
          BY <1>3, FS_CardinalityType
    <2>3. Cardinality(reader.told \cup {new}) <= Limit
          BY <2>1, <2>2, <1>2, Keeping
    <2> QED
        BY <2>1, <2>3, <1>2, <1>3, <1>9 DEF ReaderTyped
  <1>11. FoundIsTrue'
        BY <1>2, <1>9 DEF SessionsIInv, ReaderIInv, FoundIsTrue, Ended, Alike
  <1>12. ToldIsTrue'
    <2> SUFFICES ASSUME NEW t \in reader.told \cup {new}
                 PROVE  /\ run[t.fix].pc = "done" /\ Alike(t.fix, f)
                        /\ (t.patch = TRUE <=> run[t.fix].patch = TRUE) \/ Gone(t.fix)
        BY <1>2, <1>9 DEF ToldIsTrue, Ended, Gone, Alike
    <2>1. CASE t = new
          BY <2>1, <1>4, <1>5, <1>7
    <2>2. CASE t \in reader.told
          BY <2>2 DEF SessionsIInv, ReaderIInv, ToldIsTrue, Ended
    <2> QED
        BY <2>1, <2>2
  <1>13. NewestFirst'
    <2>1. \A y \in reader.found, t \in reader.told : run[y.fix].begun <= run[t.fix].begun
          BY DEF SessionsIInv, ReaderIInv, NewestFirst
    <2> QED
        BY <2>1, <1>1, <1>2, <1>7, <1>9 DEF NewestFirst
  <1>14. DueIsCome'
    <2> SUFFICES ASSUME NEW g \in reader.due
                 PROVE  /\ run[g].pc = "done" /\ Alike(g, f)
                        /\ \/ Gone(g) \/ [id |-> run[g].id, fix |-> g] \in reader'.found
                           \/ \E t \in reader'.told : t.fix = g
        BY <1>2, <1>9 DEF DueIsCome, Ended, Gone, Alike
    <2>1. /\ run[g].pc = "done" /\ Alike(g, f)
          /\ \/ Gone(g) \/ [id |-> run[g].id, fix |-> g] \in reader.found
             \/ \E t \in reader.told : t.fix = g
          BY <1>2 DEF SessionsIInv, ReaderIInv, DueIsCome, Ended
    <2>2. CASE [id |-> run[g].id, fix |-> g] = x
      <3>1. new.fix = g
            BY <2>2, <1>7
      <3> QED
          BY <3>1, <2>1, <1>9
    <2>3. CASE [id |-> run[g].id, fix |-> g] # x
          BY <2>1, <2>3, <1>9
    <2> QED
        BY <2>2, <2>3
  <1> QED
      BY <1>10, <1>11, <1>12, <1>13, <1>14 DEF ReaderIInv

\* Every step keeps what Recent has found and told.
LEMMA ReaderStep ==
  ASSUME SessionsIInv, [Next]_vars
  PROVE  ReaderIInv'
  <1>0. run \in [Fixes -> Runs] /\ (reader.fix # NoFix => reader.fix \in Fixes /\ run[reader.fix].pc = "open")
        BY DEF SessionsIInv, DisksIInv, RunsOK, ReaderIInv, ReaderTyped
  <1>1. ASSUME NEW f \in Fixes, Begin(f) \/ Mkdir(f) \/ Started(f) \/ NoWorktree(f) \/ Finish(f)
        PROVE  ReaderIInv'
    <2>1. reader' = reader /\ (run[f].pc = "open" => reader.fix # f)
          BY <1>1 DEF Begin, Mkdir, Started, NoWorktree, Finish
    <2>2. \A g \in Fixes \ {f} : run'[g] = run[g]
          BY <1>0, <1>1 DEF Begin, Mkdir, Started, NoWorktree, Finish
    <2> QED
        BY <2>1, <2>2, <1>0, ReaderStays
  <1>2. ASSUME NEW f \in Fixes, Attempt(f) \/ Diff(f) PROVE ReaderIInv'
    <2>1. reader' = IF reader.fix = f THEN Waiting ELSE reader
          BY <1>2 DEF Attempt, Diff, Answer
    <2>2. \A g \in Fixes \ {f} : run'[g] = run[g]
          BY <1>0, <1>2 DEF Attempt, Diff
    <2>3. CASE reader.fix = f
          BY <2>1, <2>3, ReaderWaits
    <2>4. CASE reader.fix # f
          BY <2>1, <2>2, <2>4, <1>0, ReaderStays
    <2> QED
        BY <2>3, <2>4
  <1>3. ASSUME NEW f \in Fixes, Ask(f) PROVE ReaderIInv'
        BY <1>3, AskReads
  <1>4. CASE Load
        BY <1>4, LoadReads
  <1>5. CASE Tell
        BY <1>5, TellReads
  <1>6. CASE Crash
    <2>1. reader' = Waiting
          BY <1>6 DEF Crash
    <2> QED
        BY <2>1, ReaderWaits
  <1>7. CASE UNCHANGED <<run, reader>>
        BY <1>7, <1>0, ReaderStays
  <1> QED
    <2>1. ASSUME NEW p \in {"daemon", "cli"}, PruneEntry(p) PROVE UNCHANGED <<run, reader>>
          BY <2>1 DEF PruneEntry
    <2>2. PruneCommand \/ Tick \/ UNCHANGED vars => UNCHANGED <<run, reader>>
          BY DEF PruneCommand, Tick, vars
    <2> QED
        BY <1>1, <1>2, <1>3, <1>4, <1>5, <1>6, <1>7, <2>1, <2>2 DEF Next

-----------------------------------------------------------------------------
\* A start has no directories, no sweeps and no reader.
LEMMA SessionsInitially == Init => SessionsIInv
  <1> SUFFICES ASSUME Init PROVE SessionsIInv
      OBVIOUS
  <1>0. /\ now = 0 /\ disk = <<>> /\ DOMAIN disk = {} /\ lastPrune = -PruneEvery /\ reader = Waiting
        /\ \A f \in Fixes : run[f] = [pc |-> "idle", id |-> NoFix, try |-> 0, begun |-> 0,
                                    attempt |-> 0, patch |-> FALSE]
        /\ run = [f \in Fixes |-> run[f]]
        /\ prune = [p \in {"daemon", "cli"} |-> Idle]
    <2>1. DOMAIN <<>> = {}
          OBVIOUS
    <2> QED
        BY <2>1 DEF Init
  <1>1. RunsOK
    <2>1. [pc |-> "idle", id |-> NoFix, try |-> 0, begun |-> 0, attempt |-> 0, patch |-> FALSE] \in Runs
          BY Keeping DEF Runs, Pcs
    <2>2. run \in [Fixes -> Runs]
          BY <2>1, <1>0
    <2> QED
        BY <2>2, <1>0, Keeping DEF RunsOK
  <1>2. DirsOK /\ Owned
        BY <1>0 DEF DirsOK, Owned
  <1>3. SweepsOK
        BY <1>0, Keeping DEF SweepsOK, Idle
  <1>4. Apart /\ Deleted /\ Contents
        BY <1>0 DEF Apart, Deleted, Contents, Made, Recording
  <1>5. ReaderIInv
    <2>1. /\ reader \in [fix : Fixes \cup {NoFix}, left : SUBSET Id, found : SUBSET [id : Id, fix : Fixes],
                         told : SUBSET [fix : Fixes, patch : BOOLEAN], due : SUBSET Fixes]
          /\ reader.fix = NoFix /\ reader.found = {} /\ reader.told = {} /\ reader.due = {}
          BY <1>0 DEF Waiting
    <2>2. IsFiniteSet({}) /\ Cardinality({}) = 0
          BY FS_EmptySet
    <2>3. ReaderTyped
          BY <2>1, <2>2, <1>0, Keeping DEF ReaderTyped
    <2> QED
        BY <2>1, <2>3 DEF ReaderIInv, FoundIsTrue, ToldIsTrue, DueIsCome, NewestFirst
  <1> QED
      BY <1>1, <1>2, <1>3, <1>4, <1>5 DEF SessionsIInv, DisksIInv

\* The inductive invariant: whose each directory is, what is in it as far as its Fix has
\* come, and what Recent knows of it (Start, AttemptFile, Finish, Prune, Recent).
THEOREM SessionsInvariance == Spec => []SessionsIInv
  <1>1. SessionsIInv /\ [Next]_vars => SessionsIInv'
        BY DisksStep, ReaderStep DEF SessionsIInv
  <1> QED
      BY SessionsInitially, <1>1, PTL DEF Spec

\* A recording is its Fix's own and stands while the Fix runs, until Retain after it
\* began, and what a Fix is told of are other Fixes' ends, the last ones first and none
\* half-written.
THEOREM RecordsAlwaysServe == Spec => []RecordsServe
  <1>1. SessionsIInv => RecordsStand
    <2> SUFFICES ASSUME SessionsIInv, NEW f \in Fixes
                 PROVE  /\ run[f].pc \in Recording /\ now < run[f].begun + Retain =>
                             run[f].id \in DOMAIN disk
                        /\ run[f].pc \notin {"idle", "mkdir", "bare"} /\ run[f].id \in DOMAIN disk =>
                             \A k \in DOMAIN disk[run[f].id].files :
                               LET c == disk[run[f].id].files[k] IN c.fix = f /\ (k[1] # "meta" => c.n = k[2])
        BY DEF RecordsStand
    <2>1. run[f].pc \in Pcs
          BY DEF SessionsIInv, DisksIInv, RunsOK, Runs
    <2>2. run[f].pc \notin {"idle", "mkdir", "bare"} => Made(f)
          BY <2>1 DEF Pcs, Made, Recording
    <2>3. run[f].pc \in Recording /\ now < run[f].begun + Retain => run[f].id \in DOMAIN disk
          BY Standing DEF SessionsIInv
    <2>4. Made(f) /\ run[f].id \in DOMAIN disk => Content(f)
          BY DEF SessionsIInv, DisksIInv, Contents, Gone
    <2> QED
        BY <2>2, <2>3, <2>4 DEF Content
  <1>2. SessionsIInv => ToldIsRecent
    <2> SUFFICES ASSUME SessionsIInv, reader.fix # NoFix PROVE ToldIsRecent
        BY DEF ToldIsRecent
    <2> DEFINE f == reader.fix
    <2>1. /\ run[f].pc = "open"
          /\ reader.told \subseteq [fix : Fixes, patch : BOOLEAN]
          /\ \A g \in Fixes : run[g].patch \in BOOLEAN
          BY DEF SessionsIInv, DisksIInv, RunsOK, Runs, ReaderIInv, ReaderTyped
    <2>2. ASSUME NEW t \in reader.told
          PROVE  /\ t.fix # f /\ Alike(t.fix, f) /\ run[t.fix].pc = "done"
                 /\ t.patch = run[t.fix].patch \/ Gone(t.fix)
      <3>1. /\ run[t.fix].pc = "done" /\ Alike(t.fix, f)
            /\ (t.patch = TRUE <=> run[t.fix].patch = TRUE) \/ Gone(t.fix)
            BY DEF SessionsIInv, ReaderIInv, ToldIsTrue, Ended
      <3>2. t.fix \in Fixes /\ t.patch \in BOOLEAN /\ run[t.fix].patch \in BOOLEAN
            BY <2>1
      <3> QED
          BY <3>1, <3>2, <2>1
    <2>3. ASSUME reader.left = {}, NEW g \in reader.due \ {t.fix : t \in reader.told}
          PROVE  Gone(g) \/ [id |-> run[g].id, fix |-> g] \in reader.found
          BY <2>3 DEF SessionsIInv, ReaderIInv, DueIsCome
    <2>4. ASSUME NEW g, [id |-> run[g].id, fix |-> g] \in reader.found, NEW t \in reader.told
          PROVE  run[g].begun <= run[t.fix].begun
      <3>1. [id |-> run[g].id, fix |-> g].fix = g
            OBVIOUS
      <3> QED
          BY <2>4, <3>1 DEF SessionsIInv, ReaderIInv, NewestFirst
    <2> QED
        BY <2>2, <2>3, <2>4 DEF ToldIsRecent
  <1> QED
      BY SessionsInvariance, <1>1, <1>2, PTL DEF RecordsServe

\* The clock, the recordings, the sweeps and what is read stay of their types, and no
\* more is told than PriorFixes allows.
THEOREM SessionsTypeCorrect == Spec => []TypeOK
  <1>1. SessionsIInv => TypeOK
    <2> SUFFICES ASSUME SessionsIInv PROVE TypeOK
        OBVIOUS
    <2>0. now \in 0 .. MaxTime /\ MaxTime \in Nat
          BY Keeping DEF SessionsIInv, DisksIInv, RunsOK
    <2>1. ASSUME NEW i \in DOMAIN disk
          PROVE  /\ i \in Id /\ disk[i].mtime \in 0 .. now
                 /\ \A k \in DOMAIN disk[i].files : k \in Name /\ disk[i].files[k] \in File
      <3>1. /\ i \in Id /\ disk[i] \in [mtime : Int, files : Files]
            /\ i.at <= disk[i].mtime /\ disk[i].mtime <= now
            BY DEF SessionsIInv, DisksIInv, DirsOK
      <3>2. disk[i].files \in Files /\ i.at \in 0 .. MaxTime
            BY <3>1 DEF Id
      <3> QED
          BY <3>1, <3>2, <2>0, FilesAre
    <2>2. ASSUME NEW f \in Fixes
          PROVE  /\ run[f].pc \in Pcs
                 /\ run[f].pc # "idle" => run[f].id \in Id /\ run[f].begun \in 0 .. now
                 /\ run[f].try \in 0 .. MaxSuffix + 1 /\ run[f].attempt \in 0 .. MaxAttempts
                 /\ run[f].try = MaxSuffix + 1 => run[f].pc = "bare"
      <3>1. run[f] \in Runs /\ (run[f].try = MaxSuffix + 1 => run[f].pc = "bare")
            BY DEF SessionsIInv, DisksIInv, RunsOK
      <3>2. run[f].pc # "idle" => run[f].id \in Id /\ run[f].begun <= now
            BY Named DEF SessionsIInv, DisksIInv, RunsOK
      <3> QED
          BY <3>1, <3>2, <2>0 DEF Runs
    <2>3. /\ lastPrune \in -PruneEvery .. now
          /\ \A p \in DOMAIN prune : prune[p].cutoff <= now
          BY DEF SessionsIInv, DisksIInv, SweepsOK
    <2>4. reader.fix \in Fixes \cup {NoFix} /\ Cardinality(reader.told) <= Limit
          BY DEF SessionsIInv, ReaderIInv, ReaderTyped
    <2> QED
        BY <2>0, <2>1, <2>2, <2>3, <2>4 DEF TypeOK, Pcs
  <1> QED
      BY SessionsInvariance, <1>1, PTL

-----------------------------------------------------------------------------
(* Login *)

InCallback == {"verify", "fetch", "apply"}

\* The types that the proofs need
LoginTyped ==
  /\ atMinute \in Nat /\ viewers \in BOOLEAN
  /\ groups \in [Browsers -> Members]
  /\ granted \in [Browsers -> [Roles -> Int]]
  /\ session = [b \in Browsers |-> session[b]]
  /\ token = [t \in Tabs |-> token[t]]
  /\ tpc = [t \in Tabs |-> tpc[t]]

\* A role that a user has is granted now, and none later than now.
GrantedNow == \A b \in Browsers :
  /\ \A r \in Roles : granted[b][r] <= atMinute
  /\ Role(groups[b]) \in Roles => granted[b][Role(groups[b])] = atMinute

\* The role of a token was granted when the token was issued ...
TokenGranted == \A t \in Tabs : tpc[t] \in InCallback =>
  LET role == Role(token[t].groups)
  IN  /\ token[t].groups \in Members /\ token[t].at \in Nat
      /\ role \in Roles => granted[Owner[t]][role] >= token[t].at

\* ... and that of a session not too long before the session began.
SessionGranted == \A b \in Browsers : session[b] # None =>
  /\ session[b].role \in Roles /\ session[b].exp \in Nat
  /\ granted[b][session[b].role] >= 0
  /\ granted[b][session[b].role] + FlowTTL + SessionTTL >= session[b].exp

\* Every fetch is marked.
FetchMarked == asked \in Int /\ fetched \in Int /\ asked <= fetched /\ fetched <= atMinute

LoginIInv == LoginTyped /\ GrantedNow /\ TokenGranted /\ SessionGranted /\ FetchMarked

-----------------------------------------------------------------------------
\* The lifetimes are numbers, and every tab has a browser.
LEMMA Lifetimes ==
  /\ SessionTTL \in Nat /\ FlowTTL \in Nat
  /\ \A t \in Tabs : Owner[t] \in Browsers
  /\ None \notin Members
  BY LoginAssumption

\* A user has a role or none.
LEMMA RoleType ==
  ASSUME NEW g \in Members
  PROVE  Role(g) \in Roles \cup {None} /\ (Role(g) # None <=> Role(g) \in Roles)
  BY Lifetimes DEF Role, Roles, Members

\* Only the clock and the issuer change what was granted when, and only to a later time.
LEMMA GrantedRises ==
  ASSUME LoginIInv, [LoginNext]_loginVars
  PROVE  /\ \A b \in Browsers : \A r \in Roles :
              granted'[b][r] \in Int /\ granted[b][r] \in Int /\ granted'[b][r] >= granted[b][r]
         /\ viewers' = viewers
  <1>1. LoginTyped /\ GrantedNow
        BY DEF LoginIInv
  <1>2. \A b \in Browsers : \A r \in Roles : granted[b][r] \in Int /\ granted[b][r] <= atMinute
        BY <1>1 DEF LoginTyped, GrantedNow
  <1>3. CASE UNCHANGED <<granted, viewers>>
        BY <1>2, <1>3
  <1>4. CASE TickMinute
    <2>1. \A b \in Browsers : \A r \in Roles : granted'[b][r] \in {atMinute + 1, granted[b][r]}
          BY <1>4 DEF TickMinute
    <2> QED
        BY <1>1, <1>2, <1>4, <2>1 DEF TickMinute, LoginTyped
  <1>5. ASSUME NEW b \in Browsers, NEW g \in Members, Regroup(b, g)
        PROVE  /\ \A x \in Browsers : \A r \in Roles :
                    granted'[x][r] \in Int /\ granted'[x][r] >= granted[x][r]
               /\ viewers' = viewers
    <2>1. \A x \in Browsers : \A r \in Roles : granted'[x][r] \in {atMinute, granted[x][r]}
          BY <1>1, <1>5 DEF Regroup, LoginTyped
    <2> QED
        BY <1>1, <1>2, <1>5, <2>1 DEF Regroup, LoginTyped
  <1>6. CASE UNCHANGED loginVars \/ (\E kept \in BOOLEAN : Rotate(kept))
               \/ (\E b \in Browsers : Logout(b))
        BY <1>3, <1>6 DEF loginVars, issuer, Rotate, Logout
  <1>7. ASSUME NEW t \in Tabs, \/ Start(t) \/ Refuse(t) \/ Callback(t) \/ Abandon(t)
                               \/ Verify(t) \/ BeginFetch(t) \/ Fetch(t) \/ Apply(t)
        PROVE  UNCHANGED <<granted, viewers>>
        BY <1>7 DEF Start, Refuse, Callback, Abandon, Verify, BeginFetch, Fetch, Apply, issuer
  <1> QED
      BY <1>2, <1>3, <1>4, <1>5, <1>6, <1>7 DEF LoginNext

\* Every step keeps the types, and what is granted now.
LEMMA IssuerStep ==
  ASSUME LoginIInv, [LoginNext]_loginVars
  PROVE  LoginTyped' /\ GrantedNow'
  <1>1. LoginTyped /\ GrantedNow
        BY DEF LoginIInv
  <1>2. CASE TickMinute
    <2>1. atMinute' \in Nat /\ atMinute' = atMinute + 1
          BY <1>1, <1>2 DEF TickMinute, LoginTyped
    <2>2. granted' = [b \in Browsers |->
            [r \in Roles |-> IF Role(groups[b]) = r THEN atMinute + 1 ELSE granted[b][r]]]
          BY <1>2 DEF TickMinute
    <2>3. granted' \in [Browsers -> [Roles -> Int]]
          BY <1>1, <2>1, <2>2 DEF LoginTyped
    <2>4. UNCHANGED <<groups, viewers, session, token, tpc>>
          BY <1>2 DEF TickMinute, cookies, tabs
    <2>5. \A b \in Browsers : Role(groups[b])' = Role(groups[b])
          BY <2>4 DEF Role
    <2>6. \A b \in Browsers : \A r \in Roles : granted[b][r] \in Int /\ granted[b][r] <= atMinute
          BY <1>1 DEF LoginTyped, GrantedNow
    <2>7. GrantedNow'
          BY <1>1, <2>1, <2>2, <2>5, <2>6 DEF GrantedNow, LoginTyped
    <2> QED
        BY <1>1, <2>1, <2>3, <2>4, <2>7 DEF LoginTyped
  <1>3. ASSUME NEW b \in Browsers, NEW g \in Members, Regroup(b, g)
        PROVE  LoginTyped' /\ GrantedNow'
    <2>1. UNCHANGED <<atMinute, viewers, session, token, tpc>>
          BY <1>3 DEF Regroup, cookies, tabs
    <2>2. groups' = [groups EXCEPT ![b] = g] /\ groups' \in [Browsers -> Members]
          BY <1>1, <1>3 DEF Regroup, LoginTyped
    <2> DEFINE given == [r \in Roles |-> IF Role(g) = r THEN atMinute ELSE granted[b][r]]
    <2>3. granted' = [granted EXCEPT ![b] = given]
          BY <1>3 DEF Regroup
    <2>4. given \in [Roles -> Int]
          BY <1>1 DEF LoginTyped
    <2>5. granted' \in [Browsers -> [Roles -> Int]]
          BY <1>1, <2>3, <2>4 DEF LoginTyped
    <2>6. \A x \in Browsers : granted'[x] = IF x = b THEN given ELSE granted[x]
          BY <1>1, <2>3 DEF LoginTyped
    <2>7. \A x \in Browsers : Role(groups[x])' = IF x = b THEN Role(g) ELSE Role(groups[x])
          BY <1>1, <2>1, <2>2 DEF Role, LoginTyped
    <2>8. \A x \in Browsers : \A r \in Roles : granted'[x][r] <= atMinute'
      <3>1. \A x \in Browsers : \A r \in Roles : granted[x][r] \in Int /\ granted[x][r] <= atMinute
            BY <1>1 DEF GrantedNow, LoginTyped
      <3>2. atMinute' = atMinute /\ atMinute \in Int
            BY <1>1, <2>1 DEF LoginTyped
      <3>3. \A r \in Roles : given[r] <= atMinute
            BY <3>1, <3>2
      <3> QED
          BY <2>6, <3>1, <3>2, <3>3
    <2>9. \A x \in Browsers : Role(groups[x])' \in Roles =>
            granted'[x][Role(groups[x])'] = atMinute'
          BY <1>1, <2>1, <2>6, <2>7 DEF GrantedNow
    <2> QED
        BY <1>1, <2>1, <2>2, <2>5, <2>8, <2>9 DEF LoginTyped, GrantedNow
  <1>4. ASSUME UNCHANGED <<atMinute, groups, viewers, granted>>
        PROVE  GrantedNow'
        BY <1>1, <1>4 DEF GrantedNow, Role
  <1>5. ASSUME NEW t \in Tabs, EndLogin(t)
        PROVE  token' = [x \in Tabs |-> token'[x]] /\ tpc' = [x \in Tabs |-> tpc'[x]]
        BY <1>1, <1>5 DEF EndLogin, LoginTyped
  <1>6. CASE UNCHANGED loginVars
        BY <1>1, <1>4, <1>6 DEF LoginTyped, loginVars, issuer, cookies, tabs
  <1>7. CASE \E kept \in BOOLEAN : Rotate(kept)
        BY <1>1, <1>4, <1>7 DEF LoginTyped, Rotate, cookies, tabs
  <1>8. ASSUME NEW b \in Browsers, Logout(b)
        PROVE  LoginTyped' /\ GrantedNow'
        BY <1>1, <1>4, <1>8 DEF LoginTyped, Logout, issuer, tabs
  <1>9. ASSUME NEW t \in Tabs, \/ Start(t) \/ Refuse(t) \/ Callback(t) \/ Abandon(t)
                               \/ Verify(t) \/ BeginFetch(t) \/ Fetch(t) \/ Apply(t)
        PROVE  LoginTyped' /\ GrantedNow'
    <2>1. UNCHANGED <<atMinute, groups, viewers, granted>>
          BY <1>9 DEF Start, Refuse, Callback, Abandon, Verify, BeginFetch, Fetch, Apply, issuer
    <2>2. session' = [b \in Browsers |-> session'[b]]
          BY <1>1, <1>9 DEF LoginTyped, Start, Refuse, Callback, Abandon, Verify, BeginFetch, Fetch,
             Apply, SignIn, cookies
    <2>3. token' = [x \in Tabs |-> token'[x]] /\ tpc' = [x \in Tabs |-> tpc'[x]]
          BY <1>1, <1>5, <1>9 DEF LoginTyped, Start, Refuse, Callback, Abandon, Verify, BeginFetch,
             Fetch, Apply, SignIn, tabs
    <2> QED
        BY <1>1, <1>4, <2>1, <2>2, <2>3 DEF LoginTyped
  <1> QED
      BY <1>2, <1>3, <1>6, <1>7, <1>8, <1>9 DEF LoginNext

\* A token says what the issuer knew when it issued it.
LEMMA TokenStep ==
  ASSUME LoginIInv, [LoginNext]_loginVars
  PROVE  TokenGranted'
  <1>1. LoginTyped /\ GrantedNow /\ TokenGranted
        BY DEF LoginIInv
  <1>2. /\ \A b \in Browsers : \A r \in Roles :
             granted'[b][r] \in Int /\ granted[b][r] \in Int /\ granted'[b][r] >= granted[b][r]
        /\ viewers' = viewers
        BY GrantedRises
  <1>4. ASSUME NEW t \in Tabs, tpc[t] \in InCallback, token'[t] = token[t]
        PROVE  LET role == Role(token[t].groups)'
               IN  /\ token'[t].groups \in Members /\ token'[t].at \in Nat
                   /\ role \in Roles => granted'[Owner[t]][role] >= token'[t].at
    <2>1. /\ token[t].groups \in Members /\ token[t].at \in Nat
          /\ Role(token[t].groups) \in Roles =>
               granted[Owner[t]][Role(token[t].groups)] >= token[t].at
          BY <1>1, <1>4 DEF TokenGranted
    <2>2. Role(token[t].groups)' = Role(token[t].groups)
          BY <1>2, <1>4 DEF Role
    <2>3. Owner[t] \in Browsers
          BY Lifetimes
    <2> HIDE DEF InCallback
    <2> QED
        BY <1>2, <1>4, <2>1, <2>2, <2>3
  <1>5. ASSUME NEW t \in Tabs,
               \A x \in Tabs \ {t} : tpc'[x] = tpc[x] /\ token'[x] = token[x],
               \/ tpc'[t] \notin InCallback
               \/ tpc[t] \in InCallback /\ token'[t] = token[t]
        PROVE  TokenGranted'
        BY <1>4, <1>5 DEF TokenGranted
  <1>6. CASE UNCHANGED <<tpc, token>>
        BY <1>4, <1>6 DEF TokenGranted
  <1>7. ASSUME NEW t \in Tabs, EndLogin(t)
        PROVE  TokenGranted'
    <2>1. tpc'[t] = "none" /\ \A x \in Tabs \ {t} : tpc'[x] = tpc[x] /\ token'[x] = token[x]
          BY <1>1, <1>7 DEF EndLogin, LoginTyped
    <2> QED
        BY <1>5, <2>1 DEF InCallback
  <1>8. CASE UNCHANGED loginVars \/ TickMinute \/ (\E kept \in BOOLEAN : Rotate(kept))
             \/ (\E b \in Browsers : Logout(b) \/ \E g \in Members : Regroup(b, g))
        BY <1>6, <1>8 DEF loginVars, tabs, TickMinute, Rotate, Logout, Regroup
  <1>9. ASSUME NEW t \in Tabs, Refuse(t) \/ Abandon(t) \/ Verify(t) \/ Apply(t)
        PROVE  TokenGranted'
        BY <1>7, <1>9 DEF Refuse, Abandon, Verify, Apply, SignIn
  <1>10. ASSUME NEW t \in Tabs, Start(t) \/ BeginFetch(t)
         PROVE  TokenGranted'
    <2>1. UNCHANGED token /\ \A x \in Tabs \ {t} : tpc'[x] = tpc[x]
          BY <1>1, <1>10 DEF Start, BeginFetch, LoginTyped
    <2>2. tpc'[t] = "issuer" \/ tpc[t] = "verify"
          BY <1>1, <1>10 DEF Start, BeginFetch, LoginTyped
    <2> QED
        BY <1>5, <2>1, <2>2 DEF InCallback
  <1>11. ASSUME NEW t \in Tabs, Fetch(t)
         PROVE  TokenGranted'
    <2>1. CASE EndLogin(t)
          BY <1>7, <2>1
    <2>2. CASE tpc' = [tpc EXCEPT ![t] = "apply"] /\ UNCHANGED token
      <3>1. tpc[t] \in InCallback /\ \A x \in Tabs \ {t} : tpc'[x] = tpc[x]
            BY <1>1, <1>11, <2>2 DEF Fetch, LoginTyped, InCallback
      <3> QED
          BY <1>5, <2>2, <3>1
    <2> QED
        BY <1>11, <2>1, <2>2 DEF Fetch
  <1>12. ASSUME NEW t \in Tabs, Callback(t)
         PROVE  TokenGranted'
    <2>1. CASE EndLogin(t)
          BY <1>7, <2>1
    <2>2. CASE /\ tpc' = [tpc EXCEPT ![t] = "verify"]
               /\ token' = [token EXCEPT ![t] =
                    [kid |-> Newest(published), groups |-> groups[Owner[t]], at |-> atMinute]]
      <3>1. \A x \in Tabs \ {t} : tpc'[x] = tpc[x] /\ token'[x] = token[x]
            BY <1>1, <2>2 DEF LoginTyped
      <3>2. token'[t].groups = groups[Owner[t]] /\ token'[t].at = atMinute
            BY <1>1, <2>2 DEF LoginTyped
      <3>3. groups[Owner[t]] \in Members /\ atMinute \in Nat
            BY <1>1, Lifetimes DEF LoginTyped
      <3>4. Role(groups[Owner[t]]) \in Roles =>
              granted'[Owner[t]][Role(groups[Owner[t]])] >= atMinute
        <4>1. UNCHANGED granted
              BY <1>12 DEF Callback, issuer
        <4> QED
            BY <1>1, <3>3, <4>1, Lifetimes DEF GrantedNow
      <3>5. Role(token[t].groups)' = Role(groups[Owner[t]])
            BY <1>2, <3>2 DEF Role
      <3> QED
          BY <1>4, <3>1, <3>2, <3>3, <3>4, <3>5 DEF TokenGranted
    <2> QED
        BY <1>12, <2>1, <2>2 DEF Callback
  <1> QED
      BY <1>8, <1>9, <1>10, <1>11, <1>12 DEF LoginNext

\* A session begins with a token that is not too old, and has its time.
LEMMA SessionStep ==
  ASSUME LoginIInv, [LoginNext]_loginVars
  PROVE  SessionGranted'
  <1>1. LoginTyped /\ TokenGranted /\ SessionGranted
        BY DEF LoginIInv
  <1>2. \A b \in Browsers : \A r \in Roles :
          granted'[b][r] \in Int /\ granted[b][r] \in Int /\ granted'[b][r] >= granted[b][r]
        BY GrantedRises
  <1>3. ASSUME NEW b \in Browsers, session'[b] = session[b], session[b] # None
        PROVE  /\ session'[b].role \in Roles /\ session'[b].exp \in Nat
               /\ granted'[b][session'[b].role] >= 0
               /\ granted'[b][session'[b].role] + FlowTTL + SessionTTL >= session'[b].exp
        BY <1>1, <1>2, <1>3, Lifetimes DEF SessionGranted
  <1>4. CASE UNCHANGED session
        BY <1>3, <1>4 DEF SessionGranted
  <1>5. ASSUME NEW t \in Tabs, tpc[t] \in InCallback, UNCHANGED <<atMinute, granted>>,
               Fresh(t), SignIn(t)
        PROVE  SessionGranted'
    <2> DEFINE b == Owner[t]
               role == Role(token[t].groups)
    <2>1. b \in Browsers /\ role \in Roles \cup {None} /\ (role # None <=> role \in Roles)
          BY <1>1, <1>5, Lifetimes, RoleType DEF TokenGranted
    <2>2. CASE role = None
          BY <1>4, <1>5, <2>2 DEF SignIn
    <2>3. CASE role \in Roles
      <3>1. /\ session'[b] = [role |-> role, exp |-> atMinute + SessionTTL]
            /\ \A x \in Browsers \ {b} : session'[x] = session[x]
            BY <1>1, <1>5, <2>1, <2>3 DEF SignIn, LoginTyped
      <3>2. granted[b][role] >= token[t].at /\ token[t].at \in Nat
            BY <1>1, <1>5, <2>3 DEF TokenGranted
      <3>3. atMinute <= token[t].at + FlowTTL /\ atMinute \in Nat
            BY <1>1, <1>5 DEF Fresh, LoginTyped
      <3>4. granted'[b][role] \in Int /\ granted'[b][role] >= token[t].at
            BY <1>2, <1>5, <2>1, <2>3, <3>2
      <3> HIDE DEF b, role
      <3>5. /\ session'[b].role \in Roles /\ session'[b].exp \in Nat
            /\ granted'[b][session'[b].role] >= 0
            /\ granted'[b][session'[b].role] + FlowTTL + SessionTTL >= session'[b].exp
            BY <2>3, <3>1, <3>2, <3>3, <3>4, Lifetimes
      <3> QED
          BY <1>3, <3>1, <3>5 DEF SessionGranted
    <2> QED
        BY <2>1, <2>2, <2>3
  <1>6. CASE UNCHANGED loginVars \/ TickMinute \/ (\E kept \in BOOLEAN : Rotate(kept))
             \/ (\E b \in Browsers, g \in Members : Regroup(b, g))
        BY <1>4, <1>6 DEF loginVars, cookies, TickMinute, Rotate, Regroup
  <1>7. ASSUME NEW b \in Browsers, Logout(b)
        PROVE  SessionGranted'
    <2>1. session'[b] = None /\ \A x \in Browsers \ {b} : session'[x] = session[x]
          BY <1>1, <1>7 DEF Logout, LoginTyped
    <2> QED
        BY <1>3, <2>1 DEF SessionGranted
  <1>8. ASSUME NEW t \in Tabs, \/ Start(t) \/ Refuse(t) \/ Callback(t) \/ Abandon(t)
                               \/ BeginFetch(t) \/ Fetch(t)
        PROVE  SessionGranted'
        BY <1>4, <1>8 DEF Start, Refuse, Callback, Abandon, BeginFetch, Fetch, cookies
  <1>9. ASSUME NEW t \in Tabs, Verify(t) \/ Apply(t)
        PROVE  SessionGranted'
    <2>1. tpc[t] \in InCallback /\ UNCHANGED <<atMinute, granted>>
          BY <1>9 DEF Verify, Apply, InCallback, issuer
    <2>2. UNCHANGED session \/ (Fresh(t) /\ SignIn(t))
          BY <1>9 DEF Verify, Apply
    <2> QED
        BY <1>4, <1>5, <2>1, <2>2
  <1> QED
      BY <1>6, <1>7, <1>8, <1>9 DEF LoginNext

\* The mark is set when a fetch begins, and again when its answer is applied.
LEMMA FetchStep ==
  ASSUME LoginIInv, [LoginNext]_loginVars
  PROVE  FetchMarked'
  <1>1. FetchMarked /\ atMinute \in Nat
        BY DEF LoginIInv, LoginTyped
  <1>2. CASE UNCHANGED <<asked, fetched>> /\ atMinute' \in {atMinute, atMinute + 1}
        BY <1>1, <1>2 DEF FetchMarked
  <1>3. CASE UNCHANGED loginVars \/ TickMinute \/ (\E kept \in BOOLEAN : Rotate(kept))
             \/ (\E b \in Browsers : Logout(b) \/ \E g \in Members : Regroup(b, g))
        BY <1>2, <1>3 DEF loginVars, issuer, keyCache, TickMinute, Rotate, Logout, Regroup
  <1>4. ASSUME NEW t \in Tabs, \/ Start(t) \/ Refuse(t) \/ Callback(t) \/ Abandon(t)
                               \/ Verify(t) \/ Fetch(t)
        PROVE  FetchMarked'
        BY <1>2, <1>4 DEF Start, Refuse, Callback, Abandon, Verify, Fetch, issuer, keyCache
  <1>5. ASSUME NEW t \in Tabs, BeginFetch(t) \/ Apply(t)
        PROVE  FetchMarked'
        BY <1>1, <1>5 DEF BeginFetch, Apply, Marked, FetchMarked, issuer
  <1> QED
      BY <1>3, <1>4, <1>5 DEF LoginNext

-----------------------------------------------------------------------------
(* The theorems *)

\* Nobody has signed in yet.
LEMMA LoginInitially ==
  ASSUME LoginInit
  PROVE  LoginIInv
  <1>1. LoginTyped
        BY DEF LoginInit, LoginTyped, Roles
  <1>2. GrantedNow
        BY DEF LoginInit, GrantedNow
  <1>3. TokenGranted /\ SessionGranted
        BY DEF LoginInit, TokenGranted, SessionGranted, InCallback
  <1>4. FetchMarked
        BY DEF LoginInit, FetchMarked
  <1> QED
      BY <1>1, <1>2, <1>3, <1>4 DEF LoginIInv

\* The invariant of the login holds in every state.
THEOREM LoginInvariance == LoginSpec => []LoginIInv
  <1>1. LoginInit => LoginIInv
        BY LoginInitially
  <1>2. LoginIInv /\ [LoginNext]_loginVars => LoginIInv'
        BY IssuerStep, TokenStep, SessionStep, FetchStep DEF LoginIInv
  <1> QED
      BY <1>1, <1>2, PTL DEF LoginSpec

\* A cookie that has not ended is that of a role which was granted within its time.
LEMMA LiveIsGranted ==
  ASSUME LoginIInv, NEW b \in Browsers, Live(b)
  PROVE  Granted(b, session[b].role)
  <1> DEFINE gave == granted[b][session[b].role]
  <1>1. session[b] # None /\ atMinute <= session[b].exp
        BY DEF Live
  <1>2. /\ session[b].role \in Roles /\ session[b].exp \in Nat
        /\ gave >= 0 /\ gave + FlowTTL + SessionTTL >= session[b].exp
        BY <1>1 DEF LoginIInv, SessionGranted
  <1>3. atMinute \in Nat /\ gave \in Int
        BY <1>2 DEF LoginIInv, LoginTyped
  <1> HIDE DEF gave
  <1>4. atMinute - gave <= SessionTTL + FlowTTL
        BY <1>1, <1>2, <1>3, Lifetimes
  <1> QED
      BY <1>2, <1>4 DEF Granted, gave

\* What the two middlewares answer follows from the role alone, or that there is none.
LEMMA Answers ==
  ASSUME NEW conf, NEW c, NEW b
  PROVE  LET role == Authenticate(conf, c, b)
         IN  /\ RequireAuth(conf, c, b) = 200 <=> role # None
             /\ RequireOperator(conf, c, b) = 200 <=> role = "operator"
             /\ RequireOperator(conf, c, b) = 403 => role # None
  <1> DEFINE role == Authenticate(conf, c, b)
             shut == Configured(conf)
  <1>1. RequireAuth(conf, c, b) = IF role # None THEN 200 ELSE IF shut THEN 401 ELSE 503
        BY DEF RequireAuth
  <1>2. RequireOperator(conf, c, b) =
          IF role = "operator" THEN 200 ELSE IF role # None THEN 403
          ELSE IF shut THEN 401 ELSE 503
        BY DEF RequireOperator
  <1> HIDE DEF role, shut
  <1>3. RequireAuth(conf, c, b) = 200 <=> role # None
        BY <1>1
  <1>4. RequireOperator(conf, c, b) = 200 <=> role = "operator"
        BY <1>2
  <1>5. RequireOperator(conf, c, b) = 403 => role # None
        BY <1>2
  <1> QED
      BY <1>3, <1>4, <1>5 DEF role

\* Whatever tabs, rotations, refreshes and moves between groups interleave, the API
\* opens a page by cookie only to a role its user had within the session's time, and an
\* action only to an operator; whoever may act may look, and with no method nobody may.
THEOREM SessionsStayGranted == LoginSpec => []SessionsAreGranted
  <1>1. LoginIInv => SessionsAreGranted
    <2> SUFFICES ASSUME LoginIInv, NEW b \in Browsers,
                        NEW conf \in SUBSET {"token", "viewer token", "cookie"},
                        NEW c \in Credentials
                 PROVE  LET look == RequireAuth(conf, c, b)
                            act == RequireOperator(conf, c, b)
                        IN  /\ c = "cookie" /\ look = 200 => Granted(b, session[b].role)
                            /\ c = "cookie" /\ act = 200 => Granted(b, "operator")
                            /\ act = 200 => look = 200
                            /\ act = 403 => look = 200
                            /\ conf = {} => look = 503 /\ act = 503
        BY DEF SessionsAreGranted
    <2> DEFINE role == Authenticate(conf, c, b)
    <2>1. None # "operator"
          BY Lifetimes DEF Members
    <2>2. /\ RequireAuth(conf, c, b) = 200 <=> role # None
          /\ RequireOperator(conf, c, b) = 200 <=> role = "operator"
          /\ RequireOperator(conf, c, b) = 403 => role # None
          BY Answers
    <2>3. c = "cookie" /\ role # None => Live(b) /\ role = session[b].role
          BY DEF Authenticate
    <2>4. c = "cookie" /\ role # None => Granted(b, role)
          BY <2>3, LiveIsGranted
    <2>5. conf = {} => role = None /\ ~Configured(conf)
          BY DEF Authenticate, Configured
    <2>6. conf = {} => RequireAuth(conf, c, b) = 503 /\ RequireOperator(conf, c, b) = 503
          BY <2>1, <2>5 DEF RequireAuth, RequireOperator
    <2> HIDE DEF role
    <2> QED
        BY <2>1, <2>2, <2>3, <2>4, <2>6, ZenonT(60)
  <1> QED
      BY <1>1, LoginInvariance, PTL

\* Between two fetches of the issuer's keys there is more than a minute, however many
\* logins find a key they do not know, and whether the issuer answers or not.
THEOREM FetchesStayApart == LoginSpec => FetchesApart
  <1>1. LoginIInv /\ [LoginNext]_loginVars => [asked' # asked => asked' - asked > 1]_loginVars
    <2> SUFFICES ASSUME LoginIInv, LoginNext, asked' # asked
                 PROVE  asked' - asked > 1
        OBVIOUS
    <2>1. PICK t \in Tabs : BeginFetch(t)
          BY DEF LoginNext, TickMinute, Rotate, Logout, Regroup, Start, Refuse, Callback,
             Abandon, Verify, Fetch, Apply, keyCache
    <2>2. asked' = atMinute /\ atMinute - fetched > 1
          BY <2>1 DEF BeginFetch, Stale
    <2> QED
        BY <2>2 DEF LoginIInv, FetchMarked, LoginTyped
  <1> QED
      BY <1>1, LoginInvariance, PTL DEF LoginSpec, FetchesApart

-----------------------------------------------------------------------------
(* The types of the login *)

TokenRecords == [kid : Kids, groups : Members, at : Nat]

IssuerTypes ==
  /\ atMinute \in 0 .. MaxMinutes
  /\ published \in SUBSET Kids /\ published # {}
  /\ groups \in [Browsers -> Members] /\ viewers \in BOOLEAN /\ moved \in BOOLEAN
  /\ granted \in [Browsers -> [Roles -> -1 .. atMinute]]
KeyTypes == keys \in SUBSET Kids /\ fetched \in 0 .. atMinute /\ asked \in 0 .. atMinute
CookieTypes ==
  /\ flow \in [Browsers -> {None} \cup [tab : Tabs, exp : 0 .. MaxMinutes + FlowTTL]]
  /\ session \in [Browsers -> {None} \cup [role : Roles, exp : 0 .. MaxMinutes + SessionTTL]]
TabTypes ==
  /\ tpc \in [Tabs -> {"none", "issuer"} \cup InCallback]
  /\ token \in [Tabs -> {None} \cup TokenRecords]
  /\ response \in [Tabs -> SUBSET Kids]
  /\ \A t \in Tabs : token[t] # None <=> tpc[t] \in InCallback

LoginTypes == IssuerTypes /\ KeyTypes /\ CookieTypes /\ TabTypes

\* The bounds are numbers, there is a key, and no token is none.
LEMMA LoginSizes ==
  /\ SessionTTL \in Nat /\ FlowTTL \in Nat /\ MaxKid \in Nat /\ MaxKid > 0 /\ MaxMinutes \in Nat
  /\ \A t \in Tabs : Owner[t] \in Browsers
  /\ None \notin TokenRecords
  BY LoginAssumption DEF TokenRecords, Kids

\* The newest of some keys is one of them.
LEMMA NewestIs ==
  ASSUME NEW K, K \subseteq Kids, K # {}
  PROVE  Newest(K) \in K
  <1> DEFINE S == {MaxKid - k : k \in K}
  <1>1. MaxKid \in Nat /\ \A k \in K : k \in Int /\ 1 <= k /\ k <= MaxKid
        BY LoginSizes DEF Kids
  <1>2. S \subseteq Nat /\ S # {}
        BY <1>1
  <1>3. PICK j \in S : \A i \in S : ~(<<i, j>> \in OpToRel(<, Nat))
        BY <1>2, NatLessThanWellFounded, WFMin
  <1>4. \A i \in S : ~(i < j)
    <2> TAKE i \in S
    <2>1. <<i, j>> \in Nat \X Nat /\ <<i, j>>[1] = i /\ <<i, j>>[2] = j
          BY <1>2
    <2> QED
        BY <1>3, <2>1 DEF OpToRel
  <1>5. PICK k \in K : j = MaxKid - k
        OBVIOUS
  <1>6. \A i \in K : i <= k
    <2> TAKE i \in K
    <2>1. ~(MaxKid - i < MaxKid - k)
          BY <1>4, <1>5
    <2> QED
        BY <1>1, <2>1
  <1> QED
      BY <1>6 DEF Newest

\* What the issuer does, with the clock
LEMMA IssuerTypesStep ==
  ASSUME LoginTypes, [LoginNext]_loginVars
  PROVE  IssuerTypes' /\ atMinute' >= atMinute
  <1>0. IssuerTypes /\ atMinute \in Int
        BY DEF LoginTypes, IssuerTypes
  <1>1. CASE TickMinute
    <2>1. atMinute' = atMinute + 1 /\ atMinute' \in 0 .. MaxMinutes
          BY <1>0, <1>1, LoginSizes DEF TickMinute, IssuerTypes
    <2>2. granted' = [b \in Browsers |->
            [r \in Roles |-> IF Role(groups[b]) = r THEN atMinute + 1 ELSE granted[b][r]]]
          BY <1>1 DEF TickMinute
    <2>3. \A b \in Browsers, r \in Roles : granted[b][r] \in -1 .. atMinute + 1
      <3>1. \A b \in Browsers, r \in Roles : granted[b][r] \in -1 .. atMinute
            BY <1>0 DEF IssuerTypes
      <3> QED
          BY <1>0, <3>1
    <2>4. atMinute + 1 \in -1 .. atMinute + 1
          BY <2>1, <1>0, LoginSizes DEF IssuerTypes
    <2>5. granted' \in [Browsers -> [Roles -> -1 .. atMinute']]
          BY <2>1, <2>2, <2>3, <2>4
    <2>6. UNCHANGED <<published, groups, viewers, moved>>
          BY <1>1 DEF TickMinute
    <2> QED
        BY <1>0, <2>1, <2>5, <2>6 DEF IssuerTypes
  <1>2. ASSUME NEW b \in Browsers, NEW g \in Members, Regroup(b, g)
        PROVE  IssuerTypes' /\ atMinute' >= atMinute
    <2> DEFINE given == [r \in Roles |-> IF Role(g) = r THEN atMinute ELSE granted[b][r]]
    <2>1. /\ granted' = [granted EXCEPT ![b] = given] /\ moved' = TRUE
          /\ groups' = [groups EXCEPT ![b] = g] /\ UNCHANGED <<atMinute, published, viewers>>
          BY <1>2 DEF Regroup
    <2>2. atMinute \in -1 .. atMinute
          BY <1>0, LoginSizes DEF IssuerTypes
    <2>3. given \in [Roles -> -1 .. atMinute]
          BY <1>0, <2>2 DEF IssuerTypes
    <2> HIDE DEF given
    <2>4. granted' \in [Browsers -> [Roles -> -1 .. atMinute]] /\ groups' \in [Browsers -> Members]
          BY <1>0, <2>1, <2>3 DEF IssuerTypes
    <2> QED
        BY <1>0, <2>1, <2>4 DEF IssuerTypes
  <1>3. ASSUME NEW kept \in BOOLEAN, Rotate(kept)
        PROVE  IssuerTypes' /\ atMinute' >= atMinute
    <2>1. Newest(published) \in published /\ Newest(published) < MaxKid
          BY <1>0, <1>3, NewestIs DEF IssuerTypes, Rotate
    <2>2. Newest(published) + 1 \in Kids
      <3>1. Newest(published) \in Kids
            BY <1>0, <2>1 DEF IssuerTypes
      <3> DEFINE newest == Newest(published)
      <3>2. newest \in 1 .. MaxKid /\ newest < MaxKid
            BY <2>1, <3>1 DEF Kids
      <3> HIDE DEF newest
      <3>3. newest + 1 \in Kids
            BY ONLY <3>2, LoginSizes DEF Kids
      <3> QED
          BY <3>3 DEF newest
    <2>3. published' = {k \in published : kept} \cup {Newest(published) + 1}
          BY <1>3 DEF Rotate
    <2>4. published' \in SUBSET Kids /\ published' # {}
          BY <1>0, <2>2, <2>3 DEF IssuerTypes
    <2>5. UNCHANGED <<atMinute, groups, viewers, moved, granted>>
          BY <1>3 DEF Rotate
    <2> QED
        BY <1>0, <2>4, <2>5 DEF IssuerTypes
  <1>4. CASE UNCHANGED issuer
        BY <1>0, <1>4 DEF IssuerTypes, issuer
  <1> QED
    <2>1. ASSUME NEW t \in Tabs, \/ Start(t) \/ Refuse(t) \/ Callback(t) \/ Abandon(t)
                                 \/ Verify(t) \/ BeginFetch(t) \/ Fetch(t) \/ Apply(t)
          PROVE  UNCHANGED issuer
          BY <2>1 DEF Start, Refuse, Callback, Abandon, Verify, BeginFetch, Fetch, Apply
    <2>2. ASSUME NEW b \in Browsers, Logout(b) PROVE UNCHANGED issuer
          BY <2>2 DEF Logout
    <2>3. UNCHANGED loginVars => UNCHANGED issuer
          BY DEF loginVars
    <2> QED
        BY <1>1, <1>2, <1>3, <1>4, <2>1, <2>2, <2>3 DEF LoginNext

\* A login that ends leaves nothing in its tab.
LEMMA EndTypes ==
  ASSUME TabTypes, NEW t \in Tabs, EndLogin(t)
  PROVE  TabTypes'
  <1>1. /\ tpc' = [tpc EXCEPT ![t] = "none"] /\ token' = [token EXCEPT ![t] = None]
        /\ response' = [response EXCEPT ![t] = {}]
        BY DEF EndLogin
  <1>2. /\ tpc' \in [Tabs -> {"none", "issuer"} \cup InCallback]
        /\ token' \in [Tabs -> {None} \cup TokenRecords] /\ response' \in [Tabs -> SUBSET Kids]
        BY <1>1 DEF TabTypes
  <1>3. \A s \in Tabs : token'[s] # None <=> tpc'[s] \in InCallback
        BY <1>1 DEF TabTypes, InCallback
  <1> QED
      BY <1>2, <1>3 DEF TabTypes

\* A login that succeeds leaves a session of its role and lifetime.
LEMMA SignInTypes ==
  ASSUME LoginTypes, NEW t \in Tabs, tpc[t] \in InCallback, SignIn(t)
  PROVE  TabTypes' /\ session' \in [Browsers -> {None} \cup [role : Roles, exp : 0 .. MaxMinutes + SessionTTL]]
  <1> DEFINE role == Role(token[t].groups)
  <1>1. token[t] \in TokenRecords
        BY DEF LoginTypes, TabTypes
  <1>2. role \in Roles \/ role = None
        BY <1>1, RoleType DEF TokenRecords
  <1>3. /\ EndLogin(t)
        /\ session' = IF role = None THEN session
                      ELSE [session EXCEPT ![Owner[t]] = [role |-> role, exp |-> atMinute + SessionTTL]]
        BY DEF SignIn
  <1> HIDE DEF role
  <1>4. atMinute + SessionTTL \in 0 .. MaxMinutes + SessionTTL
        BY LoginSizes DEF LoginTypes, IssuerTypes
  <1>5. session' \in [Browsers -> {None} \cup [role : Roles, exp : 0 .. MaxMinutes + SessionTTL]]
    <2>1. CASE role = None
          BY <2>1, <1>3 DEF LoginTypes, CookieTypes
    <2>2. CASE role # None
      <3>1. [role |-> role, exp |-> atMinute + SessionTTL]
              \in [role : Roles, exp : 0 .. MaxMinutes + SessionTTL]
            BY <2>2, <1>2, <1>4
      <3> QED
          BY <2>2, <3>1, <1>3, LoginSizes DEF LoginTypes, CookieTypes
    <2> QED
        BY <2>1, <2>2
  <1> QED
      BY <1>3, <1>5, EndTypes DEF LoginTypes

\* What a tab does to cookies, keys and itself
LEMMA TabTypesStep ==
  ASSUME LoginTypes, NEW t \in Tabs,
         \/ Start(t) \/ Refuse(t) \/ Callback(t) \/ Abandon(t)
         \/ Verify(t) \/ BeginFetch(t) \/ Fetch(t) \/ Apply(t)
  PROVE  KeyTypes' /\ CookieTypes' /\ TabTypes'
  <1>0. /\ IssuerTypes /\ KeyTypes /\ CookieTypes /\ TabTypes /\ Owner[t] \in Browsers
        /\ atMinute \in 0 .. MaxMinutes /\ atMinute \in 0 .. atMinute
        BY LoginSizes DEF LoginTypes, IssuerTypes
  <1>k. UNCHANGED <<keyCache, issuer>> => KeyTypes'
        BY <1>0 DEF KeyTypes, keyCache, issuer
  <1>c. UNCHANGED cookies => CookieTypes'
        BY <1>0 DEF CookieTypes, cookies
  <1>e. EndLogin(t) => TabTypes'
        BY <1>0, EndTypes
  <1>1. CASE Start(t)
    <2>1. /\ flow' = [flow EXCEPT ![Owner[t]] = [tab |-> t, exp |-> atMinute + FlowTTL]]
          /\ tpc' = [tpc EXCEPT ![t] = "issuer"] /\ tpc[t] = "none"
          /\ UNCHANGED <<issuer, keyCache, session, token, response>>
          BY <1>1 DEF Start
    <2>2. [tab |-> t, exp |-> atMinute + FlowTTL] \in [tab : Tabs, exp : 0 .. MaxMinutes + FlowTTL]
          BY <1>0, LoginSizes
    <2>3. CookieTypes'
          BY <2>1, <2>2, <1>0 DEF CookieTypes
    <2>4. tpc' \in [Tabs -> {"none", "issuer"} \cup InCallback]
          BY <2>1, <1>0 DEF TabTypes
    <2>5. \A s \in Tabs : token'[s] # None <=> tpc'[s] \in InCallback
          BY <2>1, <1>0 DEF TabTypes, InCallback
    <2> QED
        BY <2>1, <2>3, <2>4, <2>5, <1>0, <1>k DEF TabTypes
  <1>2. CASE Refuse(t) \/ Abandon(t)
        BY <1>2, <1>k, <1>c, <1>e DEF Refuse, Abandon
  <1>3. CASE Callback(t)
    <2>1. /\ flow' = [flow EXCEPT ![Owner[t]] = None] /\ tpc[t] = "issuer"
          /\ UNCHANGED <<issuer, keyCache, session>>
          BY <1>3 DEF Callback
    <2>2. CookieTypes'
          BY <2>1, <1>0 DEF CookieTypes
    <2>3. CASE EndLogin(t)
          BY <2>1, <2>2, <2>3, <1>e, <1>k
    <2>4. CASE ~EndLogin(t)
      <3> DEFINE k == [kid |-> Newest(published), groups |-> groups[Owner[t]], at |-> atMinute]
      <3>1. /\ tpc' = [tpc EXCEPT ![t] = "verify"] /\ token' = [token EXCEPT ![t] = k]
            /\ response' = response
            BY <2>4, <1>3 DEF Callback
      <3>2. k \in TokenRecords
        <4>1. Newest(published) \in Kids /\ groups[Owner[t]] \in Members /\ atMinute \in Nat
              BY <1>0, NewestIs, LoginSizes DEF IssuerTypes
        <4> QED
            BY <4>1 DEF TokenRecords
      <3> HIDE DEF k
      <3>3. /\ tpc' \in [Tabs -> {"none", "issuer"} \cup InCallback]
            /\ token' \in [Tabs -> {None} \cup TokenRecords] /\ response' \in [Tabs -> SUBSET Kids]
            BY <3>1, <3>2, <1>0 DEF TabTypes, InCallback
      <3>4. \A s \in Tabs : token'[s] # None <=> tpc'[s] \in InCallback
            BY <3>1, <3>2, <1>0, LoginSizes DEF TabTypes, InCallback
      <3> QED
          BY <2>1, <2>2, <3>3, <3>4, <1>k DEF TabTypes
    <2> QED
        BY <2>3, <2>4
  <1>4. CASE Verify(t)
    <2>1. tpc[t] \in InCallback /\ UNCHANGED <<issuer, keyCache, flow>>
          BY <1>4 DEF Verify, InCallback
    <2>2. CASE SignIn(t)
          BY <2>1, <2>2, <1>0, <1>k, SignInTypes DEF CookieTypes
    <2>3. CASE EndLogin(t) /\ UNCHANGED session
      <3>1. CookieTypes'
            BY <2>1, <2>3, <1>0 DEF CookieTypes
      <3> QED
          BY <2>1, <2>3, <3>1, <1>e, <1>k
    <2> QED
        BY <1>4, <2>2, <2>3 DEF Verify
  <1>5. CASE BeginFetch(t)
    <2>1. /\ fetched' = atMinute /\ asked' = atMinute /\ tpc' = [tpc EXCEPT ![t] = "fetch"]
          /\ tpc[t] = "verify" /\ UNCHANGED <<issuer, keys, cookies, token, response>>
          BY <1>5 DEF BeginFetch, Marked
    <2>2. KeyTypes'
          BY <2>1, <1>0 DEF KeyTypes, issuer
    <2>3. tpc' \in [Tabs -> {"none", "issuer"} \cup InCallback]
          BY <2>1, <1>0 DEF TabTypes, InCallback
    <2>4. \A s \in Tabs : token'[s] # None <=> tpc'[s] \in InCallback
          BY <2>1, <1>0 DEF TabTypes, InCallback
    <2> QED
        BY <2>1, <2>2, <2>3, <2>4, <1>0, <1>c DEF TabTypes
  <1>6. CASE Fetch(t)
    <2>1. tpc[t] = "fetch" /\ UNCHANGED <<issuer, keyCache, cookies>>
          BY <1>6 DEF Fetch
    <2>2. CASE EndLogin(t)
          BY <2>1, <2>2, <1>e, <1>k, <1>c
    <2>3. CASE ~EndLogin(t)
      <3>1. /\ response' = [response EXCEPT ![t] = published]
            /\ tpc' = [tpc EXCEPT ![t] = "apply"] /\ token' = token
            BY <2>3, <1>6 DEF Fetch
      <3>2. /\ tpc' \in [Tabs -> {"none", "issuer"} \cup InCallback]
            /\ response' \in [Tabs -> SUBSET Kids]
            BY <3>1, <1>0 DEF TabTypes, IssuerTypes, InCallback
      <3>3. \A s \in Tabs : token'[s] # None <=> tpc'[s] \in InCallback
            BY <2>1, <3>1, <1>0 DEF TabTypes, InCallback
      <3> QED
          BY <2>1, <3>1, <3>2, <3>3, <1>0, <1>k, <1>c DEF TabTypes
    <2> QED
        BY <2>2, <2>3
  <1>7. CASE Apply(t)
    <2>1. /\ tpc[t] \in InCallback /\ keys' = response[t] /\ fetched' = atMinute
          /\ UNCHANGED <<issuer, asked, flow>>
          BY <1>7 DEF Apply, InCallback
    <2>2. KeyTypes'
          BY <2>1, <1>0 DEF KeyTypes, TabTypes, issuer
    <2>3. CASE SignIn(t)
          BY <2>1, <2>2, <2>3, <1>0, SignInTypes DEF CookieTypes
    <2>4. CASE EndLogin(t) /\ UNCHANGED session
      <3>1. CookieTypes'
            BY <2>1, <2>4, <1>0 DEF CookieTypes
      <3> QED
          BY <2>2, <2>4, <3>1, <1>e
    <2> QED
        BY <1>7, <2>3, <2>4 DEF Apply
  <1> QED
      BY <1>1, <1>2, <1>3, <1>4, <1>5, <1>6, <1>7

\* Every step keeps the types of the login.
LEMMA LoginTypesStep ==
  ASSUME LoginTypes, [LoginNext]_loginVars
  PROVE  LoginTypes'
  <1>1. IssuerTypes' /\ atMinute' >= atMinute
        BY IssuerTypesStep
  <1>2. ASSUME UNCHANGED keyCache PROVE KeyTypes'
    <2>1. keys' = keys /\ fetched' = fetched /\ asked' = asked
          BY <1>2 DEF keyCache
    <2>2. atMinute \in Int /\ atMinute' \in Int
          BY <1>1 DEF LoginTypes, IssuerTypes
    <2> QED
        BY <1>1, <2>1, <2>2 DEF LoginTypes, KeyTypes
  <1>3. ASSUME UNCHANGED cookies PROVE CookieTypes'
        BY <1>3 DEF LoginTypes, CookieTypes, cookies
  <1>4. ASSUME UNCHANGED tabs PROVE TabTypes'
        BY <1>4 DEF LoginTypes, TabTypes, tabs
  <1>5. ASSUME NEW t \in Tabs, \/ Start(t) \/ Refuse(t) \/ Callback(t) \/ Abandon(t)
                               \/ Verify(t) \/ BeginFetch(t) \/ Fetch(t) \/ Apply(t)
        PROVE  LoginTypes'
        BY <1>1, <1>5, TabTypesStep DEF LoginTypes
  <1>6. ASSUME NEW b \in Browsers, Logout(b) PROVE LoginTypes'
    <2>1. /\ session' = [session EXCEPT ![b] = None] /\ UNCHANGED <<issuer, keyCache, flow, tabs>>
          BY <1>6 DEF Logout
    <2>2. CookieTypes'
          BY <2>1 DEF LoginTypes, CookieTypes
    <2> QED
        BY <1>1, <1>2, <1>4, <2>1, <2>2 DEF LoginTypes
  <1>7. CASE UNCHANGED <<keyCache, cookies, tabs>>
        BY <1>1, <1>2, <1>3, <1>4, <1>7 DEF LoginTypes
  <1> QED
    <2>1. ASSUME NEW b \in Browsers, NEW g \in Members, Regroup(b, g) PROVE UNCHANGED <<keyCache, cookies, tabs>>
          BY <2>1 DEF Regroup
    <2>2. ASSUME NEW kept \in BOOLEAN, Rotate(kept) PROVE UNCHANGED <<keyCache, cookies, tabs>>
          BY <2>2 DEF Rotate
    <2>3. TickMinute \/ UNCHANGED loginVars => UNCHANGED <<keyCache, cookies, tabs>>
          BY DEF TickMinute, loginVars
    <2> QED
        BY <1>5, <1>6, <1>7, <2>1, <2>2, <2>3 DEF LoginNext

\* Clock, keys, cookies and tabs stay of their types: a tab has a token while it is in its
\* callback and at no other time, and no cookie outlives the lifetime it is given.
THEOREM LoginTypeCorrect == LoginSpec => []LoginTypeOK
  <1>1. LoginInit => LoginTypes
    <2> SUFFICES ASSUME LoginInit PROVE LoginTypes
        OBVIOUS
    <2>1. IssuerTypes
      <3>1. 1 \in Kids /\ 0 \in 0 .. MaxMinutes
            BY LoginSizes DEF Kids
      <3>2. granted \in [Browsers -> [Roles -> -1 .. 0]]
            BY DEF LoginInit
      <3> QED
          BY <3>1, <3>2 DEF LoginInit, IssuerTypes
    <2>2. KeyTypes
          BY LoginSizes DEF LoginInit, KeyTypes, Kids
    <2>3. CookieTypes
          BY DEF LoginInit, CookieTypes
    <2>4. TabTypes
          BY DEF LoginInit, TabTypes, InCallback
    <2> QED
        BY <2>1, <2>2, <2>3, <2>4 DEF LoginTypes
  <1>2. LoginTypes /\ [LoginNext]_loginVars => LoginTypes'
        BY LoginTypesStep
  <1>3. LoginTypes => LoginTypeOK
    <2> SUFFICES ASSUME LoginTypes PROVE LoginTypeOK
        OBVIOUS
    <2>1. \A b \in Browsers :
            /\ flow[b] = None \/ (flow[b].tab \in Tabs /\ flow[b].exp \in 0 .. MaxMinutes + FlowTTL)
            /\ session[b] = None \/ (session[b].role \in Roles /\ session[b].exp \in 0 .. MaxMinutes + SessionTTL)
          BY DEF LoginTypes, CookieTypes
    <2>2. \A t \in Tabs : /\ response[t] \subseteq Kids
                          /\ (token[t] # None) = (tpc[t] \in {"verify", "fetch", "apply"})
          BY DEF LoginTypes, TabTypes, InCallback
    <2>3. tpc \in [Tabs -> {"none", "issuer", "verify", "fetch", "apply"}]
          BY DEF LoginTypes, TabTypes, InCallback
    <2> QED
        BY <2>1, <2>2, <2>3 DEF LoginTypes, IssuerTypes, KeyTypes, LoginTypeOK
  <1> QED
      BY <1>1, <1>2, <1>3, PTL DEF LoginSpec

-----------------------------------------------------------------------------
(* Recordings and login together *)

\* A behaviour of the composition is one of each part: what is proved of a part holds of
\* the runs.
LEMMA SessionsParts == AllSpec => Spec /\ LoginSpec
  <1>1. AllInit => LoginInit
        BY DEF AllInit
  <1>2. [AllNext]_allVars => [LoginNext]_loginVars
        BY DEF AllNext, allVars
  <1>3. AllInit => Init
        BY DEF AllInit
  <1>4. [AllNext]_allVars => [Next]_vars
        BY DEF AllNext, allVars
  <1> QED
      BY <1>1, <1>2, <1>3, <1>4, PTL DEF AllSpec, Spec, LoginSpec

\* A page or an action opens only to a role that the issuer gave within the session's
\* time, whatever the tabs of any browser do (verifySession, requireAuth).
THEOREM OnlyGrantedEnter == AllSpec => []OnlyGranted
  <1>1. SessionsAreGranted => OnlyGranted
        BY DEF OnlyGranted
  <1> QED
      BY <1>1, SessionsParts, SessionsStayGranted, PTL

\* Recordings and login keep to their types in the runs.
THEOREM SessionsTypesCorrect == AllSpec => []TypesOK
  <1>1. TypeOK /\ LoginTypeOK => TypesOK
        BY DEF TypesOK
  <1> QED
      BY <1>1, SessionsParts, SessionsTypeCorrect, LoginTypeCorrect, PTL
=============================================================================
