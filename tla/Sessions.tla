------------------------------- MODULE Sessions -------------------------------
(***************************************************************************)
(* The recordings of Fixes on disk: one directory per session, with its    *)
(* meta.json and one file per artifact.  Fixes of the daemon write them;   *)
(* the daemon itself, at most once an hour, and `xdlc sessions prune`, a   *)
(* process of its own, delete old ones; a Fix that begins, and the console *)
(* and the command line in the same way, read those of earlier Fixes.      *)
(* Nothing is locked: a step is one system call, or several that the       *)
(* others cannot tell apart.  The daemon may be killed at any step, and a  *)
(* Fix may run for longer than recordings are kept: then its own may be    *)
(* deleted under it.  A removal is one step, so it never takes half of the *)
(* files that such a Fix is writing.                                       *)
(***************************************************************************)
EXTENDS Integers, Sequences, FiniteSets, Functions, TLC

CONSTANTS
  Fixes,      \* Fixes, each run at most once
  Repos,
  RepoOf,     \* of which repo each Fix is
  Slug,       \* the slug of a repo: [base, nums], where "svc-1" is <<svc, <<1>>>>
  SourceOf,   \* from what source its signal comes
  Retain,     \* Store.Retain
  PruneEvery, \* an hour
  Limit,      \* PriorFixes
  MaxSuffix,  \* 50
  MaxAttempts,
  MaxTime,    \* bound of the model
  NoFix

\* A recording is kept for a second at least: 30 days unless session.retain is set, to
\* any time, and whatever a Fix takes.
ASSUME SessionsAssumption ==
  /\ {Retain, PruneEvery, Limit, MaxSuffix, MaxAttempts, MaxTime} \subseteq Nat
  /\ Retain > 0
  /\ RepoOf \in [Fixes -> Repos]
  /\ \A r \in Repos : Slug[r].nums \in Seq(Nat)
  /\ NoFix \notin Fixes

VARIABLES
  now,
  disk,      \* Root: the directories by id
  run,       \* the Fixes
  lastPrune, \* Store.lastPrune
  prune,     \* Prune in the daemon and in the command: entries left, cutoff
  reader     \* Recent, called by one Fix

vars == <<now, disk, run, lastPrune, prune, reader>>

Id == [at : 0 .. MaxTime, base : {Slug[r].base : r \in Repos}, nums : Seq(Nat)]
Name == {<<"meta", 1>>, <<"diff", 1>>} \cup ({"prompt", "output"} \X (1 .. MaxAttempts))

\* What a file holds: whose it is; of which attempt or, of meta.json, of a running
\* session (1) or of an ended one (2)
File == [fix : Fixes, n : 1 .. MaxAttempts + 2]

\* os.ReadDir sorts the names, so by the second first.
First(S) == {i \in S : \A j \in S : i.at <= j.at}

Waiting == [fix |-> NoFix, left |-> {}, found |-> {}, told |-> {}, due |-> {}]
Idle == [left |-> {}, cutoff |-> 0]

TypeOK ==
  /\ now \in 0 .. MaxTime
  /\ \A i \in DOMAIN disk :
       /\ i \in Id /\ disk[i].mtime \in 0 .. now
       /\ \A k \in DOMAIN disk[i].files : k \in Name /\ disk[i].files[k] \in File
  /\ \A f \in Fixes :
       /\ run[f].pc \in {"idle", "mkdir", "create", "open", "finish", "done", "left",
                         "bare", "dead"}
       /\ run[f].pc # "idle" => run[f].id \in Id /\ run[f].begun \in 0 .. now
       /\ run[f].try \in 0 .. MaxSuffix + 1 /\ run[f].attempt \in 0 .. MaxAttempts
       /\ run[f].try = MaxSuffix + 1 => run[f].pc = "bare"
  /\ lastPrune \in -PruneEvery .. now
  /\ \A p \in DOMAIN prune : prune[p].cutoff <= now
  /\ reader.fix \in Fixes \cup {NoFix} /\ Cardinality(reader.told) <= Limit

Init ==
  /\ now = 0 /\ disk = <<>>
  /\ run = [f \in Fixes |-> [pc |-> "idle", id |-> NoFix, try |-> 0, begun |-> 0,
                             attempt |-> 0, patch |-> FALSE]]
  /\ lastPrune = -PruneEvery
  /\ prune = [p \in {"daemon", "cli"} |-> Idle]
  /\ reader = Waiting

\* The pcs at which a Fix has a recording that it is going to write to.
Recording == {"create", "open", "finish"}
Running(f) == run[f].pc \in Recording \cup {"mkdir"}

\* Mutant of Old: the comparison with the cutoff is the wrong way round.
OldNot(i, cutoff) == disk[i].mtime >= cutoff

Old(i, cutoff) == disk[i].mtime <= cutoff

\* What Prune, beginning now, has to visit.  An entry too new for its cutoff is left
\* out: whatever is written to it makes it newer.
Sweep == [left |-> {i \in DOMAIN disk : Old(i, now - Retain)}, cutoff |-> now - Retain]

-----------------------------------------------------------------------------
(* The directory of a Fix *)

\* NewID, and with the suffix of the n-th collision
NewID(at, r, n) == [at |-> at, base |-> Slug[r].base,
                    nums |-> IF n = 0 THEN Slug[r].nums ELSE Append(Slug[r].nums, n)]

\* os.Mkdir of a name that is free
NewDir(i) == [j \in DOMAIN disk \cup {i} |->
               IF j = i THEN [mtime |-> now, files |-> <<>>] ELSE disk[j]]

\* os.WriteFile, in the directory of f, of the files ks: a new name changes the ModTime of
\* the directory.  Without the directory, which a sweep may have taken from a Fix that is
\* older than Retain, it fails; the Fix only logs that.
Written(f, ks, n) ==
  LET i == run[f].id IN
    IF i \in DOMAIN disk
    THEN [disk EXCEPT ![i].mtime = IF ks \subseteq DOMAIN disk[i].files THEN @ ELSE now,
                      ![i].files = [k \in ks \cup DOMAIN @ |->
                                      IF k \in ks THEN [fix |-> f, n |-> n] ELSE @[k]]]
    ELSE disk

\* Bound: not in the last second.
Begin(f) ==
  /\ run[f].pc = "idle" /\ now < MaxTime
  /\ run' = [run EXCEPT ![f] = [@ EXCEPT !.pc = "mkdir", !.begun = now,
                                          !.id = NewID(now, RepoOf[f], 0)]]
  /\ UNCHANGED <<now, disk, lastPrune, prune, reader>>

\* Mutants of Mkdir: one that exists is taken; no bound on the suffix.
MkdirAll(f) ==
  /\ run[f].pc = "mkdir"
  /\ disk' = IF run[f].id \in DOMAIN disk THEN disk ELSE NewDir(run[f].id)
  /\ run' = [run EXCEPT ![f].pc = "create"]
  /\ UNCHANGED <<now, lastPrune, prune, reader>>

MkdirEver(f) ==
  LET i == run[f].id
      n == run[f].try + 1 IN
    /\ run[f].pc = "mkdir"
    /\ IF i \notin DOMAIN disk
       THEN /\ disk' = NewDir(i)
            /\ run' = [run EXCEPT ![f].pc = "create"]
       ELSE /\ run' = [run EXCEPT ![f] = [@ EXCEPT !.try = n,
                                            !.id = NewID(i.at, RepoOf[f], n)]]
            /\ UNCHANGED disk
    /\ UNCHANGED <<now, lastPrune, prune, reader>>

\* One os.Mkdir of Start.  Without a recording a Fix runs all the same ("bare").
Mkdir(f) ==
  LET i == run[f].id
      n == run[f].try + 1 IN
    /\ run[f].pc = "mkdir"
    /\ IF i \notin DOMAIN disk
       THEN /\ disk' = NewDir(i)
            /\ run' = [run EXCEPT ![f].pc = "create"]
       ELSE /\ run' = [run EXCEPT ![f] = [@ EXCEPT !.try = n,
                                            !.id = NewID(i.at, RepoOf[f], n),
                                            !.pc = IF n > MaxSuffix THEN "bare" ELSE "mkdir"]]
            /\ UNCHANGED disk
    /\ UNCHANGED <<now, lastPrune, prune, reader>>

\* writeMeta, and go pruneAsync, with what ReadDir finds.  A meta.json that is still
\* empty is to Load what none is: here one step writes it.
Started(f) ==
  /\ run[f].pc = "create"
  /\ disk' = Written(f, {<<"meta", 1>>}, 1)
  /\ run' = [run EXCEPT ![f].pc = IF run[f].id \in DOMAIN disk THEN "open" ELSE "bare"]
  /\ IF run[f].id \in DOMAIN disk /\ now - lastPrune >= PruneEvery /\ prune["daemon"] = Idle
     THEN /\ lastPrune' = now
          /\ prune' = [prune EXCEPT !["daemon"] = IF Sweep.left = {} THEN Idle ELSE Sweep]
     ELSE UNCHANGED <<lastPrune, prune>>
  /\ UNCHANGED <<now, reader>>

\* Mutant of AttemptFile: every attempt has the bare name.
AttemptFileBare(k, n) == <<k, 1>>

AttemptFile(k, n) == <<k, n>>

\* Recent, if f called it, has been through: what it was told is now in its prompts.
Answered(f) == reader.fix = f => reader.left = {} /\ (reader.found = {} \/ Cardinality(reader.told) = Limit)
Answer(f) == reader' = IF reader.fix = f THEN Waiting ELSE reader

\* An attempt: its prompt is written before the agent runs and its output after it.  One
\* step writes both, for nothing here reads them.  Bound: one Fix only makes several.
Attempt(f) ==
  LET n == run[f].attempt + 1 IN
    /\ run[f].pc = "open" /\ Answered(f)
    /\ n <= MaxAttempts /\ (n > 1 => \A g \in Fixes \ {f} : run[g].attempt <= 1)
    /\ run' = [run EXCEPT ![f].attempt = n]
    /\ disk' = Written(f, {AttemptFile("prompt", n), AttemptFile("output", n)}, n)
    /\ Answer(f)
    /\ UNCHANGED <<now, lastPrune, prune>>

\* A Fix that gets no worktree returns before its defer is in place.
NoWorktree(f) ==
  /\ run[f].pc = "open" /\ run[f].attempt = 0 /\ reader.fix # f
  /\ run' = [run EXCEPT ![f].pc = "left"]
  /\ UNCHANGED <<now, disk, lastPrune, prune, reader>>

\* The defer of fixInner, after the attempts or a plan pass that failed: diff.patch,
\* unless nothing was changed, ...
Diff(f) ==
  /\ run[f].pc = "open" /\ Answered(f)
  /\ \E p \in BOOLEAN :
       /\ run' = [run EXCEPT ![f].pc = "finish", ![f].patch = p]
       /\ disk' = IF p THEN Written(f, {<<"diff", 1>>}, 1) ELSE disk
  /\ Answer(f)
  /\ UNCHANGED <<now, lastPrune, prune>>

\* ... and Finish, writeMeta again.  Between its two system calls meta.json is empty:
\* Recent skips that as it skips a session that has no status.
Finish(f) ==
  /\ run[f].pc = "finish"
  /\ run' = [run EXCEPT ![f].pc = "done"]
  /\ disk' = Written(f, {<<"meta", 1>>}, 2)
  /\ UNCHANGED <<now, lastPrune, prune, reader>>

-----------------------------------------------------------------------------
(* Prune *)

PruneCommand ==
  /\ prune["cli"] = Idle /\ Sweep.left # {}
  /\ prune' = [prune EXCEPT !["cli"] = Sweep]
  /\ UNCHANGED <<now, disk, run, lastPrune, reader>>

\* One entry, stat and RemoveAll
PruneEntry(p) ==
  \E i \in First(prune[p].left) :
    /\ prune' = [prune EXCEPT ![p] =
                  IF @.left = {i} THEN Idle ELSE [left |-> @.left \ {i}, cutoff |-> @.cutoff]]
    /\ disk' = IF i \in DOMAIN disk /\ Old(i, prune[p].cutoff)
               THEN Restrict(disk, DOMAIN disk \ {i}) ELSE disk
    /\ UNCHANGED <<now, run, lastPrune, reader>>

-----------------------------------------------------------------------------
(* Recent *)

\* Mutant of MayBelongTo: a directory with a suffix is another repo's.
MayBelongToExactly(i, r) == i.base = Slug[r].base /\ i.nums = Slug[r].nums

\* mayBelongTo: by its name, a directory may be of repo r.
MayBelongTo(i, r) ==
  /\ i.base = Slug[r].base
  /\ \/ i.nums = Slug[r].nums
     \/ i.nums # <<>> /\ i.nums = Append(Slug[r].nums, i.nums[Len(i.nums)])

Alike(f, g) == RepoOf[f] = RepoOf[g] /\ SourceOf[f] = SourceOf[g]

\* priorSessionsBlock asks for Recent, and List reads the names.
Ask(f) ==
  /\ run[f].pc = "open" /\ run[f].attempt = 0
  /\ reader = Waiting
  /\ reader' = [Waiting EXCEPT
       !.fix = f,
       !.left = {i \in DOMAIN disk : MayBelongTo(i, RepoOf[f])},
       !.due = {g \in Fixes : run[g].pc = "done" /\ Alike(f, g) /\ run[g].id \in DOMAIN disk}]
  /\ UNCHANGED <<now, disk, run, lastPrune, prune>>

Meta(i) == IF i \in DOMAIN disk /\ <<"meta", 1>> \in DOMAIN disk[i].files
           THEN {disk[i].files[<<"meta", 1>>]} ELSE {}

\* Load of one of them, with the conditions of List and of Recent
Load ==
  \E i \in First(reader.left) :
    LET f == reader.fix
        got == {m \in Meta(i) : m.n = 2 /\ Alike(m.fix, f) /\ i # run[f].id} IN
      /\ reader' = [reader EXCEPT !.left = @ \ {i},
                                  !.found = @ \cup {[id |-> i, fix |-> m.fix] : m \in got}]
      /\ UNCHANGED <<now, disk, run, lastPrune, prune>>

\* ReadFile of the newest one's diff, up to the limit
Tell ==
  /\ reader.fix # NoFix /\ reader.left = {}
  /\ Cardinality(reader.told) < Limit
  /\ \E x \in reader.found :
       /\ \A y \in reader.found : run[y.fix].begun <= run[x.fix].begun
       /\ reader' = [reader EXCEPT
            !.found = @ \ {x},
            !.told = @ \cup {[fix |-> x.fix,
                              patch |-> x.id \in DOMAIN disk /\ <<"diff", 1>> \in DOMAIN disk[x.id].files]}]
  /\ UNCHANGED <<now, disk, run, lastPrune, prune>>

-----------------------------------------------------------------------------
\* A second passes.  A Fix may take any time, but Start tries its names at once: it has
\* one before a recording of its own second is old.
Tick ==
  /\ now < MaxTime
  /\ \A f \in Fixes : run[f].pc = "mkdir" => now + 1 < run[f].begun + Retain
  /\ now' = now + 1
  /\ UNCHANGED <<disk, run, lastPrune, prune, reader>>

\* The daemon is killed, and starts again.  Bounds: once, and not in
\* the last second.
Crash ==
  /\ \E f \in Fixes : Running(f)
  /\ now < MaxTime /\ \A f \in Fixes : run[f].pc # "dead"
  /\ run' = [f \in Fixes |->
             IF Running(f) THEN [run[f] EXCEPT !.pc = IF @ = "mkdir" THEN "bare" ELSE "dead"]
             ELSE run[f]]
  /\ lastPrune' = -PruneEvery
  /\ prune' = [prune EXCEPT !["daemon"] = Idle]
  /\ reader' = Waiting
  /\ UNCHANGED <<now, disk>>

Next ==
  \/ \E f \in Fixes : \/ Begin(f) \/ Mkdir(f) \/ Started(f) \/ Ask(f) \/ Attempt(f)
                      \/ NoWorktree(f) \/ Diff(f) \/ Finish(f)
  \/ PruneCommand
  \/ \E p \in {"daemon", "cli"} : PruneEntry(p)
  \/ Load \/ Tell \/ Tick \/ Crash

Spec == Init /\ [][Next]_vars

-----------------------------------------------------------------------------
(* Properties *)

\* A recording is of one Fix, and stands while that Fix runs until Retain after it began
\* (Start, AttemptFile, Prune): although Fixes start in the same second and repos share a
\* slug, its directory holds files of that Fix only, each of the attempt it is named for -
\* also when one that ran for longer lost it, for what it writes then is lost, and none of
\* it gets into another's; and no sweep, of the daemon or of the command, which know of no
\* running Fix, takes it before.
RecordsStand ==
  \A f \in Fixes :
    /\ run[f].pc \in Recording /\ now < run[f].begun + Retain => run[f].id \in DOMAIN disk
    /\ run[f].pc \notin {"idle", "mkdir", "bare"} /\ run[f].id \in DOMAIN disk =>
         \A k \in DOMAIN disk[run[f].id].files :
           LET c == disk[run[f].id].files[k] IN c.fix = f /\ (k[1] # "meta" => c.n = k[2])

\* What a Fix is told of: other, ended Fixes of its repo and source, each with a patch
\* if and only if it made one - never a half-written one - and the last ones of those
\* that had ended when it asked, but for what was deleted while it read (Recent, List).
Gone(g) == run[g].id \notin DOMAIN disk
ToldIsRecent ==
  LET f == reader.fix IN
    f # NoFix =>
      /\ \A t \in reader.told :
           /\ t.fix # f /\ Alike(t.fix, f) /\ run[t.fix].pc = "done"
           /\ t.patch = run[t.fix].patch \/ Gone(t.fix)
      /\ reader.left = {} /\ reader.found = {} =>
           \A g \in reader.due \ {t.fix : t \in reader.told} : Gone(g)
      /\ reader.left = {} /\ Cardinality(reader.told) = Limit =>
           \A g \in reader.due \ {t.fix : t \in reader.told} :
             Gone(g) \/ \A t \in reader.told : run[g].begun <= run[t.fix].begun

\* Recordings serve the Fixes that write and the one that reads them.
RecordsServe == RecordsStand /\ ToldIsRecent
===============================================================================
