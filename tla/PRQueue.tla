------------------------------- MODULE PRQueue -------------------------------
(***************************************************************************)
(* The queue of Fix PRs.  A Fix in pr mode finds its PR by its branch and  *)
(* records it as it is then; people merge, close and reopen PRs.  For a    *)
(* request, handlePRs takes the recorded PRs as rows and asks GitHub about *)
(* all of them at once, a few at a time and for three seconds, and then    *)
(* lists what is open by the newest it knows.                              *)
(***************************************************************************)
EXTENDS Integers, Sequences, FiniteSets

CONSTANTS
  PRs,       \* Fix PRs, each of a repo and a branch of its own
  Slots,     \* lookups at once (4)
  MaxPages,  \* maxCheckRunPages
  NoRow

Listed == {"open", "closed"}
Row == [state : Listed, merged : BOOLEAN, stale : BOOLEAN]

ASSUME QueueAssumption == MaxPages \in Nat /\ NoRow \notin Listed /\ NoRow \notin Row

VARIABLES
  gh,        \* gh[p]: p on GitHub; a merged PR is closed too
  recorded,  \* recorded[p]: the pr_state in the newest Fix record of p's branch
  linked,    \* the PRs whose repo has a github name, with a daemon that can ask
  qpc,       \* where the request is
  row,       \* row[p]: p's row
  at,        \* at[p]: where the goroutine of p's row is
  late,      \* the three seconds are over
  wasOpen,   \* history: the rows that were open at some time of the request
  wasShut    \* history: those that were not

github == <<gh, recorded, linked>>
request == <<qpc, row, at, late>>
seen == <<wasOpen, wasShut>>
queueVars == <<github, request, seen>>

StateOf(g) == IF g = "open" THEN "open" ELSE "closed"

-----------------------------------------------------------------------------
(* ciState, of the pages of check runs and the combined status of a commit *)

Err == {"error"}  \* a page that GitHub does not answer
RunStates == {"pending", "success", "failure"}

\* Mutant of ReadOf: the pages are not read after the first.
ReadOfFirst(pages) == IF pages = <<>> THEN {} ELSE {1} \ {i \in {1} : pages[i] = Err}

\* The pages that are read: up to one that is not answered, and no more than the limit
ReadOf(pages) ==
  {i \in DOMAIN pages : i <= MaxPages /\ \A j \in 1 .. i : pages[j] # Err}

CIState(pages, combined) ==
  LET signals == UNION {pages[i] : i \in ReadOf(pages)} \cup (combined \ Err)
  IN  IF "failure" \in signals THEN "failure"
      ELSE IF "pending" \in signals THEN "pending"
      ELSE IF signals # {} THEN "success" ELSE ""

-----------------------------------------------------------------------------
QueueTypeOK ==
  /\ gh \in [PRs -> {"none", "open", "closed", "merged"}]
  /\ recorded \in [PRs -> Listed \cup {NoRow}]
  /\ linked \subseteq PRs
  /\ qpc \in {"idle", "asking", "answered"}
  /\ row \in [PRs -> Row \cup {NoRow}]
  /\ at \in [PRs -> {"none", "waiting", "asking", "done"}]
  /\ late \in BOOLEAN
  /\ wasOpen \subseteq PRs /\ wasShut \subseteq PRs

QueueInit ==
  /\ gh = [p \in PRs |-> "none"]
  /\ recorded = [p \in PRs |-> NoRow]
  /\ linked \in SUBSET PRs
  /\ qpc = "idle" /\ late = FALSE
  /\ row = [p \in PRs |-> NoRow] /\ at = [p \in PRs |-> "none"]
  /\ wasOpen = {} /\ wasShut = {}

\* What a request under way sees of a change of p
Witness(p, g) ==
  /\ wasOpen' = IF qpc = "asking" /\ g = "open" THEN wasOpen \cup {p} ELSE wasOpen
  /\ wasShut' = IF qpc = "asking" /\ g # "open" THEN wasShut \cup {p} ELSE wasShut

\* The agent opens a PR; CreatePR does for the commit command.
OpenPR(p) ==
  /\ gh[p] = "none"
  /\ gh' = [gh EXCEPT ![p] = "open"]
  /\ Witness(p, "open")
  /\ UNCHANGED <<recorded, linked, request>>

\* People at work
Change(p, g) ==
  /\ \/ gh[p] = "open" /\ g \in {"closed", "merged"}
     \/ gh[p] = "closed" /\ g = "open"
  /\ gh' = [gh EXCEPT ![p] = g]
  /\ Witness(p, g)
  /\ UNCHANGED <<recorded, linked, request>>

\* FindPRByBranch, whatever the state; the Fix is recorded with it.
Record(p) ==
  /\ gh[p] # "none" /\ recorded[p] = NoRow
  /\ recorded' = [recorded EXCEPT ![p] = StateOf(gh[p])]
  /\ UNCHANGED <<gh, linked, request, seen>>

\* handlePRs; a repo with no github name is not asked about.
AskQueue ==
  /\ qpc = "idle"
  /\ LET rows == {p \in PRs : recorded[p] # NoRow}
     IN  /\ row' = [p \in PRs |-> IF p \in rows
              THEN [state |-> recorded[p], merged |-> FALSE, stale |-> FALSE] ELSE NoRow]
         /\ at' = [p \in PRs |-> IF p \in rows \cap linked THEN "waiting"
                                 ELSE IF p \in rows THEN "done" ELSE "none"]
         /\ wasOpen' = {p \in rows : gh[p] = "open"}
         /\ wasShut' = {p \in rows : gh[p] # "open"}
  /\ qpc' = "asking"
  /\ UNCHANGED <<late, github>>

Acquire(p) ==
  /\ at[p] = "waiting"
  /\ Cardinality({q \in PRs : at[q] = "asking"}) < Slots
  /\ at' = [at EXCEPT ![p] = "asking"]
  /\ UNCHANGED <<qpc, row, late, github, seen>>

Deadline ==
  /\ qpc = "asking" /\ ~late
  /\ late' = TRUE
  /\ UNCHANGED <<qpc, row, at, github, seen>>

\* No slot in time, or the lookup fails, as it does once the time is over.
GiveUp(p) ==
  /\ (at[p] = "waiting" /\ late) \/ at[p] = "asking"
  /\ row' = [row EXCEPT ![p].stale = TRUE]
  /\ at' = [at EXCEPT ![p] = "done"]
  /\ UNCHANGED <<qpc, late, github, seen>>

\* Mutant of Read: the state is kept, and only merged is taken.
ReadMerged(p) == [row[p] EXCEPT !.merged = gh[p] = "merged"]

Read(p) == [row[p] EXCEPT !.state = StateOf(gh[p]), !.merged = gh[p] = "merged"]

\* GetPR
Lookup(p) ==
  /\ at[p] = "asking" /\ ~late
  /\ row' = [row EXCEPT ![p] = Read(p)]
  /\ at' = [at EXCEPT ![p] = "done"]
  /\ UNCHANGED <<qpc, late, github, seen>>

\* wg.Wait
Answer ==
  /\ qpc = "asking"
  /\ \A p \in PRs : at[p] \in {"none", "done"}
  /\ qpc' = "answered"
  /\ UNCHANGED <<row, at, late, github, seen>>

Close ==
  /\ qpc = "answered"
  /\ qpc' = "idle" /\ late' = FALSE
  /\ row' = [p \in PRs |-> NoRow] /\ at' = [p \in PRs |-> "none"]
  /\ wasOpen' = {} /\ wasShut' = {}
  /\ UNCHANGED github

QueueNext ==
  \/ \E p \in PRs :
       \/ OpenPR(p) \/ Record(p) \/ Acquire(p) \/ GiveUp(p) \/ Lookup(p)
       \/ \E g \in {"open", "closed", "merged"} : Change(p, g)
  \/ AskQueue \/ Deadline \/ Answer \/ Close

QueueSpec == QueueInit /\ [][QueueNext]_queueVars

-----------------------------------------------------------------------------
(* Properties *)

\* The default answer
Queue == {p \in PRs : row[p] # NoRow /\ row[p].state = "open" /\ ~row[p].merged}

Confirmed(p) == p \in linked /\ row[p] # NoRow /\ ~row[p].stale

\* The aggregation that ciState's comment states, for every way checks come in pages
WorstWins ==
  \A n \in 0 .. MaxPages :
    \A pages \in [1 .. n -> SUBSET RunStates], combined \in {{}} \cup {{s} : s \in RunStates} :
      LET told == UNION {pages[i] : i \in 1 .. n} \cup combined
      IN  /\ CIState(pages, combined) = "failure" <=> "failure" \in told
          /\ CIState(pages, combined) \in {"success", ""} => "pending" \notin told
          /\ CIState(pages, combined) = "" <=> told = {}

\* Every row GitHub has answered for is told as it was at some moment of the
\* request, however the lookups queue for the slots and the deadline cuts them: a PR
\* open all along is in the queue, one never open is not.  A row without an answer
\* stands as recorded.  And the CI state of a row is that of its worst check, as far
\* as its checks were read.
QueueIsHonest ==
  /\ qpc = "answered" => \A p \in PRs : row[p] # NoRow =>
       IF Confirmed(p)
       THEN (p \in Queue => p \in wasOpen) /\ (p \notin Queue => p \in wasShut)
       ELSE p \in Queue <=> recorded[p] = "open"
  /\ WorstWins
=============================================================================
