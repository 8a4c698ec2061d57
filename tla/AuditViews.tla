----------------------------- MODULE AuditViews ------------------------------
(***************************************************************************)
(* What is read from the audit log: by the by_repo index (Recent, Since),  *)
(* by the pages of the console (history, repos, drill-down, overview,      *)
(* KPIs), and by the router that picks the provider of the next Fix.  A    *)
(* worker picks the provider when its Fix starts, stamps the record when   *)
(* the dispatch is over, and then appends it: two workers of one repo      *)
(* append in either order of their stamps.                                 *)
(***************************************************************************)
EXTENDS Integers, Sequences, FiniteSets, SequencesExt, FiniteSetsExt

CONSTANTS
  RepoNames,  \* cfg.Repos: a sequence of names, in the order of the index's keys
  Workers,    \* the workers of the orchestrator
  Signals,    \* the signals of the model, a subset of Decided
  Providers,  \* agent.providers: a sequence
  Weight,     \* providerCostWeight
  Fallback,   \* agent.provider
  PageSize,   \* the limit of handleHistory and handleRepo
  MaxRecords, \* bound of the model: records ever written
  Nothing     \* no record, no provider, no key

VARIABLES
  log,        \* the history bucket: the records in the order of their sequence numbers
  hasIndex,   \* there is a by_repo bucket
  byRepo,     \* its keys: <<repo, sequence number>>
  clock,      \* the daemon's clock, one tick a stamp
  wpc, rec    \* wpc[w], rec[w]: where worker w is, and the record it is to write

viewsVars == <<log, hasIndex, byRepo, clock, wpc, rec>>

RepoIds == 1 .. Len(RepoNames)
ProviderNames == {Providers[i] : i \in DOMAIN Providers}

\* What Decide makes of a signal, and AuditSource of one an operator sent: an action,
\* that the fleet policy or the fix ladder may turn into a noop, or a noop
Decided ==
  LET acts == { [source |-> "ci", kind |-> "fail", action |-> "fix"],
                [source |-> "dev-gate", kind |-> "fail", action |-> "fix"],
                [source |-> "dev-gate", kind |-> "pass", action |-> "promote"],
                [source |-> "prod-health", kind |-> "breach", action |-> "revert"],
                [source |-> "daemon", kind |-> "fail", action |-> "fix"],
                [source |-> "daemon", kind |-> "pass", action |-> "promote"],
                [source |-> "daemon", kind |-> "breach", action |-> "revert"] }
  IN  acts \cup {[s EXCEPT !.action = "noop"] : s \in acts}
           \cup [source : {"ci", "dev-gate", "prod-health"}, kind : {"blocked"}, action : {"noop"}]
           \cup [source : {"ci", "prod-health"}, kind : {"pass"}, action : {"noop"}]
           \cup {[source |-> "ci", kind |-> "fail", action |-> "rerun"]}

\* Records with their repo, what was found and done, whether that worked, when, and
\* whether there is the promoted_sha of a Promote in their evidence
Records ==
  [repo : RepoIds, source : {s.source : s \in Decided}, kind : {s.kind : s \in Decided},
   action : {s.action : s \in Decided}, ok : BOOLEAN, at : Nat,
   provider : ProviderNames \cup {Fallback, Nothing}, promoted : BOOLEAN]

\* There is a repo, its providers have weights (in tenths), and a log of an earlier
\* version has room in the bound.
ASSUME ViewsAssumption ==
  /\ Len(RepoNames) \in Nat \ {0}
  /\ Providers \in Seq(ProviderNames) /\ \A p \in ProviderNames : Weight[p] \in Nat
  /\ Signals \subseteq Decided /\ IsFiniteSet(Workers) /\ MaxRecords \in Nat \ {0}
  /\ PageSize \in Nat /\ Nothing \notin Records

\* auditStatus: a gate that could not run is never a success, a noop cannot fail.
Statuses(s) ==
  IF s.kind = "blocked" THEN {FALSE} ELSE IF s.action = "noop" THEN {TRUE} ELSE BOOLEAN

-----------------------------------------------------------------------------
(* The index *)

\* Pairs of keys, of records and of places, the first of which comes first
ByKey(K) == {p \in K \X K : p[1][1] > p[2][1] \/ (p[1][1] = p[2][1] /\ p[1][2] > p[2][2])}
Older(X) == {p \in X \X X : p[1].at < p[2].at}
Newer(X) == {p \in X \X X : p[1].at > p[2].at}
Rising(I) == {p \in I \X I : p[1] < p[2]}

\* The members of a set in the order of a relation: the n-th has n - 1 before it.
Sorted(S, R) ==
  [n \in 1 .. Cardinality(S) |->
     CHOOSE x \in S : Cardinality({y \in S : <<y, x>> \in R}) = n - 1]

\* What is at these places of a sequence, in its order
Pick(s, I) == LET at == Sorted(I, Rising(I)) IN [n \in DOMAIN at |-> s[at[n]]]
Select(s, Test(_)) == Pick(s, {i \in DOMAIN s : Test(s[i])})

TakeWhile(s, Test(_)) ==
  LET stops == {i \in DOMAIN s : ~Test(s[i])}
  IN  IF stops = {} THEN s ELSE SubSeq(s, 1, Min(stops) - 1)

\* Mutant of UpTo: the cursor is put on the first key of the repo's range.
UpToFirst(r) == {k \in byRepo : k[1] < r}

\* seekPrefixEnd: the cursor is on the greatest of these keys, whether there is
\* a key past the repo's range or not.
UpTo(r) == {k \in byRepo : k[1] <= r}

\* The records of the keys the cursor passes on its way back
Back(r) ==
  LET ks == TakeWhile(Sorted(UpTo(r), ByKey(UpTo(r))), LAMBDA k : k[1] = r)
  IN  [i \in DOMAIN ks |-> log[ks[i][2]]]

OfRepo(s, r) == Select(s, LAMBDA x : x.repo = r)
FirstOf(s, n) == SubSeq(s, 1, IF Len(s) < n THEN Len(s) ELSE n)

\* Recent; r is 0 for every repo.
Recent(r, n) ==
  FirstOf(IF r = 0 THEN Reverse(log)
          ELSE IF hasIndex THEN Back(r) ELSE Reverse(OfRepo(log, r)), n)

\* Since: back from the newest to the first record that is too old
Since(r, t) ==
  IF hasIndex THEN Reverse(TakeWhile(Back(r), LAMBDA x : x.at >= t))
  ELSE Select(log, LAMBDA x : x.repo = r /\ x.at >= t)

ActionsSince(r, t) ==
  LET done == Select(Since(r, t), LAMBDA x : x.ok)
  IN  [i \in DOMAIN done |-> done[i].action]

\* LastPromote, for Revert: of the last Promote that worked and says what it put on prod,
\* here the time, which tells it from the others as its promoted_sha does
LastPromote(r) ==
  LET done == Select(Since(r, 0), LAMBDA x : x.action = "promote" /\ x.ok /\ x.promoted)
  IN  IF done = <<>> THEN Nothing ELSE Last(done).at

-----------------------------------------------------------------------------
(* Scores *)

\* The fix at i is followed by a revert before the next fix.
Reverted(acts, i) ==
  \E j \in i + 1 .. Len(acts) :
    acts[j] = "revert" /\ (\A k \in i + 1 .. j - 1 : acts[k] # "fix")

ByTime(recs) == Sorted(Range(recs), Older(Range(recs)))
Latest(recs) == Sorted(Range(recs), Newer(Range(recs)))

Count(recs, a) == Cardinality({i \in DOMAIN recs : recs[i].action = a})

\* Mutant of Counted: a fix that failed is counted.
CountedAll(recs) == recs

\* What buildKPIs counts: what did not fail
Counted(recs) == Select(recs, LAMBDA x : x.ok)

\* buildKPIs and finishKPI of some records: of one repo, or of all of them
KPI(recs) ==
  LET done == Counted(ByTime(recs))
      acts == [i \in DOMAIN done |-> done[i].action]
  IN  [fixes |-> Count(done, "fix"), reverts |-> Count(done, "revert"),
       promotes |-> Count(done, "promote"),
       good |-> Cardinality({i \in DOMAIN acts : acts[i] = "fix" /\ ~Reverted(acts, i)})]

RanBy(x) == IF x.provider = Nothing THEN Fallback ELSE x.provider

\* StatsFromRecords: failed records are no fixes of a provider, and yet they end
\* the run of records that a fix is judged by.
Stats(recs, p) ==
  LET acts == [i \in DOMAIN recs |-> recs[i].action]
      mine == {i \in DOMAIN recs : acts[i] = "fix" /\ recs[i].ok /\ RanBy(recs[i]) = p}
  IN  [fixes |-> Cardinality(mine),
       success |-> Cardinality({i \in mine : ~Reverted(acts, i)})]

\* The ProviderStats of the daemon: every repo's Since, in the log's order
Window(t) ==
  LET in(i) == \E j \in DOMAIN Since(log[i].repo, t) : Since(log[i].repo, t)[j] = log[i]
  IN  Pick(log, {i \in DOMAIN log : in(i)})

\* A candidate passes with no history, or with half of its fixes still standing.
Fit(recs, p) == LET s == Stats(recs, p) IN s.fixes = 0 \/ 2 * s.success >= s.fixes

\* PickProvider, "cheapest" among the providers that are not marked down
PickProvider(recs, live) ==
  LET fit == {i \in DOMAIN Providers : Providers[i] \in live /\ Fit(recs, Providers[i])}
  IN  IF fit = {} THEN Fallback
      ELSE Providers[CHOOSE i \in fit : \A j \in fit :
             \/ Weight[Providers[i]] < Weight[Providers[j]]
             \/ Weight[Providers[i]] = Weight[Providers[j]] /\ i <= j]

-----------------------------------------------------------------------------
(* The pages *)

MapStatus(kind) ==
  CASE kind = "pass" -> "pass" [] kind \in {"fail", "breach"} -> "fail"
    [] kind = "blocked" -> "waiting"

MapHealth(x) ==
  IF x.source = "prod-health" /\ x.kind = "breach" THEN "breach"
  ELSE IF x.kind \in {"fail", "blocked"} THEN "degraded" ELSE "healthy"

\* recordToEvent: a failed dispatch is not ok, whatever its action.
Event(x) ==
  [ repo |-> x.repo, source |-> x.source, action |-> x.action, at |-> x.at,
    ok |-> x.ok /\ (x.kind = "pass" \/ x.action \in {"fix", "promote", "revert"}) ]

Events(recs) == [i \in DOMAIN recs |-> Event(recs[i])]

NewestOf(recs) == IF recs = <<>> THEN Nothing ELSE Latest(recs)[1]
NewestBy(recs, a) == NewestOf(Select(recs, LAMBDA x : x.action = a))

TimeOf(x) == IF x = Nothing THEN Nothing ELSE x.at

\* A row of buildRepos: failed promotes and reverts have their times too.
RepoRow(recs, r) ==
  LET newest == NewestOf(OfRepo(recs, r))
  IN  [ status |-> IF newest = Nothing THEN "idle" ELSE MapStatus(newest.kind),
        action |-> IF newest = Nothing THEN "noop" ELSE newest.action,
        at |-> TimeOf(newest),
        health |-> IF newest = Nothing THEN "healthy" ELSE MapHealth(newest),
        lastPromote |-> TimeOf(NewestBy(OfRepo(recs, r), "promote")),
        lastRevert |-> TimeOf(NewestBy(OfRepo(recs, r), "revert")) ]

\* buildGates: a manual action is no news of a gate.
GateStatus(recs, source) ==
  LET newest == NewestOf(Select(recs, LAMBDA x : x.source = source))
  IN  IF newest = Nothing THEN "idle"
      ELSE IF source = "dev-gate" /\ newest.action = "fix" /\ newest.kind # "pass" THEN "acting"
      ELSE MapStatus(newest.kind)

\* buildPipeline: the promote stage asks for no more than an action.
PromoteStage(recs) ==
  IF NewestBy(recs, "promote") = Nothing THEN "waiting" ELSE "pass"

Stage(recs, stage) ==
  CASE stage = "github" -> "pass" [] stage = "ci" -> GateStatus(recs, "ci")
    [] stage = "dev" -> GateStatus(recs, "dev-gate") [] stage = "promote" -> PromoteStage(recs)
    [] stage = "prod" -> GateStatus(recs, "prod-health")

\* The buildKPIs of the overview, within one day: failed dispatches too
Today(recs) ==
  [fixes |-> Count(recs, "fix"), promotes |-> Count(recs, "promote"),
   reverts |-> Count(recs, "revert"),
   lastActionAt |-> TimeOf(NewestOf(Select(recs, LAMBDA x : x.action # "noop")))]

History(r, n) == Events(Latest(Recent(r, n)))

DrillDown(r) ==
  LET recs == Since(r, 0)
  IN  [row |-> RepoRow(recs, r), timeline |-> Events(FirstOf(Latest(recs), PageSize))]

Overview ==
  [ rows |-> [r \in RepoIds |-> RepoRow(log, r)],
    stages |-> [s \in {"github", "ci", "dev", "promote", "prod"} |-> Stage(log, s)],
    today |-> Today(log), events |-> Events(FirstOf(Latest(log), PageSize)) ]

-----------------------------------------------------------------------------
(* The steps *)

ViewsTypeOK ==
  /\ log \in Seq(Records) /\ Len(log) <= MaxRecords
  /\ hasIndex \in BOOLEAN
  /\ byRepo \subseteq RepoIds \X DOMAIN log
  /\ clock \in 0 .. MaxRecords
  /\ wpc \in [Workers -> {"idle", "dispatching", "stamped"}]
  /\ \A w \in Workers : IF wpc[w] = "idle" THEN rec[w] = Nothing ELSE rec[w] \in Records

\* A new database, or one of a version that kept no index
Earlier == [repo |-> 1, source |-> "ci", kind |-> "fail", action |-> "fix", ok |-> TRUE,
        at |-> 0, provider |-> Nothing, promoted |-> FALSE]

ViewsInit ==
  /\ log \in {<<>>, <<Earlier>>}
  /\ hasIndex = FALSE /\ byRepo = {} /\ clock = 0
  /\ wpc = [w \in Workers |-> "idle"] /\ rec = [w \in Workers |-> Nothing]

\* rebuildRepoIndex
Rebuilt == IF byRepo # {} THEN byRepo ELSE {<<log[i].repo, i>> : i \in DOMAIN log}

\* Open; until then only `history` has opened the file, read-only.
Open ==
  /\ ~hasIndex
  /\ hasIndex' = TRUE
  /\ byRepo' = Rebuilt
  /\ UNCHANGED <<log, clock, wpc, rec>>

\* Records that the model still has room for
Room == Len(log) + Cardinality({w \in Workers : wpc[w] # "idle"}) < MaxRecords

\* A dispatch begins; a Fix by the router takes the provider the last records
\* speak for.
BeginDispatch(w, r, s) ==
  /\ hasIndex /\ wpc[w] = "idle" /\ Room
  /\ \E t \in {0, clock}, live \in SUBSET ProviderNames :
       rec' = [rec EXCEPT ![w] =
         [repo |-> r, source |-> s.source, kind |-> s.kind, action |-> s.action,
          ok |-> FALSE, at |-> 0,
          provider |-> IF s.action = "fix" THEN PickProvider(Window(t), live) ELSE Nothing,
          promoted |-> FALSE]]
  /\ wpc' = [wpc EXCEPT ![w] = "dispatching"]
  /\ UNCHANGED <<log, hasIndex, byRepo, clock>>

\* It is over: the Audit callback makes the record.  A Promote that aligned dev may not
\* know what it put on prod.
Stamp(w) ==
  /\ wpc[w] = "dispatching"
  /\ clock' = clock + 1
  /\ \E ok \in Statuses(rec[w]), known \in BOOLEAN :
       /\ known => ok /\ rec[w].action = "promote"
       /\ rec' = [rec EXCEPT ![w].ok = ok, ![w].at = clock + 1, ![w].promoted = known]
  /\ wpc' = [wpc EXCEPT ![w] = "stamped"]
  /\ UNCHANGED <<log, hasIndex, byRepo>>

Write(w) ==
  /\ wpc[w] = "stamped"
  /\ log' = Append(log, rec[w])
  /\ byRepo' = byRepo \cup {<<rec[w].repo, Len(log) + 1>>}
  /\ rec' = [rec EXCEPT ![w] = Nothing]
  /\ wpc' = [wpc EXCEPT ![w] = "idle"]
  /\ UNCHANGED <<hasIndex, clock>>

ViewsNext ==
  \/ Open
  \/ \E w \in Workers :
       Stamp(w) \/ Write(w) \/ \E r \in RepoIds, s \in Signals : BeginDispatch(w, r, s)

ViewsSpec == ViewsInit /\ [][ViewsNext]_viewsVars

-----------------------------------------------------------------------------
(* Properties *)

InStep(recs) == \A i, j \in DOMAIN recs : i < j => recs[i].at < recs[j].at

\* The index answers as a scan of the log would: the newest records of a repo, its
\* records since a time (from which the router, the flap guard and Revert decide),
\* and the page of a repo that is read through it - whatever the database was opened
\* with and next to whatever other repos.  Only records that two workers have
\* appended against the order of their stamps may be cut off by an older one, and
\* then the answer still ends with the newest: nothing is missing in the middle.
LookupsAgree ==
  LET overview == Overview IN
  \A r \in RepoIds :
    LET mine == OfRepo(log, r)
        page == DrillDown(r)
    IN
    /\ \A n \in 1 .. MaxRecords : Recent(r, n) = FirstOf(Reverse(mine), n)
    /\ \A t \in 0 .. clock :
         /\ IsSuffix(Since(r, t), mine) \/ ~hasIndex
         /\ InStep(mine) => Since(r, t) = Select(mine, LAMBDA x : x.at >= t)
    /\ page.row = overview.rows[r]
    /\ Len(log) <= PageSize =>
         page.timeline = Select(History(0, PageSize), LAMBDA e : e.repo = r)

\* The pages and the scores, which count the same log in different ways, agree: a
\* successful fix is credited to one provider; a revert spoils one fix at most; the
\* KPIs count what the activity feed shows as ok and the overview as done less what
\* failed; with nothing failed and all in step, KPIs and router judge fixes alike;
\* and the last Promote that Revert trusts is no newer than the one on the page.
ScoresAgree ==
  LET total == KPI(log)
      failed(a) == Cardinality({i \in DOMAIN log : log[i].action = a /\ ~log[i].ok})
      names == ProviderNames \cup {Fallback}
      credit == Cardinality(UNION {{p} \X (1 .. Stats(log, p).fixes) : p \in names})
      success == Cardinality(UNION {{p} \X (1 .. Stats(log, p).success) : p \in names})
      page == History(0, MaxRecords)
      overview == Overview
  IN  /\ credit = total.fixes
      /\ total.fixes - total.good <= total.reverts
      /\ total.fixes = Cardinality({i \in DOMAIN page : page[i].action = "fix" /\ page[i].ok})
      /\ overview.today.fixes = total.fixes + failed("fix")
      /\ overview.today.reverts = total.reverts + failed("revert")
      /\ (\A x \in Range(log) : x.ok \/ x.action \notin {"fix", "revert"}) /\ InStep(log)
           => success = total.good
      /\ \A r \in RepoIds : LastPromote(r) # Nothing =>
           /\ overview.stages["promote"] = "pass"
           /\ LastPromote(r) <= overview.rows[r].lastPromote
      /\ \A r \in RepoIds :
           Len(ActionsSince(r, 0)) >= KPI(OfRepo(log, r)).fixes + KPI(OfRepo(log, r)).reverts
=============================================================================
