------------------------------ MODULE MCFleet ------------------------------
(***************************************************************************)
(* The workers of the orchestrator: the policy that holds across repos     *)
(* (Fleet), and the audit log they write, as it is read back by index, by  *)
(* page and by the router of providers (AuditViews).  They share no state  *)
(* in the models: a behaviour is one of one part, and the other stays as   *)
(* it begins.                                                              *)
(***************************************************************************)
EXTENDS Fleet, AuditViews, TLC

VARIABLE part
allVars == <<part, vars, viewsVars>>

\* The views begin in each of their initial states when they are explored, else in one.
AllInit ==
  /\ part \in {"fleet", "views"}
  /\ Init /\ ViewsInit
  /\ part # "views" => log = <<>> /\ ~hasIndex

AllNext ==
  \/ part = "fleet" /\ Next /\ UNCHANGED <<part, viewsVars>>
  \/ part = "views" /\ ViewsNext /\ UNCHANGED <<part, vars>>

AllSpec == AllInit /\ [][AllNext]_allVars

\* An upstream and two leaves that depend on it.  Each repo has some of the gates, so
\* that every verdict can meet every other.
CONSTANTS up, a, b

MCDeps == [r \in Repos |-> IF r = up THEN {} ELSE {up}]
MCGates == [r \in Repos |->
  {"breach", "recovered"} \cup
  (CASE r = up -> {"blocked", "fail"} [] r = a -> {"gate pass"} [] OTHER -> {})]
MCMaxActions == [r \in Repos |-> IF r = up THEN 3 ELSE 0]

\* Two repos of which one's name begins with the other's, and signals that are followed
\* by a Fix, a Promote, a Revert or nothing
MCRepoNames == <<"a", "ab">>
MCProviders == <<"claude", "codex">>
MCWeight == [claude |-> 10, codex |-> 7]
MCSignals ==
  { [source |-> "dev-gate", kind |-> "fail", action |-> "fix"],
    [source |-> "dev-gate", kind |-> "pass", action |-> "promote"],
    [source |-> "prod-health", kind |-> "breach", action |-> "revert"],
    [source |-> "ci", kind |-> "blocked", action |-> "noop"] }

Symmetry == Permutations(Workers)

-----------------------------------------------------------------------------
\* Either part keeps to its types: flags and marks to the repos, records and index to
\* what Append writes.
TypesOK ==
  /\ part = "fleet" => TypeOK
  /\ part = "views" => ViewsTypeOK

\* What is read from the audit log agrees with it and with the other ways to read it:
\* the look-ups by the index, the pages, and the scores of Fixes (AuditViews).
ViewsAgree == part = "views" => LookupsAgree /\ ScoresAgree
=============================================================================
