----------------------------- MODULE MCSessions ------------------------------
(***************************************************************************)
(* The recordings of Fixes that the API serves (Sessions), and the login   *)
(* that says to whom (Login).  They share no state: a behaviour is one of  *)
(* one part, and the other stays as it begins.                             *)
(***************************************************************************)
EXTENDS Sessions, Login, TLC

VARIABLE part
allVars == <<part, vars, loginVars>>

\* The login begins in each of its initial states when it is explored, else in one.
AllInit ==
  /\ part \in {"sessions", "login"}
  /\ Init /\ LoginInit
  /\ part # "login" => ~viewers /\ groups = [b \in Browsers |-> "neither"]

AllNext ==
  \/ part = "sessions" /\ Next /\ UNCHANGED <<part, loginVars>>
  \/ part = "login" /\ LoginNext /\ UNCHANGED <<part, vars>>

AllSpec == AllInit /\ [][AllNext]_allVars

\* Two Fixes of a repo svc and one of svc-1, whose slug is the name a second recording
\* of svc gets in one second.
CONSTANTS f1, f2, f3, svc, svc1

MCSlug == (svc :> [base |-> svc, nums |-> <<>>]) @@ (svc1 :> [base |-> svc, nums |-> <<1>>])
MCRepoOf == (f1 :> svc1) @@ [f \in {f2, f3} |-> svc]
MCSourceOf == [f \in {f1, f2, f3} |-> "ci"]

\* Two tabs of one browser
CONSTANTS t1, t2, b1
MCOwner == [t \in {t1, t2} |-> b1]

\* Bound: one Fix at most outlives the retention, beside one other, and none in a life
\* after a kill.
Outlived == {f \in Fixes : run[f].pc \in Recording /\ now >= run[f].begun + Retain}
Small ==
  /\ Cardinality(Outlived) <= 1
  /\ Outlived # {} => /\ \A f \in Fixes : run[f].pc # "dead"
                      /\ \E f \in Fixes : run[f].pc = "idle"

Symmetry == Permutations({f2, f3}) \cup Permutations(Tabs)

-----------------------------------------------------------------------------
\* Either part keeps to its types and bounds: recordings to the retention, cookies to
\* the lifetimes they are given.
TypesOK ==
  /\ part = "sessions" => TypeOK
  /\ part = "login" => LoginTypeOK

\* Whatever the browser's tabs do, a page or an action opens only to a role that the
\* issuer gave within the session's time (Login).
OnlyGranted == part = "login" => SessionsAreGranted
=============================================================================
