------------------------------ MODULE MCDeploy ------------------------------
(***************************************************************************)
(* The way to prod: the gates whose verdicts ask for a Promote or a Revert *)
(* (Gates), and the two of them at work on the branches (Release).  They   *)
(* share no state in the models: a behaviour is one of one part, and the   *)
(* other stays as it begins.                                               *)
(***************************************************************************)
EXTENDS Gates, Release, TLC

VARIABLE part
allVars == <<part, vars, releaseVars>>

AllInit == part \in {"gates", "release"} /\ Init /\ ReleaseInit /\ (part = "gates" => grafts = {})

AllNext ==
  \/ part = "gates" /\ Next /\ UNCHANGED <<part, releaseVars>>
  \/ part = "release" /\ ReleaseNext /\ UNCHANGED <<part, vars>>

AllSpec == AllInit /\ [][AllNext]_allVars

CONSTANTS d1, d2, app
Symmetry == Permutations(Requests)

\* Graphs with one hotfix and one merge, and in a shallow clone with a commit less
Of(kinds) == {i \in Ids : commits[i].kind \in kinds}
Small ==
  /\ Cardinality(Of({"hotfix"})) <= 1 /\ Cardinality(Of({"merge"})) <= 1
  /\ grafts = {} \/ Len(commits) < MaxCommits

-----------------------------------------------------------------------------
\* Either part keeps to its types and bounds: no more smoke checks than slots, no more
\* signals than the channel holds, and branches that are commits.
TypesOK ==
  /\ part = "gates" => TypeOK
  /\ part = "release" => ReleaseTypeOK
=============================================================================
