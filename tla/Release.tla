------------------------------ MODULE Release ------------------------------
(***************************************************************************)
(* Promote and Revert of one repository, over its origin's dev and prod    *)
(* branches.  The repo's worker runs one of them at a time, as a sequence  *)
(* of fetches, checks and non-force pushes; people and Fixes push to dev,  *)
(* people push to prod, and any step can fail or be the daemon's last.     *)
(* The daemon's clone is shallow unless somebody else made it: git judges  *)
(* there by the ancestry it can see.  What a Revert may undo is remembered *)
(* in the audit trail only.                                                *)
(***************************************************************************)
EXTENDS Naturals, Sequences, FiniteSets

CONSTANTS
  MaxCommits,  \* bound of the model: commits ever made
  Carry,       \* has the repo gitops values files to carry the image tag in?
  Unpinned,    \* may an operator promote without a gated SHA?
  Hotfixes     \* do people push to the prod branch?

ASSUME ReleaseAssumption ==
  /\ MaxCommits \in Nat \ {0}
  /\ {Carry, Unpinned, Hotfixes} \subseteq BOOLEAN

VARIABLES
  commits,   \* the commit graph, in order of creation
  dev, prod, \* origin's branches: the number of the commit each points at
  gated,     \* dev tips the dev gate has passed on
  pc,        \* where the worker is in Promote or Revert
  pin,       \* Promote's pin: a commit, or NoCommit for an unpinned one
  head,      \* HEAD of the daemon's clone
  grafts,    \* its shallow file: commits whose parents it does not know of; {}: complete
  promoted,  \* promoteInner's promoted
  oldProd,   \* revertInner's oldProd ...
  fetched,   \* ... and the origin/dev it fetched along with it
  lastPromote, \* LastPromote: promoted_sha of the last successful Promote
  landed     \* history: commits that were ever prod's tip

worker == <<pc, pin, head, promoted, oldProd, fetched>>
clone == <<worker, grafts>>
origin == <<commits, dev, prod, gated>>
releaseVars == <<origin, clone, lastPromote, landed>>

NoCommit == 0
Ids == DOMAIN commits
CommitKinds == {"human", "merge", "hotfix", "carry", "revert"}
\* A commit: its parents, itself and its ancestors, the tree it holds (named after the commit that first
\* held it, or EmptyTree), and whether in that tree the prod values file has the
\* dev values file's image tag.  What the model says nothing of is NoCommit: a
\* missing second parent, the tip of a merged branch, the history before commit 1.
Commit == [parent : Nat, second : Nat, anc : SUBSET Nat, tree : Nat,
           current : BOOLEAN, kind : CommitKinds]
EmptyTree == 0

ReleaseTypeOK ==
  /\ commits \in Seq(Commit)
  /\ Len(commits) <= MaxCommits
  /\ {dev, prod} \subseteq Ids
  /\ gated \subseteq Ids
  /\ pc \in {"idle", "check", "fetch", "push", "align", "record",
             "revert", "realign"}
  /\ {pin, head, promoted, oldProd, fetched, lastPromote} \subseteq Ids \cup {NoCommit}
  /\ grafts \subseteq Ids \cup {NoCommit}
  /\ landed \subseteq Ids

\* Commit 1 stands for the history so far: both branches are there.  The clone
\* was made by EnsureCloned, two commits deep, or it is complete.
ReleaseInit ==
  /\ commits = <<[parent |-> NoCommit, second |-> NoCommit, anc |-> {1}, tree |-> 1,
                  current |-> TRUE, kind |-> "human"]>>
  /\ dev = 1 /\ prod = 1
  /\ gated = {}
  /\ pc = "idle"
  /\ pin = NoCommit /\ head = NoCommit /\ promoted = NoCommit
  /\ oldProd = NoCommit /\ fetched = NoCommit
  /\ grafts \in {{}, {NoCommit}}
  /\ lastPromote = NoCommit
  /\ landed = {1}

-----------------------------------------------------------------------------
(* Git *)

New == Len(commits) + 1

\* Mutant of AddCommit: git commit fails and its failure goes unnoticed.
AddCommitFails(p, q, tree, current, kind) ==
  /\ New <= MaxCommits
  /\ UNCHANGED commits

\* A new commit on top of p, and of q if it is a merge
AddCommit(p, q, tree, current, kind) ==
  /\ New <= MaxCommits
  /\ commits' = Append(commits,
       [parent |-> p, second |-> q, tree |-> tree, current |-> current, kind |-> kind,
        anc |-> {New} \cup UNION {commits[c].anc : c \in {p, q} \cap Ids}])

Parents(c) == {commits[c].parent, commits[c].second}

IsAncestor(a, c) == a \in commits[c].anc

\* The commits git finds from c in a clone with these grafts: c, and from a commit that
\* is not cut off its parents
Reach(cut, c) ==
  IF cut = {} THEN commits[c].anc
  ELSE {d \in commits[c].anc :
          \A found \in SUBSET commits[c].anc :
            c \in found /\ (\A e \in found \ cut : Parents(e) \cap Ids \subseteq found)
              => d \in found}

\* merge-base --is-ancestor in the clone, and what git push asks before it sends c
\* to a branch at a: fast-forward only.
Precedes(a, c) == a \in Reach(grafts, c)
PrecedesFetched(a, c) == a \in Reach(grafts', c)

\* FetchOriginHeads of one branch, at t, two commits deep if the clone is shallow:
\* the tip's parents come along, as commits without parents.
Fetched(cut, t) == IF cut = {} THEN {} ELSE (cut \ {t}) \cup Parents(t)
FetchHead(t) == grafts' = Fetched(grafts, t)
FetchHeads(one, other) == grafts' = Fetched(Fetched(grafts, one), other)

-----------------------------------------------------------------------------
(* People, Fixes and the dev gate *)

\* A commit lands on dev: somebody's push, a Fix, a merged PR.  It may be a
\* merge commit, or it may bump the dev image tag.
DevPush(kind, bump) ==
  /\ AddCommit(dev, NoCommit, New, commits[dev].current /\ ~bump, kind)
  /\ dev' = New
  /\ UNCHANGED <<prod, gated, clone, lastPromote, landed>>

\* A person pushes to prod ...
Hotfix ==
  /\ Hotfixes
  /\ AddCommit(prod, NoCommit, New, commits[prod].current, "hotfix")
  /\ prod' = New
  /\ landed' = landed \cup {New}
  /\ UNCHANGED <<dev, gated, clone, lastPromote>>

\* ... or merges prod into dev, which makes a promote possible again.
Reconcile ==
  /\ ~IsAncestor(prod, dev)
  /\ AddCommit(dev, prod, New, commits[dev].current, "merge")
  /\ dev' = New
  /\ UNCHANGED <<prod, gated, clone, lastPromote, landed>>

\* The dev gate passes on dev's tip.
GatePass ==
  /\ gated' = gated \cup {dev}
  /\ UNCHANGED <<commits, dev, prod, clone, lastPromote, landed>>

-----------------------------------------------------------------------------
(* Promote *)

\* handle is done with the signal.
Done ==
  /\ pc' = "idle"
  /\ pin' = NoCommit /\ head' = NoCommit /\ promoted' = NoCommit
  /\ oldProd' = NoCommit /\ fetched' = NoCommit

\* EnsureCloned: the clone is at dev's tip.
PromoteStart(c) ==
  /\ pc = "idle"
  /\ pc' = "check"
  /\ pin' = c
  /\ head' = dev
  /\ FetchHeads(dev, prod)
  /\ UNCHANGED <<origin, promoted, oldProd, fetched, lastPromote, landed>>

\* Mutant of VerifyFetchedTip: any gated commit will do.
VerifyAncestor == pin # NoCommit => IsAncestor(pin, dev)

\* The gated commit is still dev's tip.
VerifyFetchedTip == pin # NoCommit => pin = dev

\* FetchOriginHeads, VerifyFetchedTip, CheckFetchedFastForward, then CarryProdTag
\* and a local CommitProdTag, which the pin moves to
PromoteCheck ==
  /\ pc = "check"
  /\ FetchHeads(dev, prod)
  /\ VerifyFetchedTip
  /\ PrecedesFetched(prod, dev)
  /\ IF Carry /\ ~commits[head].current
     THEN /\ AddCommit(head, NoCommit, New, TRUE, "carry")
          /\ head' = New
          /\ pin' = IF pin = NoCommit THEN NoCommit ELSE New
     ELSE UNCHANGED <<commits, head, pin>>
  /\ pc' = "fetch"
  /\ UNCHANGED <<dev, prod, gated, promoted, oldProd, fetched, lastPromote, landed>>

\* FastForward fetches again and asks originAllowsPin.
PromoteFetch ==
  /\ pc = "fetch"
  /\ FetchHeads(dev, prod)
  /\ pin # NoCommit => PrecedesFetched(dev, pin)
  /\ pc' = "push"
  /\ UNCHANGED <<origin, pin, head, promoted, oldProd, fetched, lastPromote, landed>>

\* FastForward pushes the pin, or the clone's dev branch, to prod.
Pushed == IF pin = NoCommit THEN head ELSE pin

\* Mutant of PromotePush: dev gets the commit before prod does.
PromotePushDevFirst ==
  /\ pc = "push"
  /\ Precedes(dev, Pushed)
  /\ dev' = Pushed
  /\ pc' = "align"
  /\ UNCHANGED <<commits, prod, gated, pin, head, grafts, promoted, oldProd, fetched,
                 lastPromote, landed>>

PromotePush ==
  /\ pc = "push"
  /\ Precedes(prod, Pushed)
  /\ prod' = Pushed
  /\ landed' = landed \cup {Pushed}
  /\ pc' = "align"
  /\ UNCHANGED <<commits, dev, gated, pin, head, grafts, promoted, oldProd, fetched,
                 lastPromote>>

\* Mutant of PromoteAlign: a dev branch that moved on is left alone.
PromoteAlignSkips ==
  /\ pc = "align"
  /\ promoted' = IF pin = NoCommit THEN prod ELSE pin
  /\ FetchHead(dev)
  /\ dev' = IF PrecedesFetched(dev, promoted') THEN promoted' ELSE dev
  /\ pc' = "record"
  /\ UNCHANGED <<commits, prod, gated, pin, head, oldProd, fetched, lastPromote, landed>>

\* promoted is the pin, or what RemoteTip fetches as prod's tip by now; PushSHA
\* takes dev there.  If RemoteTip fails promoted is empty and dev is left alone.
PromoteAlign ==
  /\ pc = "align"
  /\ \/ /\ promoted' = IF pin = NoCommit THEN prod ELSE pin
        /\ IF pin = NoCommit THEN FetchHeads(prod, dev) ELSE FetchHead(dev)
        /\ PrecedesFetched(dev, promoted')
        /\ dev' = promoted'
     \/ /\ pin = NoCommit
        /\ promoted' = NoCommit
        /\ UNCHANGED <<dev, grafts>>
  /\ pc' = "record"
  /\ UNCHANGED <<commits, prod, gated, pin, head, oldProd, fetched, lastPromote, landed>>

\* promoted_sha, if known, goes into the evidence and handle writes the audit
\* row; LastPromote passes over a row without one.
PromoteRecord ==
  /\ pc = "record"
  /\ lastPromote' = IF promoted = NoCommit THEN lastPromote ELSE promoted
  /\ Done
  /\ UNCHANGED <<origin, grafts, landed>>

-----------------------------------------------------------------------------
(* Revert *)

\* Mutant of IsDeploy: whatever is at prod's tip is reverted.
IsDeployAny == lastPromote # NoCommit

\* The tip is the commit the last successful Promote put there.
IsDeploy == lastPromote # NoCommit /\ prod = lastPromote

\* EnsureCloned fetches dev and prod, then revertInner prod and dev.
FetchForRevert == grafts' = Fetched(Fetched(Fetched(grafts, dev), prod), dev)

\* The tip must be a deploy.
RevertStart ==
  /\ pc = "idle"
  /\ IsDeploy
  /\ FetchForRevert
  /\ oldProd' = prod
  /\ fetched' = dev
  /\ pc' = "revert"
  /\ UNCHANGED <<origin, pin, head, promoted, lastPromote, landed>>

\* Nothing to revert: escalate.  Nothing is done, and the breach stands.
RevertRefused ==
  /\ pc = "idle"
  /\ ~IsDeploy
  /\ FetchForRevert
  /\ UNCHANGED <<origin, worker, lastPromote, landed>>

\* What git revert HEAD undoes is the change from the parent: there is no saying
\* which for a merge commit, and for one without parents it is all its files.  Commit 1
\* is not reverted: the model has nothing before it.
RevertPush ==
  /\ pc = "revert"
  /\ commits[oldProd].parent # NoCommit
  /\ LET p == commits[oldProd].parent
     IN  \/ /\ oldProd \in grafts
            /\ AddCommit(oldProd, NoCommit, EmptyTree, TRUE, "revert")
         \/ /\ oldProd \notin grafts
            /\ commits[oldProd].kind # "merge"
            /\ AddCommit(oldProd, NoCommit, commits[p].tree, commits[p].current, "revert")
  /\ Precedes(prod, oldProd)
  /\ prod' = New
  /\ head' = New
  /\ landed' = landed \cup {New}
  /\ pc' = "realign"
  /\ UNCHANGED <<dev, gated, pin, grafts, promoted, oldProd, fetched, lastPromote>>

\* Was dev, when fetched, where prod was?
Realigns == fetched = oldProd

RevertAlign ==
  /\ pc = "realign"
  /\ \/ /\ Realigns
        /\ Precedes(dev, head)
        /\ dev' = head
     \/ /\ ~Realigns
        /\ UNCHANGED dev
  /\ Done
  /\ UNCHANGED <<commits, prod, gated, grafts, lastPromote, landed>>

-----------------------------------------------------------------------------
\* A check refuses, a command fails, a push is rejected, a budget ends, the
\* daemon stops: whatever was pushed stays pushed, and nothing is recorded.
Abort ==
  /\ pc # "idle"
  /\ Done
  /\ UNCHANGED <<origin, grafts, lastPromote, landed>>

ReleaseNext ==
  \/ DevPush("merge", FALSE) \/ \E bump \in {FALSE, Carry} : DevPush("human", bump)
  \/ Hotfix \/ Reconcile \/ GatePass
  \/ \E c \in gated \cup {NoCommit} : (c = NoCommit => Unpinned) /\ PromoteStart(c)
  \/ PromoteCheck \/ PromoteFetch \/ PromotePush \/ PromoteAlign \/ PromoteRecord
  \/ RevertStart \/ RevertRefused \/ RevertPush \/ RevertAlign
  \/ Abort

ReleaseSpec == ReleaseInit /\ [][ReleaseNext]_releaseVars

-----------------------------------------------------------------------------
(* Safety properties *)

\* A Promote, a Revert, changes prod in this step.
Promotes == pc = "push" /\ pc' = "align" /\ prod' # prod
Reverts == pc = "revert" /\ pc' = "realign"

\* A pinned Promote puts on prod the commit the dev gate passed on, or the
\* tag carry made directly on top of it: nothing that landed on dev between
\* the probe and the push rides along.
OnlyGatedPromoted ==
  [][Promotes /\ pin # NoCommit =>
       \/ prod' \in gated
       \/ commits[prod'].kind = "carry" /\ commits[prod'].parent \in gated]_releaseVars

\* A release is whole on dev or not there: the commit of a Promote on record is part of
\* both branches, so that the next Promote finds prod behind dev unless people pushed to
\* prod; and a tag carry that dev has is one prod has had, for a Promote whose push to
\* prod fails leaves dev without the tag of a release that never landed.
ReleasesWhole ==
  /\ lastPromote # NoCommit => IsAncestor(lastPromote, prod) /\ IsAncestor(lastPromote, dev)
  /\ \A c \in Ids : commits[c].kind = "carry" /\ IsAncestor(c, dev) =>
       \E l \in landed : IsAncestor(c, l)

\* A Revert that lands has reverted the last recorded Promote's commit, and
\* that commit was still prod's tip at the push.
RevertTargetsPromote ==
  [][Reverts => prod = lastPromote /\ commits'[prod'].parent = lastPromote]_releaseVars

\* Prod moves forward only to what the gate has passed, and back only from what was
\* promoted last.
ProdMovesRightly == OnlyGatedPromoted /\ RevertTargetsPromote

-----------------------------------------------------------------------------
(* What comments say; the code does something else *)

\* dispatch.go:1386: "A Revert undoes a deploy": it does not put back what a
\* Revert took off prod.
NoRevertOfRevert ==
  [][Reverts => commits[prod].kind # "revert"]_releaseVars

\* manager.go:302: "Depth 2 keeps a parent for `git revert HEAD`": what a Revert puts
\* on prod is what was there before the deploy.
RevertRestores ==
  [][Reverts => commits'[prod'].tree = commits[commits[prod].parent].tree]_releaseVars
=============================================================================
