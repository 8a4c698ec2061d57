---------------------------- MODULE FixRunProofs ----------------------------
(***************************************************************************)
(* Dispatcher.Fix, for any number of Fixes, repos, providers, attempts and *)
(* any settings: what a Fix works with is its own while it works, and what *)
(* it reports is so.                                                       *)
(***************************************************************************)
EXTENDS FixRun, FiniteSetTheorems, TLAPS

\* Every place a Fix can be at
Places == {"new", "done"} \cup Waiting \cup InClone

\* A slot is held by whoever works, and the repo's, where there are any, by one Fix
\* at most.
SlotsAreHeld ==
  /\ \A f \in Fixes : pc[f] = "repo" => ~config.worktree
  /\ slots = {f \in Fixes : pc[f] \in InClone}
  /\ \A r \in Repos :
       repoSlot[r] = {f \in Fixes : /\ repo[f] = r /\ ~config.worktree
                                   /\ pc[f] \in InClone \cup {"slot"}}
OneInClone == \A r \in Repos : \A f, g \in repoSlot[r] : f = g

\* Before the plan nothing is pushed; after it the flag of worktree mode and the
\* history agree, but for a push that failed the Fix, and GitHub is asked for what is
\* pushed.
BeforeLadder == {"new", "repo", "slot", "clone", "begin", "tree", "plan"}
PushedNothing(f) == ~delivered[f] /\ ~pushes[f] /\ f \notin asked
DeliveredAgrees == \A f \in Fixes :
  /\ pc[f] \in BeforeLadder => PushedNothing(f)
  /\ config.worktree => /\ delivered[f] => pushes[f]
                        /\ pushes[f] => delivered[f] \/ failed[f]
                        /\ f \in asked => pushes[f]

\* A Fix without an error: what its agent has said, and what the gate
CleanSoFar == \A f \in Fixes : ~failed[f] =>
  /\ pc[f] \in {"push", "verdict"} => verdict[f] # "none"
  /\ pc[f] = "verify" => verdict[f] \in {"fixed", "unknown"}
  /\ pc[f] \in {"pr", "record", "release", "free"} =>
       verdict[f] \in {"fixed", "unknown"} /\ (config.reverify => gate[f] = "green")

IInv ==
  TypeOK /\ SlotsAreHeld /\ OneInClone /\ LiveTreeStands /\ DeliveredAgrees /\ CleanSoFar

-----------------------------------------------------------------------------
(* Types *)

\* The settings' switches are switches, and a ladder has a first attempt.
LEMMA Settings ==
  /\ \A c \in Configs : /\ c.maxFixes \in Nat \ {0}
                        /\ {c.worktree, c.pr, c.plan, c.reverify, c.cheapest} \subseteq BOOLEAN
  /\ Attempts \in Nat \ {0}
  /\ Wanted \subseteq Providers \cup {Default}
  BY FixRunAssumption

\* One more Fix in fixSem is one more slot taken.
LEMMA OneMore ==
  ASSUME NEW S \in SUBSET Fixes, NEW f \in Fixes
  PROVE  /\ Cardinality(S) \in Nat
         /\ Cardinality(S \cup {f}) \in Nat /\ Cardinality(S \cup {f}) <= Cardinality(S) + 1
         /\ Cardinality(S \ {f}) \in Nat /\ Cardinality(S \ {f}) <= Cardinality(S)
  <1>1. IsFiniteSet(S)
        BY FixRunAssumption, FS_Subset
  <1>2. Cardinality(S) \in Nat
        BY <1>1, FS_CardinalityType
  <1>3. Cardinality(S \cup {f}) = IF f \in S THEN Cardinality(S) ELSE Cardinality(S) + 1
        BY <1>1, FS_AddElement
  <1>4. Cardinality(S \ {f}) = IF f \in S THEN Cardinality(S) - 1 ELSE Cardinality(S)
        BY <1>1, FS_RemoveElement
  <1>5. S \ {f} \subseteq S
        OBVIOUS
  <1>6. Cardinality(S \ {f}) \in Nat
        BY <1>1, <1>5, FS_Subset, FS_CardinalityType
  <1> QED
      BY <1>2, <1>3, <1>4, <1>6

\* Whom a Fix runs next is a provider.
LEMMA Chosen ==
  ASSUME TypeOK, NEW f \in Fixes
  PROVE  /\ Choice(f) \subseteq Providers \cup {Default}
         /\ \A p, gone : Successors(p, gone) \subseteq Providers \cup {Default}
  BY Settings DEF TypeOK, Choice, Live, Successors

\* Where a Fix goes, the others stay where they are, and an error stays.
LEMMA Goes ==
  ASSUME TypeOK, NEW f \in Fixes
  PROVE  /\ \A l \in Places : Goto(f, l) =>
              /\ pc' \in [Fixes -> Places] /\ pc'[f] = l
              /\ \A g \in Fixes \ {f} : pc'[g] = pc[g]
         /\ \A l \in Places : Fail(f, l) =>
              /\ Goto(f, l) /\ failed' \in [Fixes -> BOOLEAN] /\ failed'[f]
              /\ \A g \in Fixes \ {f} : failed'[g] = failed[g]
         /\ UNCHANGED failed => failed' \in [Fixes -> BOOLEAN]
         /\ {"begin", "plan", "free", "pr", "verdict", "record"} \subseteq Places
  <1>1. pc \in [Fixes -> Places] /\ failed \in [Fixes -> BOOLEAN]
        BY DEF TypeOK, Places
  <1> QED
      BY <1>1 DEF Goto, Fail, Places, Waiting, InClone

\* What a sweep leaves of the worktrees: live ones all, and the new one is live.
LEMMA Swept ==
  ASSUME TypeOK, NEW f \in Fixes, AddTree(f)
  PROVE  /\ tree' \in [Fixes -> {"none", "live", "kept", "gone"}]
         /\ \A g \in Fixes : tree[g] = "live" => tree'[g] = "live"
         /\ \/ Goto(f, "plan") /\ UNCHANGED failed /\ tree'[f] = "live"
            \/ Fail(f, "free")
  <1>1. tree \in [Fixes -> {"none", "live", "kept", "gone"}]
        BY DEF TypeOK
  <1> DEFINE Rest(old) == [g \in Fixes |-> IF g \in Sweepable(old) THEN "gone" ELSE tree[g]]
  <1>2. PICK old \in SUBSET Standing(f) :
          \/ /\ tree' = [Rest(old) EXCEPT ![f] = "live"]
             /\ Goto(f, "plan") /\ UNCHANGED failed
          \/ tree' = Rest(old) /\ Fail(f, "free")
        BY DEF AddTree
  <1>3. /\ Rest(old) \in [Fixes -> {"none", "live", "kept", "gone"}]
        /\ \A g \in Fixes : tree[g] = "live" => Rest(old)[g] = "live"
        BY <1>1 DEF Sweepable
  <1> HIDE DEF Rest
  <1> QED
      BY <1>2, <1>3

\* Every step keeps the types, and within them no more Fixes than slots and no more
\* attempts than FixAttempts.
LEMMA TypeStep ==
  ASSUME TypeOK, [Next]_vars
  PROVE  TypeOK'
  <1> USE DEF TypeOK, Goto, Fail, settings, sems, outcome, left, past, Waiting, InClone
  <1>1. ASSUME NEW f \in Fixes, NEW operator \in Wanted \cup {NoProvider}, Call(f, operator)
        PROVE  TypeOK'
        BY <1>1 DEF Call
  <1>2. ASSUME NEW f \in Fixes, TakeRepoSlot(f) PROVE TypeOK'
        BY <1>2 DEF TakeRepoSlot
  <1>3. ASSUME NEW f \in Fixes, TakeSlot(f) PROVE TypeOK'
    <2>1. Cardinality(slots) < config.maxFixes /\ slots' = slots \cup {f}
          BY <1>3 DEF TakeSlot
    <2>2. config.maxFixes \in Nat /\ slots \in SUBSET Fixes
          BY Settings
    <2>3. Cardinality(slots') <= config.maxFixes
      <3>1. /\ Cardinality(slots) \in Nat /\ Cardinality(slots \cup {f}) \in Nat
            /\ Cardinality(slots \cup {f}) <= Cardinality(slots) + 1
            BY <2>2, OneMore
      <3> QED
          BY ONLY <2>1, <2>2, <3>1
    <2> QED
        BY <1>3, <2>3 DEF TakeSlot
  <1>4. ASSUME NEW f \in Fixes, GiveUp(f) PROVE TypeOK'
        BY <1>4 DEF GiveUp
  <1>5. ASSUME NEW f \in Fixes, Free(f) PROVE TypeOK'
    <2>1. Cardinality(slots) <= config.maxFixes /\ slots' = slots \ {f} /\ slots' \subseteq Fixes
          BY <1>5 DEF Free
    <2>2. config.maxFixes \in Nat /\ slots \in SUBSET Fixes
          BY Settings
    <2>3. Cardinality(slots') <= config.maxFixes /\ Cardinality(slots') \in Nat
      <3>1. /\ Cardinality(slots) \in Nat /\ Cardinality(slots \ {f}) \in Nat
            /\ Cardinality(slots \ {f}) <= Cardinality(slots)
            BY <2>2, OneMore
      <3> QED
          BY ONLY <2>1, <2>2, <3>1
    <2>4. attempt' \in [Fixes -> 1 .. Attempts]
          BY <1>5, Settings DEF Free, Forget, LeaveLadder
    <2> QED
        BY <1>5, <2>1, <2>3, <2>4 DEF Free, Forget, LeaveLadder
  <1>6. ASSUME NEW f \in Fixes, Clone(f) PROVE TypeOK'
        BY <1>6, ZenonT(60) DEF Clone, Beside
  <1>7. ASSUME NEW f \in Fixes, Expire(f) PROVE TypeOK'
        BY <1>7 DEF Expire
  <1>8. ASSUME NEW f \in Fixes, Begin(f) PROVE TypeOK'
        BY <1>8, Chosen DEF Begin
  <1>9. ASSUME NEW f \in Fixes, AddTree(f) PROVE TypeOK'
    <2>1. \/ Goto(f, "plan") /\ UNCHANGED failed
          \/ Fail(f, "free")
          BY <1>9 DEF AddTree
    <2>2. tree' \in [Fixes -> {"none", "live", "kept", "gone"}]
          BY <1>9, Swept
    <2>3. pc' \in [Fixes -> Places] /\ failed' \in [Fixes -> BOOLEAN]
          BY <2>1, Goes
    <2> QED
        BY <1>9, <2>2, <2>3 DEF AddTree, Places
  <1>10. ASSUME NEW f \in Fixes, Plan(f) PROVE TypeOK'
    <2>1. config.worktree \in BOOLEAN
          BY Settings
    <2>2. delivered' \in [Fixes -> BOOLEAN]
          BY <1>10, <2>1, ZenonT(60) DEF Plan
    <2>3. pc' \in [Fixes -> Places] /\ failed' \in [Fixes -> BOOLEAN]
          BY <1>10, ZenonT(60) DEF Plan, Places
    <2> QED
        BY <1>10, <2>2, <2>3 DEF Plan, Places
  <1>11. ASSUME NEW f \in Fixes, NEW v \in {"fixed", "gave_up", "unknown"}, AgentDone(f, v) PROVE TypeOK'
         BY <1>11 DEF AgentDone
  <1>12. ASSUME NEW f \in Fixes, AgentFails(f) PROVE TypeOK'
         BY <1>12 DEF AgentFails
  <1>13. ASSUME NEW f \in Fixes, NEW over \in BOOLEAN, Silent(f, over) PROVE TypeOK'
    <2>1. provider' \in [Fixes -> Providers \cup {Default}] /\ down' \subseteq Providers \cup {Default}
          BY <1>13, Chosen DEF Silent
    <2>2. pc' \in [Fixes -> Places] /\ failed' \in [Fixes -> BOOLEAN]
          BY <1>13, ZenonT(60) DEF Silent, Places
    <2> QED
        BY <1>13, <2>1, <2>2 DEF Silent, Places
  <1>14. ASSUME NEW f \in Fixes, Push(f) PROVE TypeOK'
    <2>1. pc' \in [Fixes -> Places] /\ failed' \in [Fixes -> BOOLEAN]
          BY <1>14, Goes DEF Push
    <2>2. delivered' \in [Fixes -> BOOLEAN]
          BY <1>14, ZenonT(60) DEF Push
    <2>3. /\ pushes' \in [Fixes -> BOOLEAN] /\ moved' \subseteq Fixes
          /\ work' \in [Fixes -> {"none", "unpushed", "pushed"}]
          /\ gate' \in [Fixes -> {"unknown", "red", "green"}]
      <3>1. ASSUME Landed(f)
            PROVE  /\ pushes' \in [Fixes -> BOOLEAN]
                   /\ work' \in [Fixes -> {"none", "unpushed", "pushed"}]
                   /\ gate' \in [Fixes -> {"unknown", "red", "green"}]
            BY <3>1 DEF Landed
      <3>2. CASE Accepted(f)
            BY <3>1, <3>2 DEF Accepted, Beside
      <3>3. CASE Landed(f) /\ UNCHANGED moved
            BY <3>1, <3>3
      <3>4. CASE UNCHANGED <<pushes, work, moved, gate>>
            BY <3>4
      <3> QED
          BY <1>14, <3>2, <3>3, <3>4 DEF Push
    <2> QED
        BY <1>14, <2>1, <2>2, <2>3 DEF Push, Places
  <1>15. ASSUME NEW f \in Fixes, Verdict(f) PROVE TypeOK'
         BY <1>15, ZenonT(60) DEF Verdict
  <1>16. ASSUME NEW f \in Fixes, NEW look \in {"red", "green"}, Verify(f, look) PROVE TypeOK'
    <2>1. pc' \in [Fixes -> Places] /\ failed' \in [Fixes -> BOOLEAN]
          BY <1>16, ZenonT(60) DEF Verify, Places
    <2>2. attempt[f] \in 1 .. Attempts /\ (~Exhausted(f) => attempt[f] < Attempts)
          BY Settings DEF Exhausted, Limit
    <2>3. attempt' \in [Fixes -> 1 .. Attempts]
          BY <1>16, <2>2, Settings DEF Verify
    <2> QED
        BY <1>16, <2>1, <2>3 DEF Verify, Places
  <1>17. ASSUME NEW f \in Fixes, FinishPR(f) PROVE TypeOK'
    <2>1. \/ UNCHANGED failed
          \/ failed' = [failed EXCEPT ![f] = TRUE]
          BY <1>17 DEF FinishPR
    <2>2. asked' = asked \/ asked' = asked \cup {f}
          BY <1>17 DEF FinishPR
    <2>3. pc' \in [Fixes -> Places]
          BY <1>17, Goes DEF FinishPR, Places
    <2>4. failed' \in [Fixes -> BOOLEAN] /\ asked' \subseteq Fixes
          BY <2>1, <2>2, ZenonT(60)
    <2>5. /\ pinned' \in [Fixes -> Wanted \cup {NoProvider}] /\ moved' \subseteq Fixes
          /\ provider' \in [Fixes -> Providers \cup {Default}]
          /\ attempt' \in [Fixes -> 1 .. Attempts]
          /\ work' \in [Fixes -> {"none", "unpushed", "pushed"}]
          BY <1>17, Settings DEF FinishPR, LeaveLadder
    <2> QED
        BY <1>17, <2>3, <2>4, <2>5 DEF FinishPR, Places
  <1>18. ASSUME NEW f \in Fixes, Record(f) PROVE TypeOK'
         BY <1>18 DEF Record
  <1>19. ASSUME NEW f \in Fixes, Release(f) PROVE TypeOK'
         BY <1>19 DEF Release
  <1>20. ASSUME NEW p \in Providers \cup {Default}, Recovers(p) PROVE TypeOK'
         BY <1>20 DEF Recovers
  <1>21. CASE UNCHANGED vars
         BY <1>21 DEF vars
  <1> HIDE DEF TypeOK, Goto, Fail, settings, sems, outcome, left, past, Waiting, InClone
  <1> QED
      BY <1>1, <1>2, <1>3, <1>4, <1>5, <1>6, <1>7, <1>8, <1>9, <1>10, <1>11, <1>12, <1>13,
         <1>14, <1>15, <1>16, <1>17, <1>18, <1>19, <1>20, <1>21 DEF Next, AllDone

-----------------------------------------------------------------------------
(* The steps *)

\* All that the slots know of a step inside the clone: nobody comes in, nobody leaves.
Inside ==
  /\ UNCHANGED <<config, repo, slots, repoSlot>>
  /\ \A g \in Fixes : pc'[g] = pc[g] \/ (pc[g] \in InClone /\ pc'[g] \in InClone)

\* The steps from a Fix's clone to its release are inside.
LEMMA InsideSteps ==
  ASSUME TypeOK, [Next]_vars,
         \A f \in Fixes : /\ \A operator \in Wanted \cup {NoProvider} : ~Call(f, operator)
                          /\ ~TakeRepoSlot(f) /\ ~TakeSlot(f) /\ ~GiveUp(f) /\ ~Free(f)
  PROVE  Inside
  <1> USE DEF settings, sems, InClone
  <1>1. ASSUME NEW f \in Fixes, Clone(f) PROVE Inside
        BY <1>1, Goes DEF Clone, Inside
  <1>2. ASSUME NEW f \in Fixes, Expire(f) PROVE Inside
        BY <1>2 DEF Expire, Inside
  <1>3. ASSUME NEW f \in Fixes, Begin(f) PROVE Inside
        BY <1>3, Goes DEF Begin, Inside, Places
  <1>4. ASSUME NEW f \in Fixes, AddTree(f) PROVE Inside
        BY <1>4, Goes, Swept DEF AddTree, Inside
  <1>5. ASSUME NEW f \in Fixes, Plan(f) PROVE Inside
        BY <1>5, Goes DEF Plan, Inside, Places
  <1>6. ASSUME NEW f \in Fixes, NEW v \in {"fixed", "gave_up", "unknown"}, AgentDone(f, v) PROVE Inside
        BY <1>6, Goes DEF AgentDone, Inside, Places
  <1>7. ASSUME NEW f \in Fixes, AgentFails(f) PROVE Inside
        BY <1>7, Goes DEF AgentFails, Inside
  <1>8. ASSUME NEW f \in Fixes, NEW over \in BOOLEAN, Silent(f, over) PROVE Inside
    <2>1. pc[f] = "agent" /\ UNCHANGED <<config, repo, slots, repoSlot>>
          BY <1>8 DEF Silent
    <2>2. UNCHANGED pc \/ Fail(f, "pr")
          BY <1>8 DEF Silent
    <2>3. /\ Fail(f, "pr") => Goto(f, "pr")
          /\ Goto(f, "pr") => pc'[f] = "pr" /\ \A g \in Fixes \ {f} : pc'[g] = pc[g]
          BY Goes
    <2> QED
        BY <2>1, <2>2, <2>3 DEF Inside
  <1>9. ASSUME NEW f \in Fixes, Push(f) PROVE Inside
        BY <1>9, Goes DEF Push, Inside
  <1>10. ASSUME NEW f \in Fixes, Verdict(f) PROVE Inside
         BY <1>10, Goes DEF Verdict, Inside, Places
  <1>11. ASSUME NEW f \in Fixes, NEW look \in {"red", "green"}, Verify(f, look) PROVE Inside
         BY <1>11, Goes DEF Verify, Inside, Places
  <1>12. ASSUME NEW f \in Fixes, FinishPR(f) PROVE Inside
         BY <1>12, Goes DEF FinishPR, Inside
  <1>13. ASSUME NEW f \in Fixes, Record(f) PROVE Inside
         BY <1>13, Goes DEF Record, Inside, Places
  <1>14. ASSUME NEW f \in Fixes, Release(f) PROVE Inside
         BY <1>14, Goes DEF Release, Inside
  <1>15. ASSUME NEW p \in Providers \cup {Default}, Recovers(p) PROVE Inside
         BY <1>15 DEF Recovers, Inside
  <1>16. CASE UNCHANGED vars
         BY <1>16 DEF vars, Inside
  <1> QED
      BY <1>1, <1>2, <1>3, <1>4, <1>5, <1>6, <1>7, <1>8, <1>9, <1>10, <1>11, <1>12, <1>13,
         <1>14, <1>15, <1>16 DEF Next, AllDone

\* Every step keeps the slots with those who work.
LEMMA SlotsStep ==
  ASSUME TypeOK, SlotsAreHeld, OneInClone, [Next]_vars
  PROVE  SlotsAreHeld' /\ OneInClone'
  <1> USE DEF SlotsAreHeld, OneInClone, settings
  <1>0. /\ pc \in [Fixes -> Places] /\ repo \in [Fixes -> Repos]
        /\ repoSlot \in [Repos -> SUBSET Fixes]
        BY DEF TypeOK, Places
  <1>1. ASSUME NEW f \in Fixes, NEW operator \in Wanted \cup {NoProvider}, Call(f, operator)
        PROVE  SlotsAreHeld' /\ OneInClone'
    <2>1. UNCHANGED <<config, repo, slots, repoSlot>>
          BY <1>1 DEF Call, sems
    <2>2. /\ pc[f] = "new" /\ pc'[f] = IF config.worktree THEN "slot" ELSE "repo"
          /\ \A g \in Fixes \ {f} : pc'[g] = pc[g]
          BY <1>0, <1>1 DEF Call, Goto
    <2> QED
        BY <1>0, <2>1, <2>2 DEF InClone
  <1>2. ASSUME NEW f \in Fixes, TakeRepoSlot(f) PROVE SlotsAreHeld' /\ OneInClone'
    <2>1. /\ UNCHANGED <<config, repo, slots>> /\ pc[f] = "repo" /\ pc'[f] = "slot"
          /\ \A g \in Fixes \ {f} : pc'[g] = pc[g]
          BY <1>0, <1>2 DEF TakeRepoSlot, Goto
    <2>2. /\ repoSlot[repo[f]] = {} /\ repoSlot'[repo[f]] = {f}
          /\ \A r \in Repos \ {repo[f]} : repoSlot'[r] = repoSlot[r]
          BY <1>0, <1>2 DEF TakeRepoSlot
    <2> QED
        BY <1>0, <2>1, <2>2 DEF InClone
  <1>3. ASSUME NEW f \in Fixes, TakeSlot(f) PROVE SlotsAreHeld' /\ OneInClone'
    <2>1. /\ UNCHANGED <<config, repo, repoSlot>> /\ slots' = slots \cup {f}
          /\ pc[f] = "slot" /\ pc'[f] = "clone"
          /\ \A g \in Fixes \ {f} : pc'[g] = pc[g]
          BY <1>0, <1>3 DEF TakeSlot, Goto
    <2> QED
        BY <1>0, <2>1 DEF InClone
  <1>4. ASSUME NEW f \in Fixes, GiveUp(f) PROVE SlotsAreHeld' /\ OneInClone'
    <2>1. /\ UNCHANGED <<config, repo, slots>> /\ pc[f] \in Waiting /\ pc'[f] = "done"
          /\ \A g \in Fixes \ {f} : pc'[g] = pc[g]
          BY <1>0, <1>4 DEF GiveUp, Goto
    <2>2. /\ repoSlot'[repo[f]] = repoSlot[repo[f]] \ {f}
          /\ \A r \in Repos \ {repo[f]} : repoSlot'[r] = repoSlot[r]
          BY <1>0, <1>4 DEF GiveUp
    <2> QED
        BY <1>0, <2>1, <2>2 DEF InClone, Waiting
  <1>5. ASSUME NEW f \in Fixes, Free(f) PROVE SlotsAreHeld' /\ OneInClone'
    <2>1. /\ UNCHANGED <<config, repo>> /\ slots' = slots \ {f} /\ pc[f] = "free" /\ pc'[f] = "done"
          /\ \A g \in Fixes \ {f} : pc'[g] = pc[g]
          BY <1>0, <1>5 DEF Free, Goto
    <2>2. /\ repoSlot'[repo[f]] = repoSlot[repo[f]] \ {f}
          /\ \A r \in Repos \ {repo[f]} : repoSlot'[r] = repoSlot[r]
          BY <1>0, <1>5 DEF Free
    <2> QED
        BY <1>0, <2>1, <2>2 DEF InClone
  <1>6. CASE Inside
        BY <1>6 DEF Inside, InClone
  <1> QED
      BY <1>1, <1>2, <1>3, <1>4, <1>5, <1>6, InsideSteps

\* No step takes the worktree from a Fix that runs.
LEMMA TreeStep ==
  ASSUME TypeOK, LiveTreeStands, [Next]_vars
  PROVE  LiveTreeStands'
  <1> USE DEF LiveTreeStands, WithTree, settings, left
  <1>0. pc \in [Fixes -> Places] /\ tree \in [Fixes -> {"none", "live", "kept", "gone"}]
        BY DEF TypeOK, Places
  <1>1. ASSUME NEW f \in Fixes, NEW operator \in Wanted \cup {NoProvider}, Call(f, operator)
        PROVE  LiveTreeStands'
        BY <1>0, <1>1 DEF Call, Goto, Fail
  <1>2. ASSUME NEW f \in Fixes, TakeRepoSlot(f) PROVE LiveTreeStands'
        BY <1>0, <1>2 DEF TakeRepoSlot, Goto, Fail
  <1>3. ASSUME NEW f \in Fixes, TakeSlot(f) PROVE LiveTreeStands'
        BY <1>0, <1>3 DEF TakeSlot, Goto, Fail
  <1>4. ASSUME NEW f \in Fixes, GiveUp(f) PROVE LiveTreeStands'
        BY <1>0, <1>4 DEF GiveUp, Goto, Fail
  <1>5. ASSUME NEW f \in Fixes, Free(f) PROVE LiveTreeStands'
        BY <1>0, <1>5 DEF Free, Goto, Fail
  <1>6. ASSUME NEW f \in Fixes, Clone(f) PROVE LiveTreeStands'
        BY <1>0, <1>6 DEF Clone, Goto, Fail
  <1>7. ASSUME NEW f \in Fixes, Expire(f) PROVE LiveTreeStands'
        BY <1>0, <1>7 DEF Expire, Goto, Fail
  <1>8. ASSUME NEW f \in Fixes, Begin(f) PROVE LiveTreeStands'
        BY <1>0, <1>8 DEF Begin, Goto, Fail
  <1>9. ASSUME NEW f \in Fixes, AddTree(f) PROVE LiveTreeStands'
        BY <1>0, <1>9, Swept, Goes DEF AddTree
  <1>10. ASSUME NEW f \in Fixes, Plan(f) PROVE LiveTreeStands'
        BY <1>0, <1>10 DEF Plan, Goto, Fail
  <1>11. ASSUME NEW f \in Fixes, NEW v \in {"fixed", "gave_up", "unknown"}, AgentDone(f, v)
        PROVE  LiveTreeStands'
        BY <1>0, <1>11 DEF AgentDone, Goto, Fail
  <1>12. ASSUME NEW f \in Fixes, AgentFails(f) PROVE LiveTreeStands'
        BY <1>0, <1>12 DEF AgentFails, Goto, Fail
  <1>13. ASSUME NEW f \in Fixes, NEW over \in BOOLEAN, Silent(f, over) PROVE LiveTreeStands'
        BY <1>0, <1>13 DEF Silent, Goto, Fail
  <1>14. ASSUME NEW f \in Fixes, Push(f) PROVE LiveTreeStands'
        BY <1>0, <1>14 DEF Push, Goto, Fail
  <1>15. ASSUME NEW f \in Fixes, Verdict(f) PROVE LiveTreeStands'
        BY <1>0, <1>15 DEF Verdict, Goto, Fail
  <1>16. ASSUME NEW f \in Fixes, NEW look \in {"red", "green"}, Verify(f, look)
        PROVE  LiveTreeStands'
        BY <1>0, <1>16 DEF Verify, Goto, Fail
  <1>17. ASSUME NEW f \in Fixes, FinishPR(f) PROVE LiveTreeStands'
        BY <1>0, <1>17 DEF FinishPR, Goto, Fail
  <1>18. ASSUME NEW f \in Fixes, Record(f) PROVE LiveTreeStands'
        BY <1>0, <1>18 DEF Record, Goto, Fail
  <1>19. ASSUME NEW f \in Fixes, Release(f) PROVE LiveTreeStands'
        BY <1>0, <1>19 DEF Release, Goto, Fail
  <1>20. ASSUME NEW p \in Providers \cup {Default}, Recovers(p) PROVE LiveTreeStands'
        BY <1>20 DEF Recovers
  <1>21. CASE UNCHANGED vars
        BY <1>21 DEF vars
  <1> QED
      BY <1>1, <1>2, <1>3, <1>4, <1>5, <1>6, <1>7, <1>8, <1>9, <1>10, <1>11, <1>12,
         <1>13, <1>14, <1>15, <1>16, <1>17, <1>18, <1>19, <1>20, <1>21 DEF Next, AllDone

\* What a Fix says it has delivered stays what it has pushed.
LEMMA DeliveredStep ==
  ASSUME TypeOK, DeliveredAgrees, [Next]_vars
  PROVE  DeliveredAgrees'
  <1> USE DEF DeliveredAgrees, PushedNothing, BeforeLadder, settings, outcome, past
  <1>0. /\ pc \in [Fixes -> Places] /\ delivered \in [Fixes -> BOOLEAN]
        /\ pushes \in [Fixes -> BOOLEAN] /\ failed \in [Fixes -> BOOLEAN]
        BY DEF TypeOK, Places
  <1>1. ASSUME NEW f \in Fixes, NEW operator \in Wanted \cup {NoProvider}, Call(f, operator)
        PROVE  DeliveredAgrees'
        BY <1>0, <1>1 DEF Call, Goto, Fail
  <1>2. ASSUME NEW f \in Fixes, TakeRepoSlot(f) PROVE DeliveredAgrees'
        BY <1>0, <1>2 DEF TakeRepoSlot, Goto, Fail
  <1>3. ASSUME NEW f \in Fixes, TakeSlot(f) PROVE DeliveredAgrees'
        BY <1>0, <1>3 DEF TakeSlot, Goto, Fail
  <1>4. ASSUME NEW f \in Fixes, GiveUp(f) PROVE DeliveredAgrees'
        BY <1>0, <1>4 DEF GiveUp, Goto, Waiting
  <1>5. ASSUME NEW f \in Fixes, Free(f) PROVE DeliveredAgrees'
        BY <1>0, <1>5 DEF Free, Forget, LeaveLadder, Goto
  <1>6. ASSUME NEW f \in Fixes, Clone(f) PROVE DeliveredAgrees'
        BY <1>0, <1>6 DEF Clone, Goto, Fail
  <1>7. ASSUME NEW f \in Fixes, Expire(f) PROVE DeliveredAgrees'
        BY <1>0, <1>7 DEF Expire, Goto, Fail
  <1>8. ASSUME NEW f \in Fixes, Begin(f) PROVE DeliveredAgrees'
        BY <1>0, <1>8 DEF Begin, Goto, Fail
  <1>9. ASSUME NEW f \in Fixes, AddTree(f) PROVE DeliveredAgrees'
        BY <1>0, <1>9 DEF AddTree, Goto, Fail
  <1>10. ASSUME NEW f \in Fixes, Plan(f) PROVE DeliveredAgrees'
        BY <1>0, <1>10 DEF Plan, Goto, Fail
  <1>11. ASSUME NEW f \in Fixes, NEW v \in {"fixed", "gave_up", "unknown"}, AgentDone(f, v)
        PROVE  DeliveredAgrees'
        BY <1>0, <1>11 DEF AgentDone, Goto, Fail
  <1>12. ASSUME NEW f \in Fixes, AgentFails(f) PROVE DeliveredAgrees'
        BY <1>0, <1>12 DEF AgentFails, Goto, Fail
  <1>13. ASSUME NEW f \in Fixes, NEW over \in BOOLEAN, Silent(f, over) PROVE DeliveredAgrees'
        BY <1>0, <1>13 DEF Silent, Goto, Fail
  <1>14. ASSUME NEW f \in Fixes, Push(f) PROVE DeliveredAgrees'
        BY <1>0, <1>14 DEF Push, Accepted, Landed, Goto, Fail
  <1>15. ASSUME NEW f \in Fixes, Verdict(f) PROVE DeliveredAgrees'
        BY <1>0, <1>15 DEF Verdict, Goto, Fail
  <1>16. ASSUME NEW f \in Fixes, NEW look \in {"red", "green"}, Verify(f, look)
        PROVE  DeliveredAgrees'
        BY <1>0, <1>16 DEF Verify, Goto, Fail
  <1>17. ASSUME NEW f \in Fixes, FinishPR(f) PROVE DeliveredAgrees'
        BY <1>0, <1>17 DEF FinishPR, WantsPR, Goto
  <1>18. ASSUME NEW f \in Fixes, Record(f) PROVE DeliveredAgrees'
        BY <1>0, <1>18 DEF Record, Goto, Fail
  <1>19. ASSUME NEW f \in Fixes, Release(f) PROVE DeliveredAgrees'
        BY <1>0, <1>19 DEF Release, Goto, Fail
  <1>20. ASSUME NEW p \in Providers \cup {Default}, Recovers(p) PROVE DeliveredAgrees'
        BY <1>20 DEF Recovers
  <1>21. CASE UNCHANGED vars
        BY <1>21 DEF vars
  <1> QED
      BY <1>1, <1>2, <1>3, <1>4, <1>5, <1>6, <1>7, <1>8, <1>9, <1>10, <1>11, <1>12,
         <1>13, <1>14, <1>15, <1>16, <1>17, <1>18, <1>19, <1>20, <1>21 DEF Next, AllDone

\* A Fix without an error gets on only with an agent that is not blocked and a green gate.
LEMMA CleanStep ==
  ASSUME TypeOK, CleanSoFar, [Next]_vars
  PROVE  CleanSoFar'
  <1> USE DEF CleanSoFar, settings, outcome, past
  <1>0. /\ pc \in [Fixes -> Places] /\ failed \in [Fixes -> BOOLEAN]
        /\ verdict \in [Fixes -> {"none", "fixed", "gave_up", "unknown"}]
        /\ gate \in [Fixes -> {"unknown", "red", "green"}]
        BY DEF TypeOK, Places
  <1>1. ASSUME NEW f \in Fixes, NEW operator \in Wanted \cup {NoProvider}, Call(f, operator)
        PROVE  CleanSoFar'
        BY <1>0, <1>1 DEF Call, Goto, Fail
  <1>2. ASSUME NEW f \in Fixes, TakeRepoSlot(f) PROVE CleanSoFar'
        BY <1>0, <1>2 DEF TakeRepoSlot, Goto, Fail
  <1>3. ASSUME NEW f \in Fixes, TakeSlot(f) PROVE CleanSoFar'
        BY <1>0, <1>3 DEF TakeSlot, Goto, Fail
  <1>4. ASSUME NEW f \in Fixes, GiveUp(f) PROVE CleanSoFar'
        BY <1>0, <1>4 DEF GiveUp, Goto, Waiting
  <1>5. ASSUME NEW f \in Fixes, Free(f) PROVE CleanSoFar'
        BY <1>0, <1>5 DEF Free, Forget, LeaveLadder, Goto
  <1>6. ASSUME NEW f \in Fixes, Clone(f) PROVE CleanSoFar'
        BY <1>0, <1>6 DEF Clone, Goto, Fail
  <1>7. ASSUME NEW f \in Fixes, Expire(f) PROVE CleanSoFar'
        BY <1>0, <1>7 DEF Expire, Goto, Fail
  <1>8. ASSUME NEW f \in Fixes, Begin(f) PROVE CleanSoFar'
        BY <1>0, <1>8 DEF Begin, Goto, Fail
  <1>9. ASSUME NEW f \in Fixes, AddTree(f) PROVE CleanSoFar'
        BY <1>0, <1>9 DEF AddTree, Goto, Fail
  <1>10. ASSUME NEW f \in Fixes, Plan(f) PROVE CleanSoFar'
        BY <1>0, <1>10 DEF Plan, Goto, Fail
  <1>11. ASSUME NEW f \in Fixes, NEW v \in {"fixed", "gave_up", "unknown"}, AgentDone(f, v)
        PROVE  CleanSoFar'
        BY <1>0, <1>11 DEF AgentDone, Goto, Fail
  <1>12. ASSUME NEW f \in Fixes, AgentFails(f) PROVE CleanSoFar'
        BY <1>0, <1>12 DEF AgentFails, Goto, Fail
  <1>13. ASSUME NEW f \in Fixes, NEW over \in BOOLEAN, Silent(f, over) PROVE CleanSoFar'
        BY <1>0, <1>13 DEF Silent, Goto, Fail
  <1>14. ASSUME NEW f \in Fixes, Push(f) PROVE CleanSoFar'
        BY <1>0, <1>14 DEF Push, Accepted, Landed, Goto, Fail
  <1>15. ASSUME NEW f \in Fixes, Verdict(f) PROVE CleanSoFar'
        BY <1>0, <1>15 DEF Verdict, Goto, Fail
  <1>16. ASSUME NEW f \in Fixes, NEW look \in {"red", "green"}, Verify(f, look)
        PROVE  CleanSoFar'
        BY <1>0, <1>16 DEF Verify, Goto, Fail
  <1>17. ASSUME NEW f \in Fixes, FinishPR(f) PROVE CleanSoFar'
        BY <1>0, <1>17 DEF FinishPR, Goto, Fail
  <1>18. ASSUME NEW f \in Fixes, Record(f) PROVE CleanSoFar'
        BY <1>0, <1>18 DEF Record, Goto, Fail
  <1>19. ASSUME NEW f \in Fixes, Release(f) PROVE CleanSoFar'
        BY <1>0, <1>19 DEF Release, Goto, Fail
  <1>20. ASSUME NEW p \in Providers \cup {Default}, Recovers(p) PROVE CleanSoFar'
        BY <1>20 DEF Recovers
  <1>21. CASE UNCHANGED vars
        BY <1>21 DEF vars
  <1> QED
      BY <1>1, <1>2, <1>3, <1>4, <1>5, <1>6, <1>7, <1>8, <1>9, <1>10, <1>11, <1>12,
         <1>13, <1>14, <1>15, <1>16, <1>17, <1>18, <1>19, <1>20, <1>21 DEF Next, AllDone

-----------------------------------------------------------------------------
(* The theorems *)

\* A daemon that has just started holds the invariant.
LEMMA InitIInv ==
  ASSUME Init
  PROVE  IInv
  <1> USE DEF Init, All
  <1>1. TypeOK
    <2>1. slots = {} /\ Cardinality(slots) = 0
          BY FS_EmptySet
    <2>2. config.maxFixes \in Nat /\ 1 \in 1 .. Attempts
          BY Settings
    <2> QED
        BY <2>1, <2>2 DEF TypeOK
  <1>2. SlotsAreHeld /\ OneInClone
        BY DEF SlotsAreHeld, OneInClone, InClone
  <1>3. LiveTreeStands
        BY DEF LiveTreeStands, WithTree
  <1>4. DeliveredAgrees /\ CleanSoFar
        BY DEF DeliveredAgrees, PushedNothing, CleanSoFar
  <1> QED
      BY <1>1, <1>2, <1>3, <1>4 DEF IInv

\* The inductive invariant: who holds what, whose worktree stands, what was pushed and
\* what an errorless Fix has behind it, at every step of every Fix of Dispatcher.Fix.
THEOREM Invariance == Spec => []IInv
  <1>1. ASSUME IInv, [Next]_vars PROVE IInv'
        BY <1>1, TypeStep, SlotsStep, TreeStep, DeliveredStep, CleanStep DEF IInv
  <1> QED
      BY InitIInv, <1>1, PTL DEF Spec

\* Every variable keeps its type; no more Fixes are in fixSem than maxFixes, and no
\* Fix makes more attempts than FixAttempts.
THEOREM TypeCorrect == Spec => []TypeOK
  <1>1. IInv => TypeOK
        BY DEF IInv
  <1> QED
      BY <1>1, Invariance, PTL

\* However Fixes interleave, expire, fail and give up: a slot is held by the Fixes at
\* work and by nobody else, two Fixes never work in one shared clone, and no sweep
\* takes the worktree of a Fix that runs (acquireFixSlot, PruneWorktrees).
THEOREM HeldWhileItWorks == Spec => []HeldWhileWorking
  <1>1. ASSUME IInv PROVE SlotsAccounted
    <2>1. SlotsAreHeld /\ OneInClone /\ repo \in [Fixes -> Repos]
          BY <1>1 DEF IInv, TypeOK
    <2>2. ASSUME ~config.worktree, NEW f \in slots, NEW g \in slots, repo[f] = repo[g]
          PROVE  f = g
      <3>1. f \in Fixes /\ g \in Fixes /\ pc[f] \in InClone /\ pc[g] \in InClone
            BY <2>1 DEF SlotsAreHeld
      <3>2. f \in repoSlot[repo[f]] /\ g \in repoSlot[repo[f]]
            BY <2>1, <2>2, <3>1 DEF SlotsAreHeld
      <3> QED
          BY <2>1, <3>1, <3>2 DEF OneInClone
    <2> QED
        BY <2>1, <2>2 DEF SlotsAreHeld, SlotsAccounted
  <1>2. IInv => HeldWhileWorking
        BY <1>1 DEF IInv, HeldWhileWorking
  <1> QED
      BY <1>2, Invariance, PTL

\* With worktrees, what a Fix reports as delivered has been brought to its branch by one
\* of its pushes and a PR is asked for only then, and what was brought there is reported
\* or the Fix has an error; a Fix that ends clean has an agent that ended by itself and
\* did not say that it is blocked and, where Reverify looks again, a green gate on what it
\* pushed last.
THEOREM OutcomeStaysTrue == Spec => []OutcomeIsTrue
  <1>1. IInv => OutcomeIsTrue
        BY DEF IInv, OutcomeIsTrue, DeliveredAgrees, DeliveredIsPushed, CleanSoFar, CleanMeansGreen
  <1> QED
      BY <1>1, Invariance, PTL
=============================================================================
