------------------------------ MODULE MCConsole ------------------------------
(***************************************************************************)
(* The server side of the console: the stream of audit records             *)
(* (AuditStream), the live view of running Fixes (LiveView) and the queue  *)
(* of Fix PRs (PRQueue).  They share no state, so a behaviour is one of    *)
(* one part, `part` says of which, and the others stay as they begin: TLC  *)
(* explores the sum of their states and not the product.                   *)
(***************************************************************************)
EXTENDS AuditStream, LiveView, PRQueue, TLC

VARIABLE part
allVars == <<part, vars, liveVars, queueVars>>

\* The part that is explored begins in each of its initial states, the others in one.
AllInit ==
  /\ part \in {"stream", "live", "queue"}
  /\ Init /\ LiveInit /\ QueueInit
  /\ part # "queue" => linked = PRs

AllNext ==
  \/ part = "stream" /\ Next /\ UNCHANGED <<part, liveVars, queueVars>>
  \/ part = "live" /\ LiveNext /\ UNCHANGED <<part, vars, queueVars>>
  \/ part = "queue" /\ QueueNext /\ UNCHANGED <<part, vars, liveVars>>

AllSpec == AllInit /\ [][AllNext]_allVars

Symmetric == Permutations(Appenders) \cup Permutations(Fixes)

-----------------------------------------------------------------------------
\* Every part keeps to its types and bounds: the ring and the channels of the streams to
\* their capacities, and rows to what the code can make of them.
TypesOK ==
  /\ part = "stream" => TypeOK
  /\ part = "live" => LiveTypeOK
  /\ part = "queue" => QueueTypeOK

\* What an open page is promised of the Fixes it watches: it sees that they end, unless the
\* channel was full, and their output without a hole, but for those that had lines dropped
\* and no snapshot since.
NothingUnseen == part = "live" => EndIsSeen /\ HolesAreMarked
=============================================================================
