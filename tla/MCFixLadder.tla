----------------------------- MODULE MCFixLadder -----------------------------
(***************************************************************************)
(* A red branch: the webhook that tells of it (Intake), the ladder from    *)
(* the red run to the Fix (FixLadder), the gate asked again after the Fix  *)
(* (Reverify), and the tokens with which GitHub is called (Tokens).  They  *)
(* share no state in the models: a behaviour is one of one part, and the   *)
(* others stay as they begin.                                              *)
(***************************************************************************)
EXTENDS Intake, FixLadder, Reverify, Tokens, TLC

VARIABLE part
allVars == <<part, intakeVars, vars, reverifyVars, tokensVars>>

\* The part that is explored begins in each of its initial states, the others in one.
AllInit ==
  /\ part \in {"intake", "ladder", "reverify", "tokens"}
  /\ IntakeInit /\ Init /\ ReverifyInit /\ TokensInit
  /\ part # "reverify" => source = "prod-health" /\ ~pushedSHA /\ smoke = "no gate"
  /\ part # "tokens" => conf = [ids |-> FALSE, key |-> "none", pat |-> FALSE, repos |-> {}]

AllNext ==
  \/ part = "intake" /\ IntakeNext /\ UNCHANGED <<part, vars, reverifyVars, tokensVars>>
  \/ part = "ladder" /\ Next /\ UNCHANGED <<part, intakeVars, reverifyVars, tokensVars>>
  \/ part = "reverify" /\ ReverifyNext /\ UNCHANGED <<part, intakeVars, vars, tokensVars>>
  \/ part = "tokens" /\ TokensNext /\ UNCHANGED <<part, intakeVars, vars, reverifyVars>>

AllSpec == AllInit /\ [][AllNext]_allVars

\* Many attempts of the run of one commit, or fewer on a branch that Fixes push to;
\* Fixes of two commits on record, of one when there is a third, on which nothing is
\* green.
Small ==
  /\ tip + Cardinality(DOMAIN fixSHA) <= 4
  /\ \A u \in Run : /\ tip * github[u].attempt <= 4
                    /\ tip = 3 => github[u].state # "green"

\* GitHub has no repos of the configuration, those of one owner, or of two.
MCConfigured == {{}, Repo, {r \in Repo : r.owner = "acme"}}

\* Runs of the tracked branch of a configured repo; i3 ran code of a fork.
CONSTANTS i1, i2, i3
CIRun ==
  [ event |-> "workflow_run", action |-> "completed", own |-> TRUE, trigger |-> "push",
    hex |-> TRUE, repo |-> "app", branch |-> "main", workflow |-> {"CI", "ci.yml", "ci"} ]
MCPayload == [d \in Deliveries |-> [CIRun EXCEPT !.own = d # i3]]
MCBranch == [r \in {"app"} |-> "main"]

Symmetric == Permutations(Api) \cup Permutations(Handlers) \cup Permutations({i1, i2})

-----------------------------------------------------------------------------
\* Every part keeps to its types and bounds: the channel of signals, the
\* ids that are kept, attempts, polls and waits to their limits, and a token to repos
\* of the installation.
TypesOK ==
  /\ part = "intake" => IntakeTypeOK
  /\ part = "ladder" => TypeOK
  /\ part = "reverify" => ReverifyTypeOK
  /\ part = "tokens" => TokensTypeOK
=============================================================================
