-------------------------------- MODULE Tokens --------------------------------
(***************************************************************************)
(* The daemon's access to GitHub.  PreferAppThenPAT picks how; an App's    *)
(* installation token is minted under AppToken.mu, kept until two minutes  *)
(* before its end, and kept once more by the API client's                  *)
(* ReuseTokenSource.  git takes it anew for every command, the API client  *)
(* for every call.  A call needs a permission, and a token has those that  *)
(* tokenPermissions asks for, if the App holds them: here it holds all.    *)
(***************************************************************************)
EXTENDS Integers, FiniteSets

CONSTANTS
  Configured, \* the sets of Repo that cfg.Repos may have on GitHub
  Git,       \* callers that run git
  Api,       \* callers of the API client
  Life,      \* of an installation token, in ticks
  Margin,    \* two minutes
  Early,     \* oauth2's expiryDelta, ten seconds
  Assumed,   \* fifty minutes
  MaxTicks,  \* bound of the model
  NoToken

\* Repos of one owner or of two, with the same bare name; some have no github field.
Repo == [owner : {"acme", "zed"}, name : {"a", "b"}]

\* Names of the repos that the App is installed on: one of them is of no configuration.
Installed == {"a", "b", "c"}

Token == [exp : Nat, dies : Nat, repos : SUBSET Installed]

ASSUME TokensAssumption ==
  /\ {Margin, Early, Assumed, MaxTicks} \subseteq Nat
  /\ Life \in Nat \ {0} /\ Margin <= Assumed /\ Assumed <= Life
  /\ Configured \subseteq SUBSET Repo
  /\ NoToken \notin Token /\ \A names \in SUBSET {"a", "b"} : NoToken # names

VARIABLES
  clock,   \* in ticks
  conf,    \* the configuration and the environment
  cached,  \* AppToken.cached and expiry
  reused,  \* the token in the API client's ReuseTokenSource
  tpc,     \* tpc[c]: where caller c is
  token,   \* token[c]: the token of c's call
  minted,  \* history: when the last token was minted
  refused  \* the operation that GitHub has refused last to an App's token

calls == <<tpc, token>>
tokensVars == <<clock, conf, cached, reused, calls, minted, refused>>

Callers == Git \cup Api

-----------------------------------------------------------------------------
(* Who the daemon is *)

Owners(repos) == {r.owner : r \in repos}

\* ScopeRepos, the repositories a token is asked for: one installation is of one account.
ScopeRepos(repos) ==
  IF Cardinality(Owners(repos)) > 1 THEN NoToken ELSE {r.name : r \in repos}

\* CreateInstallationToken: asked for none, GitHub mints for all of the installation.
Reach(names) == IF names = {} THEN Installed ELSE names

\* loadAppPrivateKey: a key that is there and cannot be read fails the start.
KeyFails(c) == c.key = "bad"

HasApp(c) == c.ids /\ c.key = "good"

\* PreferAppThenPAT
Provider(c) ==
  IF KeyFails(c) \/ (HasApp(c) /\ ScopeRepos(c.repos) = NoToken) THEN "error"
  ELSE IF HasApp(c) THEN "app"
  ELSE IF c.pat THEN "pat" ELSE "none"

Confs == [ids : BOOLEAN, key : {"none", "bad", "good"}, pat : BOOLEAN, repos : Configured]

\* tokenPermissions
TokenPermissions ==
  { <<"contents", "write">>, <<"pull_requests", "write">>, <<"actions", "read">>,
    <<"metadata", "read">> }

\* Write includes read.
Granted(need) ==
  need \in TokenPermissions \/ (need[2] = "read" /\ <<need[1], "write">> \in TokenPermissions)

\* What the calls of the code need
Needs ==
  [ clone |-> <<"contents", "read">>, push |-> <<"contents", "write">>,
    listRuns |-> <<"actions", "read">>, jobLogs |-> <<"actions", "read">>,
    rerun |-> <<"actions", "write">>,
    getPR |-> <<"pull_requests", "read">>, createPR |-> <<"pull_requests", "write">>,
    checkRuns |-> <<"checks", "read">>, combinedStatus |-> <<"statuses", "read">> ]

GitOps == {"clone", "push"}
ApiOps == DOMAIN Needs \ GitOps
OpsOf(c) == IF c \in Git THEN GitOps ELSE ApiOps

-----------------------------------------------------------------------------
(* Tokens *)


TokensTypeOK ==
  /\ clock \in 0 .. MaxTicks
  /\ conf \in Confs
  /\ cached \in Token \cup {NoToken} /\ reused \in Token \cup {NoToken}
  /\ tpc \in [Callers -> {"idle", "locked out", "mint", "call"}]
  /\ token \in [Callers -> Token \cup {NoToken}]
  /\ minted \in -Life .. clock
  /\ refused \in DOMAIN Needs \cup {NoToken}

\* With an error the daemon does not start.
TokensInit ==
  /\ clock = 0
  /\ conf \in {c \in Confs : Provider(c) # "error"}
  /\ cached = NoToken /\ reused = NoToken
  /\ tpc = [c \in Callers |-> "idle"] /\ token = [c \in Callers |-> NoToken]
  /\ minted = -Life /\ refused = NoToken

TickToken ==
  /\ clock < MaxTicks
  /\ clock' = clock + 1
  /\ UNCHANGED <<conf, cached, reused, calls, minted, refused>>

Good(t, margin) == t # NoToken /\ clock < t.exp - margin

\* Someone holds AppToken.mu: only a mint keeps it for any time.
Locked == \E c \in Callers : tpc[c] = "mint"

\* The call goes out with token t, or with none.
Use(c, t) == tpc' = [tpc EXCEPT ![c] = "call"] /\ token' = [token EXCEPT ![c] = t]

\* The source of a caller's token: nobody's, one that never ends, or the App's.
\* The API client asks the App only when its own is about to end.
Ask(c) ==
  /\ tpc[c] = "idle"
  /\ IF Provider(conf) # "app" THEN Use(c, NoToken)
     ELSE IF c \in Api /\ Good(reused, Early) THEN Use(c, reused)
     ELSE tpc' = [tpc EXCEPT ![c] = "locked out"] /\ UNCHANGED token
  /\ UNCHANGED <<clock, conf, cached, reused, minted, refused>>

\* The ReuseTokenSource keeps what it has got.
Kept(c, t) == reused' = IF c \in Api THEN t ELSE reused

\* ReuseTokenSource's own lock: its callers ask the App one at a time, and the next
\* one finds what the first has got.
Served(c) ==
  /\ tpc[c] = "locked out" /\ c \in Api /\ Good(reused, Early)
  /\ Use(c, reused)
  /\ UNCHANGED <<clock, conf, cached, reused, minted, refused>>

\* Mutant of Unexpired: the token is used up to its very end, and past it.
UnexpiredLong == cached # NoToken /\ clock < cached.exp + Margin

Unexpired == Good(cached, Margin)

\* token(), under the lock: the cached token, or a mint
Lock(c) ==
  /\ tpc[c] = "locked out" /\ ~Locked
  /\ IF Unexpired THEN Use(c, cached) /\ Kept(c, cached)
     ELSE tpc' = [tpc EXCEPT ![c] = "mint"] /\ UNCHANGED <<token, reused>>
  /\ UNCHANGED <<clock, conf, cached, minted, refused>>

\* GitHub's answer; without an end in it, fifty minutes are assumed.
Minted(c) ==
  /\ tpc[c] = "mint"
  /\ \E exp \in {clock + Life, clock + Assumed} :
       LET t == [exp |-> exp, dies |-> clock + Life, repos |-> Reach(ScopeRepos(conf.repos))]
       IN  cached' = t /\ Use(c, t) /\ Kept(c, t)
  /\ minted' = clock
  /\ UNCHANGED <<clock, conf, refused>>

\* No answer in mintTimeout, or a refusal: an API call fails, and AuthEnv goes on
\* without a token.
MintFails(c) ==
  /\ tpc[c] = "mint"
  /\ IF c \in Git THEN Use(c, NoToken)
     ELSE tpc' = [tpc EXCEPT ![c] = "idle"] /\ UNCHANGED token
  /\ UNCHANGED <<clock, conf, cached, reused, minted, refused>>

\* The call, which GitHub refuses without the permission
Call(c) ==
  /\ tpc[c] = "call"
  /\ \E op \in OpsOf(c) :
       refused' = IF token[c] # NoToken /\ ~Granted(Needs[op]) THEN op ELSE NoToken
  /\ tpc' = [tpc EXCEPT ![c] = "idle"] /\ token' = [token EXCEPT ![c] = NoToken]
  /\ UNCHANGED <<clock, conf, cached, reused, minted>>

TokensNext ==
  \/ TickToken
  \/ \E c \in Callers : Ask(c) \/ Served(c) \/ Lock(c) \/ Minted(c) \/ MintFails(c) \/ Call(c)

TokensSpec == TokensInit /\ [][TokensNext]_tokensVars

-----------------------------------------------------------------------------
(* Properties *)

\* However many callers wait while a token is minted, and whether GitHub tells its end
\* or not: whoever gets a token gets one that lives, for the repos of the configuration
\* and no others - but where the configuration has none on GitHub, for every repo of the
\* installation - and one mint serves all, until the token is about to end.
TokensServe ==
  [][ /\ \A c \in Callers : token[c] = NoToken /\ token'[c] # NoToken =>
           /\ clock < token'[c].dies
           /\ conf.repos # {} => token'[c].repos = {r.name : r \in conf.repos}
           /\ conf.repos = {} => token'[c].repos = Installed
           /\ Cardinality(Owners(conf.repos)) <= 1
      /\ minted' # minted => minted' - minted >= Assumed - Margin ]_tokensVars

\* tokenPermissions "pins it to what the code calls", and of checks and statuses its
\* comment says that "no code path touches them": no call of the code is refused.
ScopeSuffices == refused = NoToken
=============================================================================
