-------------------------------- MODULE Login --------------------------------
(***************************************************************************)
(* Signing in to the console: the authorization code flow of a browser     *)
(* with several tabs, the cache of the issuer's keys, the signed cookies   *)
(* that are all the state there is, and what the API does with them.  The  *)
(* issuer rotates its keys, and moves people between groups.  Time is in   *)
(* minutes; a signature is taken to hold, so a token is its signing key    *)
(* and the groups in it.                                                   *)
(***************************************************************************)
EXTENDS Integers, FiniteSets

CONSTANTS
  Tabs,       \* tabs of browsers
  Browsers,
  Owner,      \* Owner[t]: the browser of tab t
  SessionTTL, \* oidc.session_ttl
  FlowTTL,    \* five minutes
  MaxKid,     \* bound of the model: keys the issuer ever has
  MaxMinutes, \* bound of the model
  None        \* no cookie, no token

\* What the issuer may know a user as; a session is an operator's or a viewer's.
Members == {"operator", "viewer", "neither"}

ASSUME LoginAssumption ==
  /\ Owner \in [Tabs -> Browsers]
  /\ {SessionTTL, FlowTTL, MaxKid, MaxMinutes} \subseteq Nat /\ MaxKid > 0
  /\ None \notin Members \cup [kid : 1 .. MaxKid, groups : Members, at : Nat]

VARIABLES
  atMinute,   \* the clock
  published,  \* the issuer's JWKS: key ids 1 .. MaxKid; the newest one signs
  groups,     \* groups[b]: what the issuer knows the user of b as
  viewers,    \* oidc.viewer_groups is set
  keys,       \* Authenticator.keys
  fetched,    \* Authenticator.keysFetched
  flow,       \* flow[b]: the flow cookie: the tab whose state it holds, and its end
  session,    \* session[b]: the session cookie
  tpc,        \* tpc[t]: where tab t's login is
  token,      \* token[t]: the id_token in t's callback
  response,   \* response[t]: the JWKS that t's refresh has read
  asked,      \* history: when the last fetch of the keys began
  moved,      \* someone has moved between groups (once, in the model)
  granted     \* history: granted[b]: for each role, when b's groups last gave it

issuer == <<atMinute, published, groups, viewers, moved, granted>>
keyCache == <<keys, fetched, asked>>
cookies == <<flow, session>>
tabs == <<tpc, token, response>>
loginVars == <<issuer, keyCache, cookies, tabs>>

Kids == 1 .. MaxKid
Newest(K) == CHOOSE k \in K : \A j \in K : j <= k
Roles == {"operator", "viewer"}

\* decideRole: without viewer groups everyone may look.
Role(g) ==
  IF g = "operator" THEN "operator"
  ELSE IF g = "viewer" \/ ~viewers THEN "viewer" ELSE None

LoginTypeOK ==
  /\ atMinute \in 0 .. MaxMinutes
  /\ published \subseteq Kids /\ published # {}
  /\ groups \in [Browsers -> Members] /\ viewers \in BOOLEAN /\ moved \in BOOLEAN
  /\ granted \in [Browsers -> [Roles -> -1 .. atMinute]]
  /\ keys \subseteq Kids /\ fetched \in 0 .. atMinute /\ asked \in 0 .. atMinute
  /\ \A b \in Browsers :
       /\ flow[b] = None \/ (flow[b].tab \in Tabs /\ flow[b].exp \in 0 .. MaxMinutes + FlowTTL)
       /\ session[b] = None \/ (session[b].role \in Roles /\ session[b].exp \in 0 .. MaxMinutes + SessionTTL)
  /\ tpc \in [Tabs -> {"none", "issuer", "verify", "fetch", "apply"}]
  /\ \A t \in Tabs : /\ response[t] \subseteq Kids
                     /\ (token[t] # None) = (tpc[t] \in {"verify", "fetch", "apply"})

\* New has fetched the keys, or the daemon would not be up.
LoginInit ==
  /\ atMinute = 0
  /\ published = {1}
  /\ groups \in [Browsers -> Members] /\ viewers \in BOOLEAN
  /\ keys = {1} /\ fetched = 0 /\ asked = 0
  /\ flow = [b \in Browsers |-> None] /\ session = [b \in Browsers |-> None]
  /\ tpc = [t \in Tabs |-> "none"] /\ token = [t \in Tabs |-> None]
  /\ response = [t \in Tabs |-> {}]
  /\ moved = FALSE
  /\ granted = [b \in Browsers |->
       [r \in Roles |-> IF Role(groups[b]) = r THEN 0 ELSE -1]]

-----------------------------------------------------------------------------
(* The issuer *)

TickMinute ==
  /\ atMinute < MaxMinutes
  /\ atMinute' = atMinute + 1
  /\ granted' = [b \in Browsers |->
       [r \in Roles |-> IF Role(groups[b]) = r THEN atMinute + 1 ELSE granted[b][r]]]
  /\ UNCHANGED <<published, groups, viewers, moved, keyCache, cookies, tabs>>

Regroup(b, g) ==
  /\ g # groups[b] /\ ~moved
  /\ moved' = TRUE
  /\ groups' = [groups EXCEPT ![b] = g]
  /\ granted' = [granted EXCEPT ![b] =
       [r \in Roles |-> IF Role(g) = r THEN atMinute ELSE @[r]]]
  /\ UNCHANGED <<atMinute, published, viewers, keyCache, cookies, tabs>>

\* A new key, next to the old one or in its place
Rotate(kept) ==
  /\ Newest(published) < MaxKid
  /\ published' = {k \in published : kept} \cup {Newest(published) + 1}
  /\ UNCHANGED <<atMinute, groups, viewers, moved, granted, keyCache, cookies, tabs>>

-----------------------------------------------------------------------------
(* A login *)

\* handleLogin: one flow cookie a browser, whatever tab has set it
Start(t) ==
  /\ tpc[t] = "none"
  /\ flow' = [flow EXCEPT ![Owner[t]] = [tab |-> t, exp |-> atMinute + FlowTTL]]
  /\ tpc' = [tpc EXCEPT ![t] = "issuer"]
  /\ UNCHANGED <<issuer, keyCache, session, token, response>>

EndLogin(t) ==
  /\ tpc' = [tpc EXCEPT ![t] = "none"]
  /\ token' = [token EXCEPT ![t] = None]
  /\ response' = [response EXCEPT ![t] = {}]

\* verifyFlow: a live cookie, of this tab
FlowHolds(t) == flow[Owner[t]] # None /\ atMinute <= flow[Owner[t]].exp /\ flow[Owner[t]].tab = t

\* handleCallback, refused: no cookie, an expired one, or another tab's
Refuse(t) ==
  /\ tpc[t] = "issuer" /\ ~FlowHolds(t)
  /\ EndLogin(t)
  /\ UNCHANGED <<issuer, keyCache, cookies>>

\* The user is back: the cookie is spent, and the code is exchanged for a token
\* unless the issuer has said no.
Callback(t) ==
  /\ tpc[t] = "issuer" /\ FlowHolds(t)
  /\ flow' = [flow EXCEPT ![Owner[t]] = None]
  /\ \/ EndLogin(t)
     \/ /\ tpc' = [tpc EXCEPT ![t] = "verify"]
        /\ token' = [token EXCEPT ![t] =
             [kid |-> Newest(published), groups |-> groups[Owner[t]], at |-> atMinute]]
        /\ UNCHANGED response
  /\ UNCHANGED <<issuer, keyCache, session>>

Abandon(t) ==
  /\ tpc[t] = "issuer"
  /\ EndLogin(t)
  /\ UNCHANGED <<issuer, keyCache, cookies>>

Stale == atMinute - fetched > 1

\* The role of the token's groups goes into the cookie, until the session's end.
SignIn(t) ==
  LET role == Role(token[t].groups)
  IN  /\ session' = IF role = None THEN session
                    ELSE [session EXCEPT ![Owner[t]] = [role |-> role, exp |-> atMinute + SessionTTL]]
      /\ EndLogin(t)

\* The id_token of an issuer is good for minutes; here for no longer than a flow.
Fresh(t) == atMinute <= token[t].at + FlowTTL

\* keyFor, with the key or too soon for another fetch
Verify(t) ==
  /\ tpc[t] = "verify"
  /\ \/ token[t].kid \in keys /\ Fresh(t) /\ SignIn(t)
     \/ /\ IF token[t].kid \in keys THEN ~Fresh(t) ELSE ~Stale
        /\ EndLogin(t) /\ UNCHANGED session
  /\ UNCHANGED <<issuer, keyCache, flow>>

\* Mutant of Marked: the attempt is not counted before the fetch.
MarkedNot(t) == UNCHANGED fetched

Marked(t) == fetched' = atMinute

BeginFetch(t) ==
  /\ tpc[t] = "verify" /\ token[t].kid \notin keys /\ Stale
  /\ Marked(t)
  /\ asked' = atMinute
  /\ tpc' = [tpc EXCEPT ![t] = "fetch"]
  /\ UNCHANGED <<issuer, keys, cookies, token, response>>

\* The issuer answers, or it does not.
Fetch(t) ==
  /\ tpc[t] = "fetch"
  /\ \/ /\ response' = [response EXCEPT ![t] = published]
        /\ tpc' = [tpc EXCEPT ![t] = "apply"]
        /\ UNCHANGED token
     \/ EndLogin(t)
  /\ UNCHANGED <<issuer, keyCache, cookies>>

\* refreshKeys and the rest of keyFor
Apply(t) ==
  /\ tpc[t] = "apply"
  /\ keys' = response[t] /\ fetched' = atMinute
  /\ IF token[t].kid \in response[t] /\ Fresh(t) THEN SignIn(t) ELSE EndLogin(t) /\ UNCHANGED session
  /\ UNCHANGED <<issuer, asked, flow>>

Logout(b) ==
  /\ session[b] # None
  /\ session' = [session EXCEPT ![b] = None]
  /\ UNCHANGED <<issuer, keyCache, flow, tabs>>

LoginNext ==
  \/ TickMinute \/ \E kept \in BOOLEAN : Rotate(kept)
  \/ \E b \in Browsers : Logout(b) \/ \E g \in Members : Regroup(b, g)
  \/ \E t \in Tabs :
       \/ Start(t) \/ Refuse(t) \/ Callback(t) \/ Abandon(t)
       \/ Verify(t) \/ BeginFetch(t) \/ Fetch(t) \/ Apply(t)

LoginSpec == LoginInit /\ [][LoginNext]_loginVars

-----------------------------------------------------------------------------
(* The API *)

\* What a request brings: one of the configured tokens, b's cookie, or nothing
Credentials == {"token", "viewer token", "cookie", "nothing"}

\* Mutant of Live: the end of a session is not looked at.
LiveForever(b) == session[b] # None

\* verifySession
Live(b) == session[b] # None /\ atMinute <= session[b].exp

\* authenticate, of a daemon with the methods conf
Authenticate(conf, c, b) ==
  IF c \in conf /\ c = "token" THEN "operator"
  ELSE IF c \in conf /\ c = "viewer token" THEN "viewer"
  ELSE IF c \in conf /\ c = "cookie" /\ Live(b) THEN session[b].role
  ELSE None

Configured(conf) == "token" \in conf \/ "cookie" \in conf

RequireAuth(conf, c, b) ==
  IF Authenticate(conf, c, b) # None THEN 200 ELSE IF Configured(conf) THEN 401 ELSE 503

RequireOperator(conf, c, b) ==
  LET role == Authenticate(conf, c, b)
  IN  IF role = "operator" THEN 200 ELSE IF role # None THEN 403
      ELSE IF Configured(conf) THEN 401 ELSE 503

-----------------------------------------------------------------------------
(* Properties *)

Granted(b, role) == granted[b][role] >= 0 /\ atMinute - granted[b][role] <= SessionTTL + FlowTTL

\* Whatever the tabs, the key rotations and the moves between groups do meanwhile,
\* a cookie opens a page only to someone whose groups gave that role within the
\* session's time (and the login's), and an action only to an operator; and whoever
\* may act may look.  Without any method set up nothing is open.
SessionsAreGranted ==
  \A b \in Browsers, conf \in SUBSET {"token", "viewer token", "cookie"}, c \in Credentials :
    LET look == RequireAuth(conf, c, b)
        act == RequireOperator(conf, c, b)
    IN  /\ c = "cookie" /\ look = 200 => Granted(b, session[b].role)
        /\ c = "cookie" /\ act = 200 => Granted(b, "operator")
        /\ act = 200 => look = 200
        /\ act = 403 => look = 200
        /\ conf = {} => look = 503 /\ act = 503

\* The issuer is asked for its keys at most once a minute, by however many logins with
\* a key that is not known, and whether it answers or not.
FetchesApart == [][asked' # asked => asked' - asked > 1]_loginVars
=============================================================================
