-------------------------------- MODULE Tokens --------------------------------
(***************************************************************************)
(* The endpoints that mint tokens, POST /token and POST /token/refresh.    *)
(* No token is stored: the server checks a signature and an expiry, and    *)
(* then loads the user a token names.  The claims of a pair are those of   *)
(* the row loaded when it was asked for; what a client holds lags behind   *)
(* the row by the life of the token and by the time the request took.      *)
(***************************************************************************)
EXTENDS Integers

CONSTANTS
    User, Worker,
    AccessTTL, RefreshTTL,  \* _ACCESS_EXPIRY and _REFRESH_EXPIRY
    MaxRequest,             \* gunicorn kills the worker of a longer request
    SeedRole,               \* the users at start
    Given,                  \* bound: the roles the administrator gives
    MaxNow                  \* bound: the time the clock stops

VARIABLES
    role,       \* users_user: user id -> role
    tokens,     \* the tokens clients hold that have not expired
    pending,    \* worker -> its request: the user it loaded, and when
    now,
    past,       \* history: who had which role and has it no more, until when
    gone        \* history: deleted user -> when

vars == <<role, tokens, pending, now, past, gone>>

Roles == {"MANAGER", "MEMBER", "GUEST"}
Token == [u : User, type : {"access", "refresh"}, role : Roles, exp : Nat]
Request == [u : User, role : Roles, at : Nat]
Free == [at |-> -1]
Past == [u : User, role : Roles, until : Nat]

ASSUME TokenAssumption ==
    /\ {AccessTTL, RefreshTTL} \subseteq Nat \ {0} /\ {MaxRequest, MaxNow} \subseteq Nat
    /\ DOMAIN SeedRole \subseteq User /\ SeedRole \in [DOMAIN SeedRole -> Roles]
    /\ Given \subseteq Roles

\* Defective variant: the two expiries are swapped.
TTLSwapped(type) == IF type = "access" THEN RefreshTTL ELSE AccessTTL

TTL(type) == IF type = "access" THEN AccessTTL ELSE RefreshTTL

\* _mint_enriched_token
EnrichedToken(user, type) ==
    [u |-> user.u, type |-> type, role |-> user.role, exp |-> now + TTL(type)]

-----------------------------------------------------------------------------
Load(w, user) ==
    /\ pending' = [pending EXCEPT ![w] = user]
    /\ UNCHANGED <<role, tokens, now, past, gone>>

Row(u) == [u |-> u, role |-> role[u], at |-> now]

\* TokenCreate: authenticate() SELECTs the user and then hashes the password.
LogIn(w) ==
    /\ pending[w] = Free
    /\ \E u \in DOMAIN role : Load(w, Row(u))

\* Defective variant: the user is not loaded.
RefreshWithoutUser(w) ==
    /\ pending[w] = Free
    /\ \E t \in tokens :
          /\ t.type = "refresh"
          /\ Load(w, IF t.u \in DOMAIN role THEN Row(t.u)
                     ELSE [u |-> t.u, role |-> t.role, at |-> now])

\* Defective variant: the claims are those of the old token.
RefreshFromClaims(w) ==
    /\ pending[w] = Free
    /\ \E t \in tokens :
          /\ t.type = "refresh" /\ t.u \in DOMAIN role
          /\ Load(w, [u |-> t.u, role |-> t.role, at |-> now])

\* TokenRefresh: any refresh token will do that has not expired and names a
\* user; it stays good for another time.
Refresh(w) ==
    /\ pending[w] = Free
    /\ \E t \in tokens :
          /\ t.type = "refresh" /\ t.u \in DOMAIN role
          /\ Load(w, Row(t.u))

\* make_api_response, of both
Mint(w) ==
    /\ pending[w] # Free
    /\ tokens' = tokens \cup {EnrichedToken(pending[w], type) : type \in {"access", "refresh"}}
    /\ pending' = [pending EXCEPT ![w] = Free]
    /\ UNCHANGED <<role, now, past, gone>>

\* The worker dies or is killed, and is started again.
Die(w) ==
    /\ pending[w] # Free
    /\ Load(w, Free)

-----------------------------------------------------------------------------
\* What ends now, for the history; an earlier end of the same is forgotten.
Ends(u) ==
    past' = {p \in past : p.u # u \/ p.role # role[u]}
                \cup {[u |-> u, role |-> role[u], until |-> now]}

AddUser ==
    /\ \E u \in User \ (DOMAIN role \cup DOMAIN gone), r \in Given :
          role' = [v \in DOMAIN role \cup {u} |-> IF v = u THEN r ELSE role[v]]
    /\ UNCHANGED <<tokens, pending, now, past, gone>>

SetRole ==
    /\ \E u \in DOMAIN role, r \in Given :
          r # role[u] /\ role' = [role EXCEPT ![u] = r] /\ Ends(u)
    /\ UNCHANGED <<tokens, pending, now, gone>>

DeleteUser ==
    /\ \E u \in DOMAIN role :
          /\ role' = [v \in DOMAIN role \ {u} |-> role[v]]
          /\ Ends(u)
          /\ gone' = [v \in DOMAIN gone \cup {u} |-> IF v = u THEN now ELSE gone[v]]
    /\ UNCHANGED <<tokens, pending, now>>

\* No request is older than MaxRequest; a token is good until just before exp.
Tick ==
    /\ now < MaxNow
    /\ \A w \in Worker : pending[w] # Free => now < pending[w].at + MaxRequest
    /\ now' = now + 1
    /\ tokens' = {t \in tokens : t.exp > now'}
    /\ UNCHANGED <<role, pending, past, gone>>

Init ==
    /\ role = SeedRole /\ tokens = {} /\ pending = [w \in Worker |-> Free]
    /\ now = 0 /\ past = {} /\ gone = [u \in {} |-> 0]

Next ==
    \/ \E w \in Worker : LogIn(w) \/ Refresh(w) \/ Mint(w) \/ Die(w)
    \/ AddUser \/ SetRole \/ DeleteUser \/ Tick

Spec == Init /\ [][Next]_vars

-----------------------------------------------------------------------------
\* The role an access token claims, and the SPA goes by, is the user's or was
\* until less than the life of an access token and of a request ago: a refresh
\* token, however old, never carries an old role into a new pair.
ClaimFresh ==
    \A t \in {x \in tokens : x.type = "access" /\ x.u \in DOMAIN role} :
        \/ role[t.u] = t.role
        \/ \E p \in past : /\ p.u = t.u /\ p.role = t.role
                           /\ now < p.until + AccessTTL + MaxRequest

\* The tokens of a deleted user run out: only a request that had loaded the
\* row could still mint a pair, and nobody can refresh it.
TokensDieWithUser ==
    \A t \in tokens :
        t.u \in DOMAIN role \/ now < gone[t.u] + TTL(t.type) + MaxRequest
=============================================================================
