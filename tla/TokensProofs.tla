---------------------------- MODULE TokensProofs ----------------------------
(***************************************************************************)
(* The bounds on how far tokens lag behind the users they name, for any    *)
(* number of users and workers and any times.                              *)
(***************************************************************************)
EXTENDS Tokens, TLAPS

\* u had role r at time t, or later.
HadRole(u, r, t) ==
    \/ u \in DOMAIN role /\ role[u] = r
    \/ \E p \in past : p.u = u /\ p.role = r /\ t <= p.until

\* u existed at time t, or later.
Existed(u, t) ==
    u \in DOMAIN role \/ (u \in DOMAIN gone /\ t <= gone[u])

\* When the row was loaded that a token was made from, at the latest.
Loaded(t) == t.exp - TTL(t.type) - MaxRequest

RolesOK == DOMAIN role \subseteq User /\ role \in [DOMAIN role -> Roles]
HistoryOK ==
    /\ now \in Nat
    /\ past \subseteq Past /\ \A p \in past : p.until <= now
    /\ DOMAIN gone \subseteq User /\ gone \in [DOMAIN gone -> Nat]
    /\ DOMAIN gone \cap DOMAIN role = {}
RequestsOK ==
    /\ pending \in [Worker -> Request \cup {Free}]
    /\ \A w \in Worker : pending[w] # Free =>
          /\ pending[w].at <= now /\ now <= pending[w].at + MaxRequest
          /\ HadRole(pending[w].u, pending[w].role, pending[w].at)
          /\ Existed(pending[w].u, pending[w].at)
TokensOK ==
    /\ tokens \subseteq Token
    /\ \A t \in tokens :
          /\ now < t.exp /\ Loaded(t) <= now
          /\ HadRole(t.u, t.role, Loaded(t))
          /\ Existed(t.u, Loaded(t))

\* The inductive invariant.
TokensInv == RolesOK /\ HistoryOK /\ RequestsOK /\ TokensOK

-----------------------------------------------------------------------------
\* The times are natural numbers, and no token is born dead.
LEMMA TTLType ==
    /\ MaxRequest \in Nat
    /\ \A type : TTL(type) \in Nat \ {0}
BY TokenAssumption DEF TTL

\* What was true of roles at some time, or later, stays so as users change.
LEMMA PastKept ==
    ASSUME TokensInv, AddUser \/ SetRole \/ DeleteUser
    PROVE  /\ RolesOK' /\ HistoryOK'
           /\ \A u \in User, r \in Roles, t \in Int :
                 t <= now =>
                    /\ HadRole(u, r, t) => HadRole(u, r, t)'
                    /\ Existed(u, t) => Existed(u, t)'
<1> USE DEF TokensInv, RolesOK, HistoryOK
<1>1. CASE AddUser
    <2>1. PICK u \in User \ (DOMAIN role \cup DOMAIN gone), r \in Given :
              role' = [v \in DOMAIN role \cup {u} |-> IF v = u THEN r ELSE role[v]]
        BY <1>1 DEF AddUser
    <2>2. r \in Roles
        BY TokenAssumption
    <2>3. now' = now /\ past' = past /\ gone' = gone
        BY <1>1 DEF AddUser
    <2>4. RolesOK' /\ HistoryOK'
        BY <2>1, <2>2, <2>3
    <2> QED
        BY <2>1, <2>3, <2>4 DEF HadRole, Existed
<1>2. ASSUME NEW u \in DOMAIN role, Ends(u), now' = now
      PROVE  /\ past' \subseteq Past /\ \A p \in past' : p.until <= now'
             /\ \A v \in User, r \in Roles, t \in Int :
                   t <= now /\ HadRole(v, r, t) =>
                      \/ \E p \in past' : p.u = v /\ p.role = r /\ t <= p.until
                      \/ v # u /\ v \in DOMAIN role /\ role[v] = r
    <2> DEFINE new == [u |-> u, role |-> role[u], until |-> now]
    <2>1. new \in Past /\ new.u = u /\ new.role = role[u] /\ new.until = now
        BY DEF Past
    <2>2. past' = {p \in past : p.u # u \/ p.role # role[u]} \cup {new}
        BY <1>2 DEF Ends
    <2>3. past' \subseteq Past /\ \A p \in past' : p.until <= now'
        BY <1>2, <2>1, <2>2
    <2>4. ASSUME NEW v \in User, NEW r \in Roles, NEW t \in Int,
                 t <= now, HadRole(v, r, t)
          PROVE  \/ \E p \in past' : p.u = v /\ p.role = r /\ t <= p.until
                 \/ v # u /\ v \in DOMAIN role /\ role[v] = r
        <3>1. CASE v = u /\ role[u] = r
            BY <2>1, <2>2, <2>4, <3>1
        <3>2. CASE ~(v = u /\ role[u] = r)
            BY <2>2, <2>4, <3>2 DEF HadRole
        <3> QED
            BY <3>1, <3>2
    <2> QED
        BY <2>3, <2>4
<1>3. CASE SetRole
    <2>1. PICK u \in DOMAIN role, r \in Given :
              r # role[u] /\ role' = [role EXCEPT ![u] = r] /\ Ends(u)
        BY <1>3 DEF SetRole
    <2>2. r \in Roles
        BY TokenAssumption
    <2>3. now' = now /\ gone' = gone
        BY <1>3 DEF SetRole
    <2>4. DOMAIN role' = DOMAIN role /\ \A v \in DOMAIN role : v # u => role'[v] = role[v]
        BY <2>1
    <2>5. RolesOK' /\ HistoryOK'
        BY <1>2, <2>1, <2>2, <2>3, <2>4
    <2>6. \A v \in User, s \in Roles, t \in Int :
              t <= now /\ HadRole(v, s, t) => HadRole(v, s, t)'
        BY <1>2, <2>1, <2>3, <2>4 DEF HadRole
    <2> QED
        BY <2>3, <2>4, <2>5, <2>6 DEF Existed
<1>4. CASE DeleteUser
    <2>1. PICK u \in DOMAIN role :
              /\ role' = [v \in DOMAIN role \ {u} |-> role[v]]
              /\ Ends(u)
              /\ gone' = [v \in DOMAIN gone \cup {u} |-> IF v = u THEN now ELSE gone[v]]
        BY <1>4 DEF DeleteUser
    <2>2. now' = now
        BY <1>4 DEF DeleteUser
    <2>3. RolesOK' /\ HistoryOK'
        BY <1>2, <2>1, <2>2
    <2>4. \A v \in User, s \in Roles, t \in Int :
              t <= now /\ HadRole(v, s, t) => HadRole(v, s, t)'
        BY <1>2, <2>1, <2>2 DEF HadRole
    <2>5. \A v \in User, t \in Int : t <= now /\ Existed(v, t) => Existed(v, t)'
        BY <2>1 DEF Existed
    <2> QED
        BY <2>3, <2>4, <2>5
<1> QED
    BY <1>1, <1>3, <1>4

-----------------------------------------------------------------------------
LEMMA InitInv == Init => TokensInv
<1> SUFFICES ASSUME Init PROVE TokensInv
    OBVIOUS
<1> USE DEF Init
<1>1. RolesOK /\ HistoryOK
    BY TokenAssumption DEF RolesOK, HistoryOK
<1>2. RequestsOK /\ TokensOK
    BY DEF RequestsOK, TokensOK
<1> QED
    BY <1>1, <1>2 DEF TokensInv

\* A request that loads a row, or ends, at a worker.
LEMMA LoadStep ==
    ASSUME TokensInv, NEW w \in Worker, NEW user, Load(w, user),
           \/ user = Free
           \/ user \in Request /\ user.u \in DOMAIN role
                               /\ user.role = role[user.u] /\ user.at = now
    PROVE  TokensInv'
<1> USE DEF TokensInv
<1>1. pending' = [pending EXCEPT ![w] = user] /\ UNCHANGED <<role, tokens, now, past, gone>>
    BY DEF Load
<1>2. RolesOK' /\ HistoryOK' /\ TokensOK'
    BY <1>1 DEF RolesOK, HistoryOK, TokensOK, HadRole, Existed, Loaded
<1>3. pending' \in [Worker -> Request \cup {Free}]
    BY <1>1 DEF RequestsOK
<1>4. ASSUME NEW v \in Worker, pending'[v] # Free
      PROVE  /\ pending'[v].at <= now /\ now <= pending'[v].at + MaxRequest
             /\ HadRole(pending'[v].u, pending'[v].role, pending'[v].at)
             /\ Existed(pending'[v].u, pending'[v].at)
    <2>1. CASE v # w
        BY <1>1, <1>4, <2>1 DEF RequestsOK
    <2>2. CASE v = w
        <3>1. pending'[v] = user
            BY <1>1, <2>2 DEF RequestsOK
        <3> QED
            BY <1>4, <3>1, TTLType DEF HadRole, Existed, HistoryOK
    <2> QED
        BY <2>1, <2>2
<1>5. RequestsOK'
    BY <1>1, <1>3, <1>4 DEF RequestsOK, HadRole, Existed
<1> QED
    BY <1>2, <1>5

LEMMA MintStep ==
    ASSUME TokensInv, NEW w \in Worker, Mint(w)
    PROVE  TokensInv'
<1> DEFINE user == pending[w]
<1> USE DEF TokensInv
<1>1. /\ user # Free
      /\ tokens' = tokens \cup {EnrichedToken(user, type) : type \in {"access", "refresh"}}
      /\ pending' = [pending EXCEPT ![w] = Free]
      /\ UNCHANGED <<role, now, past, gone>>
    BY DEF Mint
<1>2. RolesOK' /\ HistoryOK'
    BY <1>1 DEF RolesOK, HistoryOK
<1>3. RequestsOK'
    BY <1>1 DEF RequestsOK, HadRole, Existed
<1>4. user \in Request
    BY <1>1 DEF RequestsOK
<1>5. ASSUME NEW type \in {"access", "refresh"}
      PROVE  LET t == EnrichedToken(user, type)
             IN t \in Token /\ now < t.exp /\ Loaded(t) <= now /\ HadRole(t.u, t.role, Loaded(t)) /\ Existed(t.u, Loaded(t))
    <2> DEFINE t == EnrichedToken(user, type)
    <2>1. t \in Token /\ t.u = user.u /\ t.role = user.role /\ t.type = type
          /\ t.exp = now + TTL(type)
        BY <1>4, TTLType DEF EnrichedToken, Token, Request, HistoryOK
    <2>2. Loaded(t) = now - MaxRequest
        BY <2>1, TTLType DEF Loaded, HistoryOK
    <2>3. user.at \in Nat /\ Loaded(t) <= user.at
        BY <1>1, <1>4, <2>2, TTLType DEF RequestsOK, Request, HistoryOK
    <2>4. HadRole(user.u, user.role, user.at) /\ Existed(user.u, user.at)
        BY <1>1 DEF RequestsOK
    <2>5. HadRole(user.u, user.role, Loaded(t))
        BY <2>2, <2>3, <2>4, TTLType DEF HadRole, HistoryOK, Past
    <2>6. Existed(user.u, Loaded(t))
        BY <2>2, <2>3, <2>4, TTLType DEF Existed, HistoryOK
    <2> QED
        BY <2>1, <2>2, <2>5, <2>6, TTLType DEF HistoryOK
<1>6. TokensOK'
    BY <1>1, <1>5 DEF TokensOK, HadRole, Existed, Loaded
<1> QED
    BY <1>2, <1>3, <1>6

\* Time: what expires goes, and no request grows older than MaxRequest.
LEMMA TickStep ==
    ASSUME TokensInv, Tick
    PROVE  TokensInv'
<1> USE DEF TokensInv
<1>1. /\ \A w \in Worker : pending[w] # Free => now < pending[w].at + MaxRequest
      /\ now' = now + 1 /\ tokens' = {t \in tokens : t.exp > now'}
      /\ UNCHANGED <<role, pending, past, gone>>
    BY DEF Tick
<1>2. RolesOK' /\ HistoryOK'
    BY <1>1 DEF RolesOK, HistoryOK, Past
<1>3. \A w \in Worker : pending[w] # Free => pending[w].at \in Nat
    BY DEF RequestsOK, Request
<1>4. RequestsOK'
    BY <1>1, <1>3, TTLType DEF RequestsOK, HistoryOK, HadRole, Existed
<1>5. TokensOK'
    BY <1>1, TTLType DEF TokensOK, HistoryOK, Token, HadRole, Existed, Loaded
<1> QED
    BY <1>2, <1>4, <1>5

\* The administrator changes users, and neither requests nor tokens.
LEMMA AdminStep ==
    ASSUME TokensInv, AddUser \/ SetRole \/ DeleteUser
    PROVE  TokensInv'
<1> USE DEF TokensInv
<1>1. UNCHANGED <<tokens, pending, now>>
    BY DEF AddUser, SetRole, DeleteUser
<1>2. RolesOK' /\ HistoryOK'
    BY PastKept
<1>3. RequestsOK'
    <2>1. ASSUME NEW w \in Worker, pending[w] # Free
          PROVE  /\ HadRole(pending[w].u, pending[w].role, pending[w].at)'
                 /\ Existed(pending[w].u, pending[w].at)'
        <3>1. pending[w] \in Request /\ pending[w].at <= now
            BY <2>1 DEF RequestsOK
        <3>2. pending[w].u \in User /\ pending[w].role \in Roles /\ pending[w].at \in Int
            BY <3>1 DEF Request
        <3> QED
            BY <1>1, <2>1, <3>1, <3>2, PastKept DEF RequestsOK, HadRole, Existed
    <2> QED
        BY <1>1, <2>1 DEF RequestsOK
<1>4. TokensOK'
    <2>1. ASSUME NEW t \in tokens
          PROVE  HadRole(t.u, t.role, Loaded(t))' /\ Existed(t.u, Loaded(t))'
        <3>1. t.u \in User /\ t.role \in Roles /\ t.exp \in Nat
            BY DEF TokensOK, Token
        <3>2. Loaded(t) \in Int
            BY <3>1, TTLType DEF Loaded
        <3>3. Loaded(t)' = Loaded(t) /\ Loaded(t) <= now
            BY DEF TokensOK, Loaded
        <3> QED
            BY <3>1, <3>2, <3>3, PastKept DEF TokensOK, HadRole, Existed
    <2> QED
        BY <1>1, <2>1 DEF TokensOK, Loaded
<1> QED
    BY <1>2, <1>3, <1>4

LEMMA StepInv == TokensInv /\ [Next]_vars => TokensInv'
<1> SUFFICES ASSUME TokensInv, [Next]_vars PROVE TokensInv'
    OBVIOUS
<1> USE DEF TokensInv
<1>1. ASSUME NEW w \in Worker, NEW u \in DOMAIN role
      PROVE  Row(u) \in Request /\ Row(u).u = u /\ Row(u).role = role[u] /\ Row(u).at = now
    BY DEF Row, Request, RolesOK, HistoryOK
<1>2. ASSUME NEW w \in Worker, LogIn(w) PROVE TokensInv'
    BY <1>1, <1>2, LoadStep DEF LogIn
<1>3. ASSUME NEW w \in Worker, Refresh(w) PROVE TokensInv'
    BY <1>1, <1>3, LoadStep DEF Refresh
<1>4. ASSUME NEW w \in Worker, Mint(w) PROVE TokensInv'
    BY <1>4, MintStep
<1>5. ASSUME NEW w \in Worker, Die(w) PROVE TokensInv'
    BY <1>5, LoadStep DEF Die
<1>6. CASE AddUser \/ SetRole \/ DeleteUser
    BY <1>6, AdminStep
<1>7. CASE Tick
    BY <1>7, TickStep
<1>8. CASE UNCHANGED vars
    BY <1>8 DEF vars, RolesOK, HistoryOK, RequestsOK, TokensOK, HadRole, Existed, Loaded
<1> QED
    BY <1>2, <1>3, <1>4, <1>5, <1>6, <1>7, <1>8 DEF Next

-----------------------------------------------------------------------------
\* The claims of every token, and the user it names, were the database's when
\* its row was loaded, or later, and that was not long ago.
THEOREM TokensInvariant == Spec => []TokensInv
<1> QED
    BY InitInv, StepInv, PTL DEF Spec

\* The role an access token claims lags behind the user's by less than the
\* life of an access token and of a request, however old the session is.
THEOREM ClaimsAreFresh == Spec => []ClaimFresh
<1>1. ASSUME TokensInv PROVE ClaimFresh
    <2> SUFFICES ASSUME NEW t \in tokens, t.type = "access", t.u \in DOMAIN role,
                        role[t.u] # t.role
                 PROVE  \E p \in past : /\ p.u = t.u /\ p.role = t.role
                                        /\ now < p.until + AccessTTL + MaxRequest
        BY DEF ClaimFresh
    <2>1. t \in Token /\ now < t.exp /\ HadRole(t.u, t.role, Loaded(t))
        BY <1>1 DEF TokensInv, TokensOK
    <2>2. PICK p \in past : p.u = t.u /\ p.role = t.role /\ Loaded(t) <= p.until
        BY <2>1 DEF HadRole
    <2>3. now \in Nat /\ p.until \in Nat /\ t.exp \in Nat
        BY <1>1, <2>1 DEF TokensInv, HistoryOK, Past, Token
    <2>4. Loaded(t) = t.exp - AccessTTL - MaxRequest
        BY DEF Loaded, TTL
    <2> QED
        BY <2>1, <2>2, <2>3, <2>4, TokenAssumption
<1> QED
    BY <1>1, TokensInvariant, PTL

\* No token outlives a deleted user by more than its life and that of a request.
THEOREM TokensRunOut == Spec => []TokensDieWithUser
<1>1. ASSUME TokensInv PROVE TokensDieWithUser
    <2> SUFFICES ASSUME NEW t \in tokens, t.u \notin DOMAIN role
                 PROVE  now < gone[t.u] + TTL(t.type) + MaxRequest
        BY DEF TokensDieWithUser
    <2>1. t \in Token /\ now < t.exp /\ Existed(t.u, Loaded(t))
        BY <1>1 DEF TokensInv, TokensOK
    <2>2. t.u \in DOMAIN gone /\ Loaded(t) <= gone[t.u]
        BY <2>1 DEF Existed
    <2>3. now \in Nat /\ gone[t.u] \in Nat /\ t.exp \in Nat
        BY <1>1, <2>1, <2>2 DEF TokensInv, HistoryOK, Token
    <2> QED
        BY <2>1, <2>2, <2>3, TTLType DEF Loaded
<1> QED
    BY <1>1, TokensInvariant, PTL
=============================================================================
