------------------------------ MODULE WalkProofs ------------------------------
(***************************************************************************)
(* A walk over the pages of a list repeats no row and misses none, but for *)
(* the reasons the two properties name: for every instance of Reading,     *)
(* lists and pages of any size, and whatever is committed meanwhile.       *)
(***************************************************************************)
EXTENDS ReadingProofs, FiniteSetTheorems

\* The tables stay finite, and their ids are those uuid4 can draw.
RowsInv ==
    /\ DOMAIN role \subseteq User /\ DOMAIN meetings \subseteq Meeting
    /\ IsFiniteSet(DOMAIN role) /\ IsFiniteSet(DOMAIN name) /\ IsFiniteSet(DOMAIN meetings)

\* The walk has not failed, and has asked for so many rows before its next page.
Going == client.pc # "idle" /\ (client.pc = "answered" => client.status = 200)
Passed == IF client.pc = "answered" THEN client.page * client.size ELSE Offset(client)

\* With a row the rows before it are in A; and those rows.
Prefix(q, A, S) == A \subseteq S /\ \A x \in S, y \in A : Before(q, x, y) => x \in A
Ahead(q, x, S) == {y \in S \ {x} : Before(q, y, x)}

\* A page holds a row at least, and the history is a history.
Walked ==
    /\ client.page \in Nat \ {0} /\ client.size \in Nat \ {0}
    /\ {client.twice, client.moved, client.left, client.came, client.tied, client.late}
          \subseteq BOOLEAN
    /\ client.twice => client.op \in Paged

\* Rows of earlier pages that are still in the list are in a part of its front
\* no longer than what was asked for.
SeenInFront ==
    client.op \in Paged /\ Going /\ ~client.came /\ ~client.moved /\ ~client.tied =>
        \E A \in SUBSET Matching(client) :
            /\ Prefix(client, A, Matching(client))
            /\ Cardinality(A) <= Passed
            /\ client.seen \cap Matching(client) \subseteq A
RepeatsNothing == client.twice => client.came \/ client.moved \/ client.tied

\* A row that was in the list at start and was not met has as many rows before
\* it as were asked for.
UnseenBehind ==
    client.op \in Paged /\ Going /\ client.whole
    /\ ~client.left /\ ~client.moved /\ ~client.tied =>
        /\ client.start \subseteq Matching(client)
        /\ \A x \in client.start \ client.seen :
              Cardinality(Ahead(client, x, Matching(client))) >= Passed
CountHolds ==
    client.op \in Paged /\ client.pc = "slice" /\ ~client.late =>
        client.total = Cardinality(Matching(client))

WalkInv == ErrorInv /\ RowsInv /\ Walked
              /\ SeenInFront /\ RepeatsNothing /\ UnseenBehind /\ CountHolds

-----------------------------------------------------------------------------
(***************************************************************************)
(* Prefixes of an ordered finite set.                                      *)
(***************************************************************************)
Orders(q, S) == \A x, y \in S : x # y => Before(q, x, y) \/ Before(q, y, x)

\* The first n rows.
LEMMA FirstRows ==
    ASSUME NEW q, NEW S, IsFiniteSet(S), NEW n \in Nat, NEW P \in First(q, S, n)
    PROVE  /\ Prefix(q, P, S) /\ IsFiniteSet(P)
           /\ Cardinality(P) \in Nat /\ Cardinality(P) <= n
           /\ P # S => Cardinality(P) = n
PROOF
<1>1. P \in SUBSET S /\ Prefix(q, P, S) /\ Cardinality(P) = Least(n, Cardinality(S))
  BY DEF First, Prefix
<1>2. IsFiniteSet(P) /\ (Cardinality(S) = Cardinality(P) => S = P)
  BY <1>1, FS_Subset
<1>3. Cardinality(S) \in Nat BY FS_CardinalityType
<1>. QED BY <1>1, <1>2, <1>3 DEF Least

\* A prefix of no more than n rows is in them.
LEMMA PrefixInFirst ==
    ASSUME NEW q, NEW S, IsFiniteSet(S), NEW n \in Nat, NEW P \in First(q, S, n),
           Orders(q, S), NEW A, Prefix(q, A, S), Cardinality(A) <= n
    PROVE  A \subseteq P
PROOF
<1>1. /\ Prefix(q, P, S) /\ IsFiniteSet(P) /\ Cardinality(P) \in Nat
      /\ P # S => Cardinality(P) = n
  BY FirstRows
<1>2. A \subseteq P \/ P \subseteq A BY <1>1 DEF Prefix, Orders
<1>3. CASE P = S BY <1>3 DEF Prefix
<1>4. CASE P \subseteq A /\ P # S
  <2>1. IsFiniteSet(A) BY FS_Subset DEF Prefix
  <2>2. Cardinality(A) \in Nat BY <2>1, FS_CardinalityType
  <2>3. /\ Cardinality(P) <= Cardinality(A)
        /\ Cardinality(A) = Cardinality(P) => A = P
    BY <1>4, <2>1, FS_Subset
  <2>. QED BY <1>1, <1>4, <2>2, <2>3
<1>. QED BY <1>2, <1>3, <1>4

\* Fewer rows are before a row than there are.
LEMMA AheadIsFewer ==
    ASSUME NEW q, NEW S, IsFiniteSet(S), NEW x \in S
    PROVE  /\ IsFiniteSet(Ahead(q, x, S)) /\ Cardinality(Ahead(q, x, S)) \in Nat
           /\ Cardinality(Ahead(q, x, S)) < Cardinality(S)
PROOF
<1>1. IsFiniteSet(S \ {x}) /\ Cardinality(S \ {x}) = Cardinality(S) - 1
  BY FS_RemoveElement
<1>2. Ahead(q, x, S) \in SUBSET (S \ {x}) BY DEF Ahead
<1>3. IsFiniteSet(Ahead(q, x, S)) /\ Cardinality(Ahead(q, x, S)) <= Cardinality(S \ {x})
  BY <1>1, <1>2, FS_Subset
<1>4. Cardinality(S) \in Nat /\ Cardinality(Ahead(q, x, S)) \in Nat
  BY <1>3, FS_CardinalityType
<1>. QED BY <1>1, <1>3, <1>4

\* A row that is not one of the first n has n rows before it.
LEMMA NotAmongFirst ==
    ASSUME NEW q, NEW S, IsFiniteSet(S), NEW n \in Nat, NEW P \in First(q, S, n),
           Orders(q, S), NEW x \in S \ P
    PROVE  Cardinality(Ahead(q, x, S)) >= n
PROOF
<1>1. Prefix(q, P, S) /\ Cardinality(P) = n BY FirstRows
<1>2. P \in SUBSET Ahead(q, x, S) BY <1>1 DEF Prefix, Orders, Ahead
<1>3. IsFiniteSet(Ahead(q, x, S)) /\ Cardinality(Ahead(q, x, S)) \in Nat BY AheadIsFewer
<1>4. Cardinality(P) <= Cardinality(Ahead(q, x, S)) BY <1>2, <1>3, FS_Subset
<1>. QED BY <1>1, <1>3, <1>4

\* One of the first n has fewer.
LEMMA AmongFirst ==
    ASSUME NEW q, NEW S, IsFiniteSet(S), NEW n \in Nat, NEW P \in First(q, S, n), NEW x \in P
    PROVE  Cardinality(Ahead(q, x, S)) < n
PROOF
<1>1. /\ Prefix(q, P, S) /\ IsFiniteSet(P) /\ Cardinality(P) \in Nat
      /\ Cardinality(P) <= n
  BY FirstRows
<1>2. Ahead(q, x, S) \subseteq Ahead(q, x, P) /\ Ahead(q, x, P) \subseteq Ahead(q, x, S)
  BY <1>1 DEF Prefix, Ahead
<1>3. Ahead(q, x, S) = Ahead(q, x, P) BY <1>2
<1>4. /\ Cardinality(Ahead(q, x, P)) \in Nat
      /\ Cardinality(Ahead(q, x, P)) < Cardinality(P)
  BY <1>1, AheadIsFewer
<1>. QED BY <1>1, <1>3, <1>4

\* But for groups that tie, the lists that are paged are in order.
LEMMA ListsAreOrdered ==
    ASSUME NEW q, q.op \in Paged, ~Ties(q, Matching(q)), RowsInv, MeetingsInv
    PROVE  Orders(q, Matching(q))
PROOF
<1>1. CASE q.op = "GetGroups" BY <1>1 DEF Ties, Orders
<1>2. CASE q.op = "GetMeetings"
  <2>1. Matching(q) \subseteq DOMAIN meetings BY <1>2 DEF Matching, MeetingsOf
  <2>2. ASSUME NEW x \in Matching(q), NEW y \in Matching(q), x # y
        PROVE  Before(q, x, y) \/ Before(q, y, x)
    <3>1. x \in Meeting /\ y \in Meeting BY <2>1 DEF RowsInv
    <3>2. Rank[x] \in Nat /\ Rank[y] \in Nat /\ Rank[x] # Rank[y]
      BY <2>2, <3>1, ReadingAssumption
    <3>3. meetings[x].date \in Nat /\ meetings[y].date \in Nat
      BY <2>1, DataAssumption DEF MeetingsInv, MeetingRow
    <3>. QED BY <1>2, <3>2, <3>3 DEF Before
  <2>. QED BY <2>2 DEF Orders
<1>3. CASE q.op = "GetUsers"
  <2>1. ASSUME NEW x \in Matching(q), NEW y \in Matching(q), x # y
        PROVE  Before(q, x, y) \/ Before(q, y, x)
    <3>1. x \in User /\ y \in User BY <1>3, <2>1 DEF Matching, RowsInv
    <3>2. Rank[x] \in Nat /\ Rank[y] \in Nat /\ Rank[x] # Rank[y]
      BY <2>1, <3>1, ReadingAssumption
    <3>. QED BY <1>3, <3>2 DEF Before
  <2>. QED BY <2>1 DEF Orders
<1>. QED BY <1>1, <1>2, <1>3 DEF Paged

\* They are finite.
LEMMA ListsAreFinite ==
    ASSUME NEW q, q.op \in Paged, RowsInv PROVE IsFiniteSet(Matching(q))
PROOF
<1>1. \/ Matching(q) \in SUBSET DOMAIN role \/ Matching(q) \in SUBSET DOMAIN name
      \/ Matching(q) \in SUBSET DOMAIN meetings
  BY DEF Matching, Paged, MeetingsOf
<1>. QED BY <1>1, FS_Subset DEF RowsInv

-----------------------------------------------------------------------------
(***************************************************************************)
(* Commits, and what the history notes of them.                            *)
(***************************************************************************)
\* A commit adds one row to a table at most.
LEMMA CommitKeepsRows ==
    ASSUME RowsInv, Commit \/ Administer PROVE RowsInv'
PROOF
<1> USE DEF RowsInv
<1>1. CASE UNCHANGED <<DOMAIN role, DOMAIN name, DOMAIN meetings>>
  BY <1>1
<1>2. ASSUME NEW n, NewGroup(n) PROVE RowsInv'
  <2>1. PICK g \in Group : DOMAIN name' = DOMAIN name \cup {g} BY <1>2 DEF NewGroup
  <2>2. IsFiniteSet(DOMAIN name \cup {g}) BY FS_AddElement
  <2>. QED BY <1>2, <2>1, <2>2 DEF NewGroup
<1>3. ASSUME NEW g, DropGroup(g) PROVE RowsInv'
  <2>1. /\ DOMAIN name' \in SUBSET DOMAIN name /\ DOMAIN meetings' \in SUBSET DOMAIN meetings
        /\ role' = role
    BY <1>3 DEF DropGroup, Without
  <2>2. IsFiniteSet(DOMAIN name') /\ IsFiniteSet(DOMAIN meetings') BY <2>1, FS_Subset
  <2>. QED BY <2>1, <2>2
<1>4. ASSUME NEW g, NEW d, Convene(g, d) PROVE RowsInv'
  <2>1. PICK m \in Meeting : DOMAIN meetings' = DOMAIN meetings \cup {m}
    BY <1>4 DEF Convene
  <2>2. IsFiniteSet(DOMAIN meetings \cup {m}) BY FS_AddElement
  <2>. QED BY <1>4, <2>1, <2>2 DEF Convene
<1>5. ASSUME NEW m, NEW body, Reschedule(m, body) PROVE RowsInv'
  <2>1. DOMAIN meetings' = DOMAIN meetings BY <1>5 DEF Reschedule
  <2>. QED BY <1>1, <1>5, <2>1 DEF Reschedule
<1>6. ASSUME NEW m, DropMeeting(m) PROVE RowsInv'
  <2>1. DOMAIN meetings' \in SUBSET DOMAIN meetings BY <1>6 DEF DropMeeting, Without
  <2>2. IsFiniteSet(DOMAIN meetings') BY <2>1, FS_Subset
  <2>. QED BY <1>6, <2>1, <2>2 DEF DropMeeting
<1>7. ASSUME NEW u, NEW g, Pin(u, g) \/ Join(u, g) \/ Leave(u, g) PROVE RowsInv'
  BY <1>1, <1>7 DEF Pin, Join, Leave
<1>8. CASE ChangeRole BY <1>1, <1>8 DEF ChangeRole
<1>9. CASE DropUser
  <2>1. DOMAIN role' \in SUBSET DOMAIN role BY <1>9 DEF DropUser, Without
  <2>2. IsFiniteSet(DOMAIN role') BY <2>1, FS_Subset
  <2>. QED BY <1>9, <2>1, <2>2 DEF DropUser
<1> HIDE DEF RowsInv
<1>. QED BY <1>2, <1>3, <1>4, <1>5, <1>6, <1>7, <1>8, <1>9 DEF Commit, Administer

\* The list that is read depends on the request's arguments alone.
LEMMA SameArguments ==
    ASSUME NEW q, client'.op = q.op, client'.by = q.by, client'.role = q.role,
           q.op \in Paged, client'.g = q.g
    PROVE  /\ Matching(client)' = Matching(q)'
           /\ \A x, y : Before(client, x, y)' <=> Before(q, x, y)'
PROOF
<1>1. Matching(client)' = Matching(q)' BY DEF Matching, MeetingsOf, Paged
<1>2. ASSUME NEW x, NEW y PROVE Before(client, x, y)' <=> Before(q, x, y)'
  BY DEF Before, Paged
<1>. QED BY <1>1, <1>2

\* What the fields left, came, moved and late are for.
LEMMA HistoryNotes ==
    ASSUME Walked, DOMAIN client = Fields, Observed
    PROVE  /\ DOMAIN client' = Fields
           /\ \A f \in Fields \ {"left", "came", "moved", "late", "was"} :
                 client'[f] = client[f]
           /\ {client'.left, client'.came, client'.moved, client'.late} \subseteq BOOLEAN
           /\ client.op \in Paged =>
                LET S == Matching(client)
                IN /\ ~client'.left => ~client.left /\ S \subseteq Matching(client)'
                   /\ ~client'.came => ~client.came /\ Matching(client)' \subseteq S
                   /\ ~client'.moved =>
                         /\ ~client.moved
                         /\ \A x, y \in S \cap Matching(client)' :
                               Before(client, x, y) <=> Before(client, x, y)'
                   /\ ~client'.late /\ client.pc = "slice" =>
                         ~client.late /\ Matching(client)' = S
PROOF
<1>1. PICK q \in {client} :
        LET S == Matching(q)
            gone == ~(S \subseteq Matching(q)')
            new == ~(Matching(q)' \subseteq S)
            swap == \E x, y \in S \cap Matching(q)' : Before(q, x, y) # Before(q, x, y)'
            walk == q.op \in Paged
        IN client' = [q EXCEPT
              !.left = @ \/ (walk /\ gone), !.came = @ \/ (walk /\ new),
              !.moved = @ \/ (walk /\ swap),
              !.late = @ \/ (walk /\ q.pc = "slice" /\ (gone \/ new)),
              !.was = @ \cup GroupsOf(q.by)']
  BY DEF Observed
<1> DEFINE S == Matching(q)
           T == Matching(q)'
           gone == ~(S \subseteq T)
           new == ~(T \subseteq S)
           swap == \E x, y \in S \cap T : Before(q, x, y) # Before(q, x, y)'
           walk == q.op \in Paged
<1>0. q = client OBVIOUS
<1>2. /\ DOMAIN client' = Fields
      /\ \A f \in Fields \ {"left", "came", "moved", "late", "was"} : client'[f] = q[f]
  BY <1>0, <1>1 DEF Fields
<1>3. /\ client'.left = (q.left \/ (walk /\ gone))
      /\ client'.came = (q.came \/ (walk /\ new))
      /\ client'.moved = (q.moved \/ (walk /\ swap))
      /\ client'.late = (q.late \/ (walk /\ q.pc = "slice" /\ (gone \/ new)))
  BY <1>0, <1>1, Zenon DEF Fields
<1>4. {q.left, q.came, q.moved, q.late} \subseteq BOOLEAN BY <1>0 DEF Walked
<1>5. client.op \in Paged =>
        Matching(client)' = T /\ \A x, y : Before(client, x, y)' <=> Before(q, x, y)'
  BY <1>0, <1>2, SameArguments DEF Fields
<1>6. S = Matching(client) /\ \A x, y : Before(client, x, y) <=> Before(q, x, y)
  BY <1>0
<1> HIDE DEF S, T
<1>7. {client'.left, client'.came, client'.moved, client'.late} \subseteq BOOLEAN
  BY <1>3, <1>4
<1>8. walk => /\ ~client'.left => ~q.left /\ S \subseteq T
              /\ ~client'.came => ~q.came /\ T \subseteq S
              /\ ~client'.moved => ~q.moved /\ ~swap
              /\ ~client'.late /\ q.pc = "slice" => ~q.late /\ S \subseteq T /\ T \subseteq S
  BY <1>3, <1>4
<1>9. ~swap => \A x, y \in S \cap T : Before(q, x, y) <=> Before(q, x, y)'
  BY Zenon
<1> HIDE DEF swap
<1>10. walk /\ ~client'.moved =>
         \A x, y \in S \cap T : Before(client, x, y) <=> Before(client, x, y)'
  BY <1>0, <1>5, <1>6, <1>8, <1>9
<1>. QED BY <1>0, <1>2, <1>5, <1>6, <1>7, <1>8, <1>10

\* Rows that leave take nothing to the front of the list, and rows that come do
\* not take what is behind a row away.
LEMMA CommitKeepsWalk ==
    ASSUME WalkInv, RowsInv', Observed
    PROVE  Walked' /\ SeenInFront' /\ RepeatsNothing' /\ UnseenBehind' /\ CountHolds'
PROOF
<1>0. DOMAIN client = Fields /\ Walked /\ RowsInv BY DEF WalkInv, ErrorInv, Errors
<1>1. /\ DOMAIN client' = Fields
      /\ \A f \in Fields \ {"left", "came", "moved", "late", "was"} :
            client'[f] = client[f]
      /\ {client'.left, client'.came, client'.moved, client'.late} \subseteq BOOLEAN
  BY <1>0, HistoryNotes
<1>2. /\ client'.pc = client.pc /\ client'.op = client.op /\ client'.status = client.status
      /\ client'.page = client.page /\ client'.size = client.size
      /\ client'.total = client.total /\ client'.whole = client.whole
      /\ client'.start = client.start /\ client'.seen = client.seen
      /\ client'.twice = client.twice /\ client'.tied = client.tied
  BY <1>1 DEF Fields
<1>3. Passed' = Passed /\ (Going' <=> Going) BY <1>2 DEF Passed, Offset, Going
<1>4. Walked' BY <1>0, <1>1, <1>2 DEF Walked
<1>5. CASE client.op \notin Paged
  BY <1>0, <1>2, <1>4, <1>5
     DEF Walked, SeenInFront, RepeatsNothing, UnseenBehind, CountHolds
<1>6. CASE client.op \in Paged
  <2> DEFINE S == Matching(client)
             T == Matching(client)'
  <2>1. IsFiniteSet(S) BY <1>0, <1>6, ListsAreFinite
  <2>2. IsFiniteSet(T)
    <3>1. \/ T \in SUBSET DOMAIN role' \/ T \in SUBSET DOMAIN name'
          \/ T \in SUBSET DOMAIN meetings'
      BY <1>2, <1>6 DEF Matching, Paged, MeetingsOf
    <3>. QED BY <3>1, FS_Subset DEF RowsInv
  <2>3. /\ ~client'.left => ~client.left /\ S \subseteq T
        /\ ~client'.came => ~client.came /\ T \subseteq S
        /\ ~client'.moved =>
              /\ ~client.moved
              /\ \A x, y \in S \cap T : Before(client, x, y) <=> Before(client, x, y)'
        /\ ~client'.late /\ client.pc = "slice" => ~client.late /\ T = S
    BY <1>0, <1>6, HistoryNotes
  <2>4. RepeatsNothing'
    BY <1>0, <1>1, <1>2, <2>3 DEF WalkInv, RepeatsNothing, Walked
  <2>5. CountHolds' BY <1>2, <2>3 DEF WalkInv, CountHolds
  <2>6. SeenInFront'
    <3>1. SUFFICES ASSUME Going', ~client'.came, ~client'.moved, ~client'.tied
                   PROVE  \E B \in SUBSET T :
                            /\ Prefix(client, B, Matching(client))'
                            /\ Cardinality(B) <= Passed
                            /\ client.seen \cap T \subseteq B
      BY <1>2, <1>3 DEF SeenInFront
    <3>2. PICK A \in SUBSET S : /\ Prefix(client, A, S) /\ Cardinality(A) <= Passed
                                /\ client.seen \cap S \subseteq A
      BY <1>2, <1>3, <1>6, <2>3, <3>1 DEF WalkInv, SeenInFront
    <3>3. PICK B : B = A \cap T OBVIOUS
    <3>4. Prefix(client, B, Matching(client))' BY <2>3, <3>1, <3>2, <3>3 DEF Prefix
    <3>5. Cardinality(B) <= Passed
      <4>1. IsFiniteSet(A) BY <2>1, FS_Subset
      <4>2. B \in SUBSET A BY <3>3
      <4>3. IsFiniteSet(B) /\ Cardinality(B) <= Cardinality(A) BY <4>1, <4>2, FS_Subset
      <4>4. Cardinality(A) \in Nat /\ Cardinality(B) \in Nat
        BY <4>1, <4>3, FS_CardinalityType
      <4>5. Passed \in Int BY <1>0 DEF Passed, Offset, Walked
      <4>. QED BY <3>2, <4>3, <4>4, <4>5
    <3>6. client.seen \cap T \subseteq B BY <2>3, <3>1, <3>2, <3>3
    <3>. QED BY <3>3, <3>4, <3>5, <3>6
  <2>7. UnseenBehind'
    <3>1. SUFFICES ASSUME Going', client'.whole, ~client'.left, ~client'.moved, ~client'.tied
                   PROVE  /\ client.start \subseteq T
                          /\ \A x \in client.start \ client.seen :
                                Cardinality(Ahead(client, x, Matching(client)))' >= Passed
      BY <1>2, <1>3 DEF UnseenBehind
    <3>2. /\ client.start \subseteq S
          /\ \A x \in client.start \ client.seen : Cardinality(Ahead(client, x, S)) >= Passed
      BY <1>2, <1>3, <1>6, <2>3, <3>1 DEF WalkInv, UnseenBehind
    <3>3. ASSUME NEW x \in client.start \ client.seen
          PROVE  Cardinality(Ahead(client, x, Matching(client)))' >= Passed
      <4>1. PICK B : B = Ahead(client, x, Matching(client))' OBVIOUS
      <4>2. B \subseteq T BY <4>1 DEF Ahead
      <4>3. Ahead(client, x, S) \in SUBSET B
        BY <2>3, <3>1, <3>2, <4>1 DEF Ahead
      <4>4. IsFiniteSet(B) BY <2>2, <4>2, FS_Subset
      <4>5. /\ IsFiniteSet(Ahead(client, x, S))
            /\ Cardinality(Ahead(client, x, S)) <= Cardinality(B)
        BY <4>3, <4>4, FS_Subset
      <4>6. Cardinality(B) \in Nat /\ Cardinality(Ahead(client, x, S)) \in Nat
        BY <4>4, <4>5, FS_CardinalityType
      <4>7. Passed \in Int BY <1>0 DEF Passed, Offset, Walked
      <4>8. Cardinality(B) >= Passed BY <3>2, <4>5, <4>6, <4>7
      <4>. QED BY <4>1, <4>8
    <3>. QED BY <2>3, <3>1, <3>2, <3>3
  <2>. QED BY <1>4, <2>4, <2>5, <2>6, <2>7
<1>. QED BY <1>5, <1>6

-----------------------------------------------------------------------------
(***************************************************************************)
(* The statements.                                                         *)
(***************************************************************************)
Walks == Walked /\ SeenInFront /\ RepeatsNothing /\ UnseenBehind /\ CountHolds

\* What a walk keeps between two pages.
OfWalk == {"op", "by", "role", "page", "size", "whole", "start", "seen", "twice",
           "moved", "left", "came", "tied"}

\* A statement that answers no page keeps the walk where it is.
LEMMA StatementKeepsWalk ==
    ASSUME WalkInv, UNCHANGED aVars, client.pc \notin {"idle", "answered"},
           DOMAIN client' = Fields, \A f \in OfWalk : client'[f] = client[f],
           client'.pc # "idle", client'.late \in BOOLEAN,
           client.op \in Paged =>
              /\ client'.g = client.g
              /\ client'.pc = "answered" => client'.status # 200
              /\ client'.pc = "slice" => client'.total = Cardinality(Matching(client))
    PROVE  Walks'
PROOF
<1>0. Walked BY DEF WalkInv
<1>1. /\ client'.op = client.op /\ client'.by = client.by /\ client'.role = client.role
      /\ client'.page = client.page /\ client'.size = client.size
      /\ client'.whole = client.whole /\ client'.start = client.start
      /\ client'.seen = client.seen /\ client'.twice = client.twice
      /\ client'.moved = client.moved /\ client'.left = client.left
      /\ client'.came = client.came /\ client'.tied = client.tied
  BY DEF OfWalk
<1>2. Walked' BY <1>0, <1>1 DEF Walked
<1>3. RepeatsNothing' BY <1>1 DEF WalkInv, RepeatsNothing
<1>4. CASE client.op \notin Paged
  BY <1>1, <1>2, <1>3, <1>4 DEF Walks, SeenInFront, UnseenBehind, CountHolds
<1>5. CASE client.op \in Paged
  <2>1. Matching(client)' = Matching(client)
    BY <1>1, <1>5 DEF Matching, MeetingsOf, Paged, aVars, db
  <2>2. \A x, y : Before(client, x, y)' <=> Before(client, x, y)
    BY <1>1, <1>5 DEF Before, Paged, aVars, db
  <2>3. Going' => Going /\ Passed' = Passed
    BY <1>1, <1>5 DEF Going, Passed, Offset
  <2>4. ASSUME NEW A
        PROVE  Prefix(client, A, Matching(client))' <=> Prefix(client, A, Matching(client))
    BY <2>1, <2>2 DEF Prefix
  <2>5. ASSUME NEW x
        PROVE  Ahead(client, x, Matching(client))' = Ahead(client, x, Matching(client))
    BY <2>1, <2>2 DEF Ahead
  <2>6. SeenInFront' BY <1>1, <1>5, <2>1, <2>3, <2>4 DEF WalkInv, SeenInFront
  <2>7. UnseenBehind' BY <1>1, <1>5, <2>1, <2>3, <2>5 DEF WalkInv, UnseenBehind
  <2>8. CountHolds' BY <1>1, <1>5, <2>1 DEF CountHolds
  <2>. QED BY <1>2, <1>3, <2>6, <2>7, <2>8 DEF Walks
<1>. QED BY <1>4, <1>5

\* A page: the rows after what was asked for before, and up to now.
LEMMA PageOfRows ==
    ASSUME WalkInv, Slice, client.op \in Paged, client'.status = 200
    PROVE  \E rows, P, Q :
              /\ P \in First(client, Matching(client), Offset(client))
              /\ Q \in First(client, Matching(client), Offset(client) + client.size)
              /\ P \subseteq Q /\ rows = Q \ P
              /\ DOMAIN client' = Fields
              /\ \A f \in OfWalk \ {"seen", "twice", "tied"} : client'[f] = client[f]
              /\ client'.g = client.g
              /\ client'.late = client.late /\ client'.total = client.total
              /\ client'.pc = "answered" /\ client'.seen = client.seen \cup rows
              /\ {client'.twice, client'.tied} \subseteq BOOLEAN
              /\ ~client'.tied => ~client.tied /\ ~Ties(client, Matching(client))
              /\ client'.twice => client.twice \/ rows \cap client.seen # {}
PROOF
<1>0. DOMAIN client = Fields /\ Walked BY DEF WalkInv, ErrorInv, Errors
<1>1. ~(Offset(client) > MaxOffset)
  <2>1. SUFFICES ASSUME Respond(client, 500) PROVE FALSE BY DEF Slice
  <2>. QED BY <1>0, <2>1 DEF Respond, Fields
<1>2. PICK rows \in Slices(client, Matching(client)) :
        Respond([client EXCEPT !.rows = rows, !.seen = @ \cup rows,
                               !.twice = @ \/ rows \cap client.seen # {},
                               !.tied = @ \/ Ties(client, Matching(client))], 200)
  BY <1>1 DEF Slice
<1>3. PICK P \in First(client, Matching(client), Offset(client)),
           Q \in First(client, Matching(client), Offset(client) + client.size) :
        P \subseteq Q /\ rows = Q \ P
  BY DEF Slices
<1> DEFINE c == [client EXCEPT !.rows = rows, !.seen = @ \cup rows,
                               !.twice = @ \/ rows \cap client.seen # {},
                               !.tied = @ \/ Ties(client, Matching(client))]
<1>4. /\ DOMAIN c = Fields
      /\ \A f \in Fields \ {"rows", "seen", "twice", "tied"} : c[f] = client[f]
      /\ c.seen = client.seen \cup rows
  BY <1>0 DEF Fields
<1> DEFINE met == rows \cap client.seen # {}
           tie == Ties(client, Matching(client))
<1>5. c.twice = (client.twice \/ met) /\ c.tied = (client.tied \/ tie)
  BY <1>0, Zenon DEF Fields
<1>6. client' = [c EXCEPT !.pc = "answered", !.status = 200] BY <1>2 DEF Respond
<1> HIDE DEF c
<1>7. /\ DOMAIN client' = Fields /\ client'.pc = "answered"
      /\ \A f \in Fields \ {"pc", "status"} : client'[f] = c[f]
  BY <1>4, <1>6 DEF Fields
<1>8. /\ \A f \in OfWalk \ {"seen", "twice", "tied"} : client'[f] = client[f]
      /\ client'.g = client.g /\ client'.late = client.late /\ client'.total = client.total
      /\ client'.seen = client.seen \cup rows
      /\ client'.twice = c.twice /\ client'.tied = c.tied
  BY <1>4, <1>7 DEF Fields, OfWalk
<1> HIDE DEF met, tie
<1>9. /\ {client'.twice, client'.tied} \subseteq BOOLEAN
      /\ ~client'.tied => ~client.tied /\ ~tie
      /\ client'.twice => client.twice \/ met
  <2>1. {client.twice, client.tied} \subseteq BOOLEAN BY <1>0 DEF Walked
  <2>. QED BY <1>5, <1>8, <2>1
<1>. QED BY <1>3, <1>7, <1>8, <1>9 DEF met, tie

\* It repeats nothing, and what it does not show is behind it.
LEMMA PageKeepsWalk ==
    ASSUME WalkInv, Slice, UNCHANGED aVars, client.op \in Paged, client'.status = 200
    PROVE  Walks'
PROOF
<1>0. Walked /\ RowsInv /\ MeetingsInv BY DEF WalkInv, ErrorInv
<1> DEFINE S == Matching(client)
<1>1. PICK rows, P, Q :
         /\ P \in First(client, S, Offset(client))
         /\ Q \in First(client, S, Offset(client) + client.size)
         /\ P \subseteq Q /\ rows = Q \ P
         /\ DOMAIN client' = Fields
         /\ \A f \in OfWalk \ {"seen", "twice", "tied"} : client'[f] = client[f]
         /\ client'.g = client.g
         /\ client'.late = client.late /\ client'.total = client.total
         /\ client'.pc = "answered" /\ client'.seen = client.seen \cup rows
         /\ {client'.twice, client'.tied} \subseteq BOOLEAN
         /\ ~client'.tied => ~client.tied /\ ~Ties(client, S)
         /\ client'.twice => client.twice \/ rows \cap client.seen # {}
  BY PageOfRows
<1>2. /\ client'.op = client.op /\ client'.by = client.by /\ client'.role = client.role
      /\ client'.page = client.page /\ client'.size = client.size
      /\ client'.whole = client.whole /\ client'.start = client.start
      /\ client'.moved = client.moved /\ client'.left = client.left
      /\ client'.came = client.came
  BY <1>1 DEF OfWalk
<1>3. client.pc = "slice" BY DEF Slice
<1>4. Going BY <1>3 DEF Going
<1>5. /\ Passed = Offset(client) /\ Offset(client) \in Nat
      /\ Passed' = Offset(client) + client.size /\ Passed' \in Nat
  <2>1. PICK p \in Nat, n \in Nat \ {0} : client.page = p + 1 /\ client.size = n
    <3>1. client.page - 1 \in Nat /\ client.page = (client.page - 1) + 1 BY <1>0 DEF Walked
    <3>. QED BY <1>0, <3>1 DEF Walked
  <2>2. p * n \in Nat /\ (p + 1) * n = p * n + n BY <2>1
  <2>3. Offset(client) = p * n BY <2>1 DEF Offset
  <2>4. Passed' = (p + 1) * n BY <1>1, <1>2, <2>1 DEF Passed
  <2>. QED BY <1>3, <2>1, <2>2, <2>3, <2>4 DEF Passed
<1>6. IsFiniteSet(S) BY <1>0, ListsAreFinite
<1>7. ~client'.tied => Orders(client, S) BY <1>0, <1>1, ListsAreOrdered
<1>8. Matching(client)' = S
  BY <1>1, <1>2 DEF Matching, MeetingsOf, Paged, aVars, db
<1>9. \A x, y : Before(client, x, y)' <=> Before(client, x, y)
  BY <1>2 DEF Before, Paged, aVars, db
<1>10. Walked'
  BY <1>0, <1>1, <1>2 DEF Walked
<1>11. Offset(client) + client.size \in Nat BY <1>5
<1>12. Prefix(client, P, S) BY <1>1, <1>5, <1>6, FirstRows
<1>13. Prefix(client, Q, S) /\ Cardinality(Q) <= Offset(client) + client.size
  BY <1>1, <1>6, <1>11, FirstRows
<1>14. ASSUME ~client'.came, ~client'.moved, ~client'.tied
       PROVE  client.seen \cap S \subseteq P /\ ~client'.twice
  <2>1. PICK A \in SUBSET S : /\ Prefix(client, A, S) /\ Cardinality(A) <= Passed
                              /\ client.seen \cap S \subseteq A
    BY <1>1, <1>2, <1>4, <1>14 DEF WalkInv, SeenInFront
  <2>2. A \subseteq P BY <1>1, <1>5, <1>6, <1>7, <1>14, <2>1, PrefixInFirst
  <2>3. ~client.twice BY <1>1, <1>2, <1>14 DEF WalkInv, RepeatsNothing
  <2>4. rows \cap client.seen = {} BY <1>1, <1>13, <2>1, <2>2 DEF Prefix
  <2>. QED BY <1>1, <2>1, <2>2, <2>3, <2>4
<1>15. RepeatsNothing' BY <1>14 DEF RepeatsNothing
<1>16. SeenInFront'
  <2>1. SUFFICES ASSUME ~client'.came, ~client'.moved, ~client'.tied
                 PROVE  \E B \in SUBSET S :
                           /\ Prefix(client, B, Matching(client))'
                           /\ Cardinality(B) <= Passed'
                           /\ client'.seen \cap S \subseteq B
    BY <1>8 DEF SeenInFront
  <2>2. Q \subseteq S BY <1>13 DEF Prefix
  <2>3. Prefix(client, Q, Matching(client))' BY <1>8, <1>9, <1>13 DEF Prefix
  <2>4. client'.seen \cap S \subseteq Q BY <1>1, <1>14, <2>1
  <2>. QED BY <1>5, <1>13, <2>2, <2>3, <2>4
<1>17. UnseenBehind'
  <2>1. SUFFICES ASSUME client.whole, ~client.left, ~client.moved, ~client'.tied
                 PROVE  /\ client.start \subseteq S
                        /\ \A x \in client.start \ client'.seen :
                              Cardinality(Ahead(client, x, Matching(client)))' >= Passed'
    BY <1>2, <1>8 DEF UnseenBehind
  <2>2. /\ client.start \subseteq S
        /\ \A x \in client.start \ client.seen :
              Cardinality(Ahead(client, x, S)) >= Offset(client)
    BY <1>1, <1>4, <1>5, <2>1 DEF WalkInv, UnseenBehind
  <2>3. ASSUME NEW x \in client.start \ client'.seen
        PROVE  Cardinality(Ahead(client, x, Matching(client)))' >= Passed'
    <3>1. x \in S /\ x \notin client.seen /\ x \notin rows BY <1>1, <2>2, <2>3
    <3>2. x \notin P
      <4>1. SUFFICES ASSUME x \in P PROVE FALSE OBVIOUS
      <4>2. Cardinality(Ahead(client, x, S)) < Offset(client)
        BY <1>1, <1>5, <1>6, <4>1, AmongFirst
      <4>3. Cardinality(Ahead(client, x, S)) >= Offset(client) BY <2>2, <2>3, <3>1
      <4>4. Cardinality(Ahead(client, x, S)) \in Nat BY <1>6, <3>1, AheadIsFewer
      <4>. QED BY <1>5, <4>2, <4>3, <4>4
    <3>3. x \in S \ Q BY <1>1, <3>1, <3>2
    <3>4. Cardinality(Ahead(client, x, S)) >= Offset(client) + client.size
      BY <1>1, <1>6, <1>7, <1>11, <2>1, <3>3, NotAmongFirst
    <3>5. Ahead(client, x, Matching(client))' = Ahead(client, x, S)
      BY <1>8, <1>9 DEF Ahead
    <3>. QED BY <1>5, <3>4, <3>5
  <2>. QED BY <2>2, <2>3
<1>18. CountHolds' BY <1>1 DEF CountHolds
<1>. QED BY <1>10, <1>15, <1>16, <1>17, <1>18 DEF Walks

-----------------------------------------------------------------------------
(***************************************************************************)
(* The requests of a walk.                                                 *)
(***************************************************************************)
\* Authentication changes nothing of a walk but the role, and notes when the
\* list is another one by that.
LEMMA AskedAgain ==
    ASSUME NEW q, DOMAIN q = Fields, q.op \in Lists, Ask(q), UNCHANGED aVars,
           q.left \in BOOLEAN, q.came \in BOOLEAN
    PROVE  /\ DOMAIN client' = Fields
           /\ \A f \in OfWalk \ {"role", "left", "came"} : client'[f] = q[f]
           /\ client'.late = q.late
           /\ client'.pc \notin {"idle", "slice"}
           /\ client'.pc = "answered" => client'.status # 200
           /\ client'.left \in BOOLEAN /\ client'.came \in BOOLEAN
           /\ ~client'.left => ~q.left
           /\ ~client'.came => ~q.came
           /\ q.op \in Paged /\ ~(client'.left /\ client'.came) =>
                 /\ Matching(client)' = Matching(q)
                 /\ \A x, y : Before(client, x, y)' <=> Before(q, x, y)
PROOF
<1> DEFINE r == [q EXCEPT !.role = role[q.by], !.total = 0, !.rows = {}, !.status = 0,
                          !.was = GroupsOf(q.by)]
           changed == Matching(r) # Matching(q)
           s == [r EXCEPT !.left = @ \/ changed, !.came = @ \/ changed]
<1>1. /\ DOMAIN r = Fields
      /\ \A f \in Fields \ {"role", "total", "rows", "status", "was"} : r[f] = q[f]
  BY DEF Fields
<1>2. Ask(q) <=> IF s.op = "GetUsers" /\ s.role # "MANAGER" THEN Respond(s, 403)
                 ELSE client' = [s EXCEPT !.pc = FirstStatement(q.op)]
  BY DEF Ask
<1> HIDE DEF r
<1>3. /\ DOMAIN s = Fields
      /\ \A f \in Fields \ {"left", "came"} : s[f] = r[f]
  BY <1>1 DEF Fields
<1>4. s.left = (r.left \/ changed) /\ s.came = (r.came \/ changed)
  BY <1>1, Zenon DEF Fields
<1> HIDE DEF s
<1>5. /\ DOMAIN client' = Fields
      /\ \A f \in Fields \ {"pc", "status"} : client'[f] = s[f]
      /\ \/ client'.pc = "answered" /\ client'.status # 200
         \/ client'.pc = FirstStatement(q.op)
  <2>1. CASE s.op = "GetUsers" /\ s.role # "MANAGER"
    <3>1. client' = [s EXCEPT !.pc = "answered", !.status = 403]
      BY <1>2, <2>1 DEF Respond
    <3>2. client'.pc = "answered" /\ client'.status = 403 BY <1>3, <3>1 DEF Fields
    <3>3. DOMAIN client' = Fields BY <1>3, <3>1
    <3>4. \A f \in Fields \ {"pc", "status"} : client'[f] = s[f] BY <1>3, <3>1
    <3>. QED BY <3>2, <3>3, <3>4
  <2>2. CASE ~(s.op = "GetUsers" /\ s.role # "MANAGER")
    <3>1. client' = [s EXCEPT !.pc = FirstStatement(q.op)] BY <1>2, <2>2
    <3>. QED BY <1>3, <3>1 DEF Fields
  <2>. QED BY <2>1, <2>2
<1>6. FirstStatement(q.op) \in {"count", "get_group", "get_meeting"}
  BY DEF FirstStatement, Lists
<1>7. \A f \in OfWalk \ {"role", "left", "came"} : client'[f] = q[f]
  BY <1>1, <1>3, <1>5 DEF OfWalk, Fields
<1>8. client'.late = q.late /\ client'.g = q.g BY <1>1, <1>3, <1>5 DEF Fields
<1>9. /\ client'.left = s.left /\ client'.came = s.came
      /\ r.left = q.left /\ r.came = q.came
  BY <1>1, <1>5 DEF Fields
<1>10. ~changed => Matching(r) = Matching(q) OBVIOUS
<1> HIDE DEF changed
<1>11. /\ client'.left \in BOOLEAN /\ client'.came \in BOOLEAN
       /\ ~client'.left => ~q.left /\ ~changed
       /\ ~client'.came => ~q.came /\ ~changed
  BY <1>4, <1>9
<1>12. q.op \in Paged => Matching(client)' = Matching(r)
  <2>1. /\ client'.op = r.op /\ client'.by = r.by /\ client'.role = r.role
        /\ client'.g = r.g /\ r.op = q.op
    BY <1>1, <1>3, <1>5 DEF Fields
  <2>. QED BY <2>1 DEF Matching, MeetingsOf, Paged, aVars, db
<1>13. q.op \in Paged => \A x, y : Before(client, x, y)' <=> Before(q, x, y)
  <2>1. client'.op = q.op /\ client'.by = q.by BY <1>7 DEF OfWalk
  <2>. QED BY <2>1 DEF Before, Paged, aVars, db
<1>. QED BY <1>5, <1>6, <1>7, <1>8, <1>10, <1>11, <1>12, <1>13

\* A step that answers a page.
ShowsPage == Answers /\ client'.status = 200 /\ client'.op \in Paged

\* So what held of the list that was asked for holds of the one that is read.
LEMMA AskKeepsWalk ==
    ASSUME NEW q, DOMAIN q = Fields, q.op \in Lists, Ask(q), UNCHANGED aVars,
           q.page \in Nat \ {0}, q.size \in Nat \ {0},
           {q.twice, q.moved, q.left, q.came, q.tied, q.late} \subseteq BOOLEAN,
           q.twice => q.op \in Paged /\ (q.came \/ q.moved \/ q.tied),
           q.op \in Paged /\ ~q.came /\ ~q.moved /\ ~q.tied =>
              \E A \in SUBSET Matching(q) :
                 /\ Prefix(q, A, Matching(q))
                 /\ Cardinality(A) <= Offset(q)
                 /\ q.seen \cap Matching(q) \subseteq A,
           q.op \in Paged /\ q.whole /\ ~q.left /\ ~q.moved /\ ~q.tied =>
              /\ q.start \subseteq Matching(q)
              /\ \A x \in q.start \ q.seen :
                    Cardinality(Ahead(q, x, Matching(q))) >= Offset(q)
    PROVE  Walks' /\ ~ShowsPage
PROOF
<1>1. /\ \A f \in OfWalk \ {"role", "left", "came"} : client'[f] = q[f]
      /\ client'.late = q.late
      /\ client'.pc \notin {"idle", "slice"}
      /\ client'.pc = "answered" => client'.status # 200
      /\ client'.left \in BOOLEAN /\ client'.came \in BOOLEAN
      /\ ~client'.left => ~q.left
      /\ ~client'.came => ~q.came
      /\ q.op \in Paged /\ ~(client'.left /\ client'.came) =>
            /\ Matching(client)' = Matching(q)
            /\ \A x, y : Before(client, x, y)' <=> Before(q, x, y)
  BY AskedAgain
<1>2. /\ client'.op = q.op /\ client'.page = q.page /\ client'.size = q.size
      /\ client'.whole = q.whole /\ client'.start = q.start /\ client'.seen = q.seen
      /\ client'.twice = q.twice /\ client'.moved = q.moved /\ client'.tied = q.tied
  BY <1>1 DEF OfWalk
<1>3. Walked' BY <1>1, <1>2 DEF Walked
<1>4. RepeatsNothing' BY <1>1, <1>2 DEF RepeatsNothing
<1>5. Going' => Passed' = Offset(q) BY <1>1, <1>2 DEF Going, Passed, Offset
<1>6. SeenInFront'
  <2>1. SUFFICES ASSUME q.op \in Paged, Going', ~client'.came, ~q.moved, ~q.tied
                 PROVE  \E A \in SUBSET Matching(q) :
                           /\ Prefix(client, A, Matching(client))'
                           /\ Cardinality(A) <= Offset(q)
                           /\ q.seen \cap Matching(q) \subseteq A
    BY <1>1, <1>2, <1>5 DEF SeenInFront
  <2>2. PICK A \in SUBSET Matching(q) : /\ Prefix(q, A, Matching(q))
                                        /\ Cardinality(A) <= Offset(q)
                                        /\ q.seen \cap Matching(q) \subseteq A
    BY <1>1, <2>1
  <2>3. Prefix(client, A, Matching(client))' BY <1>1, <2>1, <2>2 DEF Prefix
  <2>. QED BY <2>2, <2>3
<1>7. UnseenBehind'
  <2>1. SUFFICES ASSUME q.op \in Paged, Going', q.whole, ~client'.left, ~q.moved, ~q.tied
                 PROVE  /\ q.start \subseteq Matching(q)
                        /\ \A x \in q.start \ q.seen :
                              Cardinality(Ahead(client, x, Matching(client)))' >= Offset(q)
    BY <1>1, <1>2, <1>5 DEF UnseenBehind
  <2>2. ASSUME NEW x
        PROVE  Ahead(client, x, Matching(client))' = Ahead(q, x, Matching(q))
    BY <1>1, <2>1 DEF Ahead
  <2>. QED BY <1>1, <2>1, <2>2
<1>8. CountHolds' BY <1>1 DEF CountHolds
<1>9. ~ShowsPage BY <1>1 DEF ShowsPage, Answers
<1>. QED BY <1>3, <1>4, <1>6, <1>7, <1>8, <1>9 DEF Walks

\* The parameters of a page.
LEMMA ParsedParameter ==
    ASSUME NEW raw \in Int \cup {None}, NEW default \in Nat \ {0},
           NEW most, most = None \/ most \in Nat \ {0}
    PROVE  ParseInt(raw, default, 1, most) \in Nat \ {0}
BY ReadingAssumption DEF ParseInt

\* The first request of a walk.
LEMMA StartKeepsWalk ==
    ASSUME WalkInv, StartRead, UNCHANGED aVars PROVE Walks' /\ ~ShowsPage
PROOF
<1>0. PICK op \in Reads, by \in Readers \cap DOMAIN role :
         \E t \in Targets(op), page \in PageParams, size \in PerPageParams :
         LET r == [NoRead EXCEPT !.op = op, !.by = by, !.role = role[by],
                     !.g = t[1], !.m = t[2],
                     !.page = IF op \in Paged THEN ParseInt(page, 1, 1, None) ELSE 1,
                     !.size = IF op \in Paged
                              THEN ParseInt(size, DefaultPerPage, 1, MaxPerPage) ELSE 1]
         IN Ask([r EXCEPT !.whole = r.page = 1,
                          !.start = IF op \in Paged THEN Matching(r) ELSE {}])
  BY DEF StartRead
<1>1. PICK t \in Targets(op), page \in PageParams, size \in PerPageParams :
         LET r == [NoRead EXCEPT !.op = op, !.by = by, !.role = role[by],
                     !.g = t[1], !.m = t[2],
                     !.page = IF op \in Paged THEN ParseInt(page, 1, 1, None) ELSE 1,
                     !.size = IF op \in Paged
                              THEN ParseInt(size, DefaultPerPage, 1, MaxPerPage) ELSE 1]
         IN Ask([r EXCEPT !.whole = r.page = 1,
                          !.start = IF op \in Paged THEN Matching(r) ELSE {}])
  BY <1>0
<1> DEFINE first == IF op \in Paged THEN ParseInt(page, 1, 1, None) ELSE 1
           length == IF op \in Paged THEN ParseInt(size, DefaultPerPage, 1, MaxPerPage) ELSE 1
           r == [NoRead EXCEPT !.op = op, !.by = by, !.role = role[by],
                   !.g = t[1], !.m = t[2], !.page = first, !.size = length]
           q == [r EXCEPT !.whole = r.page = 1,
                          !.start = IF op \in Paged THEN Matching(r) ELSE {}]
<1>2. op \in Lists BY ReadingAssumption
<1>3. first \in Nat \ {0} /\ length \in Nat \ {0}
  <2>1. page \in Int \cup {None} /\ size \in Int \cup {None} BY ReadingAssumption
  <2>2. 1 \in Nat \ {0} /\ DefaultPerPage \in Nat \ {0} /\ MaxPerPage \in Nat \ {0}
    BY ReadingAssumption
  <2>3. ParseInt(page, 1, 1, None) \in Nat \ {0} BY <2>1, <2>2, ParsedParameter
  <2>4. ParseInt(size, DefaultPerPage, 1, MaxPerPage) \in Nat \ {0}
    BY <2>1, <2>2, ParsedParameter
  <2>. QED BY <2>2, <2>3, <2>4
<1> HIDE DEF first, length
<1>4. /\ DOMAIN r = Fields /\ r.op = op /\ r.page = first /\ r.size = length
      /\ r.seen = {} /\ r.twice = FALSE /\ r.moved = FALSE /\ r.left = FALSE
      /\ r.came = FALSE /\ r.tied = FALSE /\ r.late = FALSE
  BY DEF Fields, NoRead
<1>5. Ask(q) BY <1>1 DEF first, length
<1> HIDE DEF r
<1>6. /\ DOMAIN q = Fields /\ \A f \in Fields \ {"whole", "start"} : q[f] = r[f]
      /\ q.start = IF op \in Paged THEN Matching(r) ELSE {}
  BY <1>4 DEF Fields
<1>7. q.whole = (r.page = 1) BY <1>4, Zenon DEF Fields
<1>8. q.op = r.op /\ q.by = r.by /\ q.role = r.role /\ q.g = r.g /\ q.m = r.m
  BY <1>6 DEF Fields
<1> HIDE DEF q
<1>9. /\ q.op = op /\ q.page = first /\ q.size = length
      /\ q.seen = {} /\ q.twice = FALSE /\ q.moved = FALSE /\ q.left = FALSE
      /\ q.came = FALSE /\ q.tied = FALSE /\ q.late = FALSE
  BY <1>4, <1>6 DEF Fields
<1>10. Offset(q) \in Nat /\ (q.whole => Offset(q) = 0)
  <2>1. first - 1 \in Nat BY <1>3
  <2>2. (first - 1) * length \in Nat BY <1>3, <2>1
  <2>3. first = 1 => (first - 1) * length = 0 BY <1>3
  <2>. QED BY <1>4, <1>7, <1>9, <2>2, <2>3 DEF Offset
<1>11. op \in Paged => Matching(q) = Matching(r) BY <1>8 DEF Matching, Paged
<1>12. \E A \in SUBSET Matching(q) : /\ Prefix(q, A, Matching(q))
                                     /\ Cardinality(A) <= Offset(q)
                                     /\ q.seen \cap Matching(q) \subseteq A
  <2>1. Cardinality({}) = 0 BY FS_EmptySet
  <2>2. Prefix(q, {}, Matching(q)) BY DEF Prefix
  <2>. QED BY <1>9, <1>10, <2>1, <2>2
<1>13. op \in Paged /\ q.whole =>
         /\ q.start \subseteq Matching(q)
         /\ \A x \in q.start \ q.seen : Cardinality(Ahead(q, x, Matching(q))) >= Offset(q)
  <2>1. SUFFICES ASSUME op \in Paged, q.whole, NEW x \in Matching(q)
                 PROVE  Cardinality(Ahead(q, x, Matching(q))) >= 0
    BY <1>6, <1>10, <1>11
  <2>2. IsFiniteSet(Matching(q)) BY <1>9, <2>1, ListsAreFinite DEF WalkInv
  <2>3. Cardinality(Ahead(q, x, Matching(q))) \in Nat BY <2>1, <2>2, AheadIsFewer
  <2>. QED BY <2>3
<1>. QED BY <1>2, <1>3, <1>5, <1>6, <1>9, <1>12, <1>13, AskKeepsWalk

\* The next one: what the last page ended with is what this one begins after.
LEMMA NextPageKeepsWalk ==
    ASSUME WalkInv, NextPage, UNCHANGED aVars PROVE Walks' /\ ~ShowsPage
PROOF
<1> DEFINE q == [client EXCEPT !.page = @ + 1]
<1>0. DOMAIN client = Fields /\ Walked BY DEF WalkInv, ErrorInv, Errors
<1>1. /\ Ask(q) /\ client.op \in Paged /\ client.op \in Lists
      /\ client.pc = "answered" /\ client.status = 200
  BY DEF NextPage, More, Paged, Lists
<1>2. /\ DOMAIN q = Fields /\ q.page = client.page + 1
      /\ \A f \in Fields \ {"page"} : q[f] = client[f]
  BY <1>0 DEF Fields
<1> HIDE DEF q
<1>3. /\ q.op = client.op /\ q.by = client.by /\ q.role = client.role /\ q.g = client.g
      /\ q.size = client.size /\ q.whole = client.whole /\ q.start = client.start
      /\ q.seen = client.seen /\ q.twice = client.twice /\ q.moved = client.moved
      /\ q.left = client.left /\ q.came = client.came /\ q.tied = client.tied
      /\ q.late = client.late
  BY <1>2 DEF Fields
<1>4. Going BY <1>1 DEF Going
<1>5. Offset(q) = Passed
  <2>1. (client.page + 1) - 1 = client.page BY <1>0 DEF Walked
  <2>. QED BY <1>1, <1>2, <1>3, <2>1 DEF Offset, Passed
<1>6. Matching(q) = Matching(client) BY <1>1, <1>3 DEF Matching, Paged
<1>7. \A x, y : Before(q, x, y) <=> Before(client, x, y)
  BY <1>1, <1>3 DEF Before, Paged
<1>8. ~q.came /\ ~q.moved /\ ~q.tied =>
        \E A \in SUBSET Matching(q) : /\ Prefix(q, A, Matching(q))
                                      /\ Cardinality(A) <= Offset(q)
                                      /\ q.seen \cap Matching(q) \subseteq A
  <2>1. SUFFICES ASSUME ~q.came, ~q.moved, ~q.tied
                 PROVE  \E A \in SUBSET Matching(q) : /\ Prefix(q, A, Matching(q))
                                                      /\ Cardinality(A) <= Offset(q)
                                                      /\ q.seen \cap Matching(q) \subseteq A
    OBVIOUS
  <2>2. PICK A \in SUBSET Matching(client) :
           /\ Prefix(client, A, Matching(client)) /\ Cardinality(A) <= Passed
           /\ client.seen \cap Matching(client) \subseteq A
    BY <1>1, <1>3, <1>4, <2>1 DEF WalkInv, SeenInFront
  <2>3. Prefix(q, A, Matching(q)) BY <1>6, <1>7, <2>2 DEF Prefix
  <2>. QED BY <1>3, <1>5, <1>6, <2>2, <2>3
<1>9. q.whole /\ ~q.left /\ ~q.moved /\ ~q.tied =>
        /\ q.start \subseteq Matching(q)
        /\ \A x \in q.start \ q.seen : Cardinality(Ahead(q, x, Matching(q))) >= Offset(q)
  <2>1. ASSUME NEW x
        PROVE  Ahead(q, x, Matching(q)) = Ahead(client, x, Matching(client))
    BY <1>6, <1>7 DEF Ahead
  <2>. QED BY <1>1, <1>3, <1>4, <1>5, <1>6, <2>1 DEF WalkInv, UnseenBehind
<1>10. /\ q.page \in Nat \ {0} /\ q.size \in Nat \ {0}
       /\ {q.twice, q.moved, q.left, q.came, q.tied, q.late} \subseteq BOOLEAN
       /\ q.twice => q.op \in Paged /\ (q.came \/ q.moved \/ q.tied)
  BY <1>0, <1>2, <1>3 DEF Walked, WalkInv, RepeatsNothing
<1>. QED BY <1>1, <1>2, <1>3, <1>8, <1>9, <1>10, AskKeepsWalk

-----------------------------------------------------------------------------
(***************************************************************************)
(* The theorems.                                                           *)
(***************************************************************************)
\* A step that reads, and the one that answers a page.
LEMMA ReadKeepsWalk ==
    ASSUME WalkInv, ReadStep, UNCHANGED aVars
    PROVE  Walks' /\ (ShowsPage => Slice /\ client.op \in Paged)
PROOF
<1>0. DOMAIN client = Fields /\ Walked /\ Errors BY DEF WalkInv, ErrorInv, Errors
<1>1. CASE StartRead BY <1>1, StartKeepsWalk
<1>2. CASE NextPage BY <1>2, NextPageKeepsWalk
<1>3. ASSUME client.pc \notin {"idle", "answered"}, NEW code, code # 200,
             Respond(client, code)
      PROVE  Walks' /\ ~ShowsPage
  <2>1. /\ DOMAIN client' = Fields /\ client'.pc = "answered" /\ client'.status = code
        /\ \A f \in Fields \ {"pc", "status"} : client'[f] = client[f]
    BY <1>0, <1>3 DEF Respond, Fields
  <2>2. /\ \A f \in OfWalk : client'[f] = client[f]
        /\ client'.g = client.g /\ client'.late = client.late
    BY <2>1 DEF OfWalk, Fields
  <2>3. ~ShowsPage BY <1>3, <2>1 DEF ShowsPage
  <2>. QED BY <1>0, <1>3, <2>1, <2>2, <2>3, StatementKeepsWalk DEF Walked
<1>4. ASSUME client.pc \notin {"idle", "answered"}, NEW pc,
             pc \notin {"idle", "answered"}, client.op \in Paged => pc # "slice",
             client' = [client EXCEPT !.pc = pc]
      PROVE  Walks' /\ ~ShowsPage
  <2>1. /\ DOMAIN client' = Fields /\ client'.pc = pc
        /\ \A f \in Fields \ {"pc"} : client'[f] = client[f]
    BY <1>0, <1>4 DEF Fields
  <2>2. /\ \A f \in OfWalk : client'[f] = client[f]
        /\ client'.g = client.g /\ client'.late = client.late
    BY <2>1 DEF OfWalk, Fields
  <2>3. ~ShowsPage BY <1>4, <2>1 DEF ShowsPage, Answers
  <2>. QED BY <1>0, <1>4, <2>1, <2>2, <2>3, StatementKeepsWalk DEF Walked
<1>5. ASSUME client.pc \notin {"idle", "answered"}, client' = List(client)
      PROVE  Walks' /\ ~ShowsPage
  <2>1. PICK pc : /\ pc = IF client.op \in Paged THEN "count" ELSE "slice"
                  /\ client' = [client EXCEPT !.pc = pc]
    BY <1>5 DEF List
  <2>. QED BY <1>4, <1>5, <2>1
<1>6. CASE ReadGroup BY <1>3, <1>4, <1>5, <1>6 DEF ReadGroup
<1>7. CASE ReadMeeting
  <2>1. client.pc = "get_meeting" /\ client.op = "GetEntries"
    BY <1>0, <1>7 DEF ReadMeeting, Errors
  <2>2. CASE client.m \notin DOMAIN meetings BY <1>3, <1>7, <2>1, <2>2 DEF ReadMeeting
  <2>3. CASE client.m \in DOMAIN meetings
    <3>1. client' = [client EXCEPT !.g = meetings[client.m].group, !.pc = "meeting_group"]
      BY <1>7, <2>3 DEF ReadMeeting
    <3>2. /\ DOMAIN client' = Fields /\ client'.pc = "meeting_group"
          /\ \A f \in Fields \ {"g", "pc"} : client'[f] = client[f]
      BY <1>0, <3>1 DEF Fields
    <3>3. /\ \A f \in OfWalk : client'[f] = client[f]
          /\ client'.late = client.late
      BY <3>2 DEF OfWalk, Fields
    <3>4. ~ShowsPage BY <3>2 DEF ShowsPage, Answers
    <3>. QED BY <1>0, <2>1, <3>2, <3>3, <3>4, StatementKeepsWalk DEF Walked, Paged
  <2>. QED BY <2>2, <2>3
<1>8. CASE ReadMeetingGroup BY <1>3, <1>4, <1>5, <1>8 DEF ReadMeetingGroup
<1>9. CASE HasAccess BY <1>3, <1>5, <1>9 DEF HasAccess
<1>10. CASE Count
  <2>1. /\ client.pc = "count"
        /\ client' = [client EXCEPT !.total = Cardinality(Matching(client)), !.late = FALSE,
                                    !.pc = "slice"]
    BY <1>10 DEF Count
  <2>2. /\ DOMAIN client' = Fields /\ client'.pc = "slice" /\ client'.late = FALSE
        /\ client'.total = Cardinality(Matching(client))
        /\ \A f \in Fields \ {"total", "late", "pc"} : client'[f] = client[f]
    BY <1>0, <2>1 DEF Fields
  <2>3. \A f \in OfWalk : client'[f] = client[f] /\ client'.g = client.g
    BY <2>2 DEF OfWalk, Fields
  <2>4. ~ShowsPage BY <2>2 DEF ShowsPage, Answers
  <2>5. \A f \in OfWalk : client'[f] = client[f] BY <2>3
  <2>6. "op" \in OfWalk BY DEF OfWalk
  <2>7. Walks' BY <2>1, <2>2, <2>3, <2>5, <2>6, StatementKeepsWalk
  <2>. QED BY <2>4, <2>7
<1>11. CASE Slice
  <2>1. client.pc = "slice" BY <1>11 DEF Slice
  <2>2. CASE client.op \in Paged /\ Offset(client) > MaxOffset
    BY <1>3, <1>11, <2>1, <2>2 DEF Slice
  <2>3. CASE client.op \in Paged /\ ~(Offset(client) > MaxOffset)
    <3>1. client'.status = 200
      <4>1. PICK q : DOMAIN q = Fields /\ Respond(q, 200)
        <5>1. PICK rows \in Slices(client, Matching(client)) :
                Respond([client EXCEPT !.rows = rows, !.seen = @ \cup rows,
                           !.twice = @ \/ rows \cap client.seen # {},
                           !.tied = @ \/ Ties(client, Matching(client))], 200)
          BY <1>11, <2>3 DEF Slice
        <5>. QED BY <1>0, <5>1
      <4>. QED BY <4>1 DEF Respond, Fields
    <3>. QED BY <1>11, <2>3, <3>1, PageKeepsWalk
  <2>4. CASE client.op \notin Paged
    <3> DEFINE q == [client EXCEPT !.rows = Matching(client)]
    <3>1. Respond(q, 200) BY <1>11, <2>4 DEF Slice
    <3>2. DOMAIN q = Fields /\ \A f \in Fields \ {"rows"} : q[f] = client[f]
      BY <1>0 DEF Fields
    <3> HIDE DEF q
    <3>3. /\ DOMAIN client' = Fields /\ client'.pc = "answered"
          /\ \A f \in Fields \ {"pc", "status", "rows"} : client'[f] = client[f]
      BY <3>1, <3>2 DEF Respond, Fields
    <3>4. \A f \in OfWalk : client'[f] = client[f] /\ client'.late = client.late
      BY <3>3 DEF OfWalk, Fields
    <3>5. ~ShowsPage BY <2>4, <3>4 DEF ShowsPage, OfWalk
    <3>. QED BY <1>0, <2>1, <2>4, <3>3, <3>4, <3>5, StatementKeepsWalk DEF Walked, OfWalk
  <2>. QED BY <2>2, <2>3, <2>4
<1>. QED BY <1>1, <1>2, <1>6, <1>7, <1>8, <1>9, <1>10, <1>11 DEF ReadStep

LEMMA WalkInit == RInit => WalkInv
PROOF
<1> SUFFICES ASSUME RInit PROVE WalkInv OBVIOUS
<1>1. /\ role = SeedRole /\ name = SeedName /\ meetings = SeedMeetings
      /\ deleted = {} /\ client = NoRead
  BY DEF RInit, aInit, RowsInit
<1>2. MeetingsInv BY <1>1, SeedAssumption DEF MeetingsInv, Ever, IsTable
<1>3. Errors BY <1>1 DEF Errors, ReadErrorsExplained, NoRead, Fields
<1>4. RowsInv BY <1>1, SeedAssumption, ReadingAssumption DEF RowsInv, IsTable
<1>5. /\ client.pc = "idle" /\ client.op = "none" /\ client.page = 1 /\ client.size = 1
      /\ client.twice = FALSE /\ client.moved = FALSE /\ client.left = FALSE
      /\ client.came = FALSE /\ client.tied = FALSE /\ client.late = FALSE
  BY <1>1 DEF NoRead
<1>6. Walked
  <2>1. 1 \in Nat \ {0} OBVIOUS
  <2>. QED BY <1>5, <2>1 DEF Walked
<1>7. SeenInFront /\ RepeatsNothing /\ UnseenBehind /\ CountHolds
  BY <1>5 DEF SeenInFront, RepeatsNothing, UnseenBehind, CountHolds, Going
<1>. QED BY <1>2, <1>3, <1>4, <1>6, <1>7 DEF WalkInv, ErrorInv

LEMMA WalkNext == WalkInv /\ [RNext]_rvars => WalkInv'
PROOF
<1> SUFFICES ASSUME WalkInv, [RNext]_rvars PROVE WalkInv' OBVIOUS
<1>1. ErrorInv' BY ErrorNext DEF WalkInv
<1>2. CASE UNCHANGED rvars
  <2>1. RowsInv' BY <1>2 DEF rvars, aVars, db, WalkInv, RowsInv
  <2>2. client' = client BY <1>2 DEF rvars
  <2>3. Walked' /\ RepeatsNothing' BY <2>2 DEF WalkInv, Walked, RepeatsNothing
  <2>4. Matching(client)' = Matching(client)
    BY <1>2 DEF rvars, aVars, db, Matching, MeetingsOf
  <2>5. \A x, y : Before(client, x, y)' <=> Before(client, x, y)
    BY <1>2 DEF rvars, aVars, db, Before
  <2>6. (Going' <=> Going) /\ Passed' = Passed BY <2>2 DEF Going, Passed, Offset
  <2>7. ASSUME NEW A
        PROVE  Prefix(client, A, Matching(client))' <=> Prefix(client, A, Matching(client))
    BY <2>4, <2>5 DEF Prefix
  <2>8. ASSUME NEW x
        PROVE  Ahead(client, x, Matching(client))' = Ahead(client, x, Matching(client))
    BY <2>4, <2>5 DEF Ahead
  <2>9. SeenInFront' BY <2>2, <2>4, <2>6, <2>7 DEF WalkInv, SeenInFront
  <2>10. UnseenBehind' BY <2>2, <2>4, <2>6, <2>8 DEF WalkInv, UnseenBehind
  <2>11. CountHolds' BY <2>2, <2>4 DEF WalkInv, CountHolds
  <2>. QED BY <1>1, <2>1, <2>3, <2>9, <2>10, <2>11 DEF WalkInv
<1>3. CASE (Commit \/ Administer) /\ Observed
  <2>1. RowsInv' BY <1>3, CommitKeepsRows DEF WalkInv
  <2>2. Walked' /\ SeenInFront' /\ RepeatsNothing' /\ UnseenBehind' /\ CountHolds'
    BY <1>3, <2>1, CommitKeepsWalk
  <2>. QED BY <1>1, <2>1, <2>2 DEF WalkInv
<1>4. CASE ReadStep /\ UNCHANGED aVars
  <2>1. RowsInv' BY <1>4 DEF aVars, db, WalkInv, RowsInv
  <2>2. Walks' BY <1>4, ReadKeepsWalk
  <2>. QED BY <1>1, <2>1, <2>2 DEF WalkInv, Walks
<1>. QED BY <1>2, <1>3, <1>4 DEF RNext

\* Whatever the walk has shown is in front of the list, and what it has not
\* shown is behind as many rows as it has asked for.
THEOREM WalkInvariant == RSpec => []WalkInv
BY WalkInit, WalkNext, PTL DEF RSpec

\* No row is on two pages of a walk, unless rows came into the list or changed
\* places or were groups that tie.
THEOREM WalksRepeatNothing == RSpec => WalkRepeatsNothing
PROOF
<1>1. WalkInv' => (Answers /\ client'.twice => client'.came \/ client'.moved \/ client'.tied)
  BY DEF WalkInv, RepeatsNothing
<1>. QED BY <1>1, WalkInvariant, PTL DEF WalkRepeatsNothing, RSpec

\* The last page of a walk from the first on: all there is was asked for.
LEMMA LastPage ==
    ASSUME WalkInv, WalkInv', [RNext]_rvars, WalkEnds, client'.whole,
           ~client'.left, ~client'.moved, ~client'.tied, ~client'.late
    PROVE  client'.start \subseteq client'.seen
PROOF
<1>0. DOMAIN client = Fields /\ Walked BY DEF WalkInv, ErrorInv, Errors
<1>1. ShowsPage /\ ~(client'.page * client'.size < client'.total)
  BY DEF WalkEnds, ShowsPage, Answers, More
<1>2. Slice /\ client.op \in Paged /\ UNCHANGED aVars
  <2>1. CASE UNCHANGED rvars BY <1>1, <2>1 DEF rvars, ShowsPage, Answers
  <2>2. CASE Observed
    <3>1. \A f \in Fields \ {"left", "came", "moved", "late", "was"} :
             client'[f] = client[f]
      BY <1>0, <2>2, HistoryNotes
    <3>. QED BY <1>1, <3>1 DEF ShowsPage, Answers, Fields
  <2>3. CASE ReadStep /\ UNCHANGED aVars BY <1>1, <2>3, ReadKeepsWalk
  <2>. QED BY <2>1, <2>2, <2>3 DEF RNext
<1>3. /\ \A f \in OfWalk \ {"seen", "twice", "tied"} : client'[f] = client[f]
      /\ client'.g = client.g
      /\ client'.late = client.late /\ client'.total = client.total
  BY <1>1, <1>2, PageOfRows DEF ShowsPage
<1>4. Matching(client)' = Matching(client)
  BY <1>2, <1>3 DEF OfWalk, Matching, MeetingsOf, Paged, aVars, db
<1>5. client'.total = Cardinality(Matching(client)')
  BY <1>2, <1>3, <1>4 DEF Slice, WalkInv, CountHolds
<1>6. /\ client'.start \subseteq Matching(client)'
      /\ \A x \in client'.start \ client'.seen :
            Cardinality(Ahead(client, x, Matching(client)))' >= client'.page * client'.size
  BY <1>1 DEF WalkInv, UnseenBehind, Going, Passed, ShowsPage, Answers
<1>7. SUFFICES ASSUME NEW x \in client'.start \ client'.seen PROVE FALSE
  OBVIOUS
<1>8. PICK S : S = Matching(client)' OBVIOUS
<1>9. IsFiniteSet(S) BY <1>2, <1>4, <1>8, ListsAreFinite DEF WalkInv
<1>10. PICK B : B = Ahead(client, x, Matching(client))' OBVIOUS
<1>11. B \in SUBSET (S \ {x}) BY <1>8, <1>10 DEF Ahead
<1>12. x \in S BY <1>6, <1>7, <1>8
<1>13. IsFiniteSet(S \ {x}) /\ Cardinality(S \ {x}) = Cardinality(S) - 1
  BY <1>9, <1>12, FS_RemoveElement
<1>14. IsFiniteSet(B) /\ Cardinality(B) <= Cardinality(S \ {x})
  BY <1>11, <1>13, FS_Subset
<1>15. Cardinality(B) \in Nat /\ Cardinality(S) \in Nat
  BY <1>9, <1>14, FS_CardinalityType
<1>16. PICK n \in Nat : n = client'.page * client'.size
  <2>1. client'.page \in Nat /\ client'.size \in Nat BY DEF WalkInv, Walked
  <2>. QED BY <2>1
<1>17. n >= Cardinality(S) BY <1>1, <1>5, <1>8, <1>15, <1>16
<1>18. Cardinality(B) >= n BY <1>6, <1>10, <1>16
<1>. QED BY <1>13, <1>14, <1>15, <1>16, <1>17, <1>18

\* A walk from the first page on meets every row that was in the list when it
\* began, unless rows left or changed places or were groups that tie, or the list
\* changed between the last COUNT and its SELECT.
THEOREM WalksMissNothing == RSpec => WalkMissesNothing
PROOF
<1>1. WalkInv /\ WalkInv' /\ [RNext]_rvars =>
        (WalkEnds /\ client'.whole =>
           \/ client'.start \subseteq client'.seen
           \/ client'.left \/ client'.moved \/ client'.tied \/ client'.late)
  BY LastPage
<1>. QED BY <1>1, WalkInvariant, PTL DEF WalkMissesNothing, RSpec
=============================================================================
