------------------------------- MODULE Reading -------------------------------
(***************************************************************************)
(* The endpoints that read, statement by statement: one client, and the    *)
(* worker that serves it, beside everything the other workers commit.  A   *)
(* statement sees what is committed, so of the requests that write only    *)
(* the steps of Standup matter here; and a read changes no table, so one   *)
(* client sees what any number would.                                      *)
(*                                                                         *)
(* The three lists that are paged answer a page and a total.  The client   *)
(* asks for page after page until it has asked for total rows: a walk.     *)
(* Every page is a request of its own, and COUNT and SELECT are two        *)
(* statements of it.                                                       *)
(***************************************************************************)
EXTENDS Standup

CONSTANTS
    Rank,               \* users by username, meetings by id: the order of the text
    CreatedAt,          \* groups_group.created_at, which a group keeps
    DefaultPerPage, MaxPerPage,
    MaxOffset,          \* the largest bigint
    Reads, Readers,     \* bounds: the lists read, and by whom
    PageParams, PerPageParams,  \* bounds: the query parameters, None when absent or no number
    Writes,             \* bound: the kinds of commit beside the reading of each list
    RolesOf             \* bound: the roles the administrator gives each user

VARIABLE client

rvars == <<aVars, client>>

Lists == {"GetGroups", "GetMembers", "GetMeetings", "GetEntries", "GetUsers"}
Paged == {"GetGroups", "GetMeetings", "GetUsers"}

ASSUME ReadingAssumption ==
    /\ Rank \in [User \cup Meeting -> Nat]
    /\ \A S \in {User, Meeting} : \A x, y \in S : Rank[x] = Rank[y] => x = y
    /\ CreatedAt \in [Group -> Nat]
    /\ {DefaultPerPage, MaxPerPage} \subseteq Nat \ {0} /\ MaxOffset \in Nat
    /\ Reads \subseteq Lists /\ Readers \subseteq User
    /\ PageParams \cup PerPageParams \subseteq Int \cup {None} /\ None \notin Int
    /\ DOMAIN Writes = Lists /\ RolesOf \in [User -> SUBSET Roles]
    /\ \A table \in {SeedRole, SeedName, SeedMeetings} : IsFiniteSet(DOMAIN table)

\* The request and the walk it belongs to.  The fields after rows are history.
NoRead ==
    [pc |-> "idle", op |-> "none", by |-> None, role |-> "GUEST", g |-> None, m |-> None,
     page |-> 1, size |-> 1, total |-> 0, rows |-> {}, status |-> 0,
     whole |-> FALSE,   \* the walk began at the first page
     start |-> {},      \* the list when the walk began
     seen |-> {},       \* rows of the pages so far
     twice |-> FALSE,   \* a row was on two pages
     moved |-> FALSE,   \* since the walk began two rows changed places,
     left |-> FALSE,    \* a row left the list,
     came |-> FALSE,    \* a row came into it
     tied |-> FALSE,    \* a page was cut from a list of groups some of which tied
     late |-> FALSE,    \* the list changed since COUNT
     was |-> {}]        \* groups the caller was in at some time of the request

-----------------------------------------------------------------------------
(***************************************************************************)
(* Query parameters, and what the queries select.                          *)
(***************************************************************************)
\* _parse_int_param; most is None where the parameter has no maximum.
ParseInt(raw, default, least, most) ==
    LET value == IF raw < least THEN least ELSE raw
    IN IF raw = None THEN default
       ELSE IF most # None /\ value > most THEN most ELSE value

\* The WHERE clauses.
Matching(q) ==
    CASE q.op = "GetGroups" ->
           {g \in DOMAIN name : q.role = "MANAGER" \/ <<q.by, g>> \in members}
      [] q.op = "GetMembers" -> {u \in DOMAIN role : <<u, q.g>> \in members}
      [] q.op = "GetMeetings" -> MeetingsOf(q.g)
      [] q.op = "GetEntries" -> {u \in DOMAIN role : <<q.m, u>> \in DOMAIN entries}
      [] q.op = "GetUsers" -> DOMAIN role
      [] q.op = "none" -> {}

\* Defective variant: meetings of one day in any order.
BeforeByDate(q, x, y) == q.op = "GetMeetings" /\ meetings[x].date > meetings[y].date

\* The ORDER BY clauses of the lists that are paged.
Before(q, x, y) ==
    CASE q.op = "GetGroups" ->
           LET pinned(g) == <<q.by, g>> \in pins
           IN \/ pinned(x) /\ ~pinned(y)
              \/ pinned(x) = pinned(y) /\ CreatedAt[x] > CreatedAt[y]
      [] q.op = "GetMeetings" ->
           \/ meetings[x].date > meetings[y].date
           \/ meetings[x].date = meetings[y].date /\ Rank[x] > Rank[y]
      [] OTHER -> Rank[x] < Rank[y]

\* Groups that were created in one microsecond tie.
Ties(q, S) ==
    q.op = "GetGroups" /\ \E x, y \in S : x # y /\ ~Before(q, x, y) /\ ~Before(q, y, x)

\* Rows that tie come in any order: the first n may be any set of n rows
\* that has with a row also those before it.
Least(a, b) == IF a < b THEN a ELSE b
First(q, S, n) ==
    {A \in SUBSET S : /\ Cardinality(A) = Least(n, Cardinality(S))
                      /\ \A x \in S, y \in A : Before(q, x, y) => x \in A}

\* Defective variant: pages counted from 0.
OffsetFromZero(q) == q.page * q.size
Offset(q) == (q.page - 1) * q.size

\* qs[offset : offset + per_page]
Slices(q, S) ==
    {p[2] \ p[1] : p \in {x \in First(q, S, Offset(q)) \X First(q, S, Offset(q) + q.size) :
                             x[1] \subseteq x[2]}}

-----------------------------------------------------------------------------
(***************************************************************************)
(* A request.                                                              *)
(***************************************************************************)
Respond(q, code) == client' = [q EXCEPT !.pc = "answered", !.status = code]

FirstStatement(op) ==
    CASE op \in {"GetGroups", "GetUsers"} -> "count"
      [] op \in {"GetMembers", "GetMeetings"} -> "get_group"
      [] op = "GetEntries" -> "get_meeting"

GroupsOf(u) == {p[2] : p \in {x \in members : x[1] = u}}

\* Authentication reads the caller's row.  The use cases refuse the directory
\* of users to whom is no MANAGER before they read anything.
Ask(q) ==
    LET r == [q EXCEPT !.role = role[q.by], !.total = 0, !.rows = {}, !.status = 0,
                       !.was = GroupsOf(q.by)]
        changed == Matching(r) # Matching(q)    \* by another role
        s == [r EXCEPT !.left = @ \/ changed, !.came = @ \/ changed]
    IN IF s.op = "GetUsers" /\ s.role # "MANAGER" THEN Respond(s, 403)
       ELSE client' = [s EXCEPT !.pc = FirstStatement(q.op)]

Targets(op) ==
    CASE op \in {"GetMembers", "GetMeetings"} ->
           (Known(DOMAIN name) \cap Group) \X {None}
      [] op = "GetEntries" -> {None} \X (Known(DOMAIN meetings) \cap Meeting)
      [] OTHER -> {<<None, None>>}

StartRead ==
    /\ client.pc = "idle"
    /\ \E op \in Reads, by \in Readers \cap DOMAIN role :
       \E t \in Targets(op), page \in PageParams, size \in PerPageParams :
          LET r == [NoRead EXCEPT !.op = op, !.by = by, !.role = role[by],
                      !.g = t[1], !.m = t[2],
                      !.page = IF op \in Paged THEN ParseInt(page, 1, 1, None) ELSE 1,
                      !.size = IF op \in Paged
                               THEN ParseInt(size, DefaultPerPage, 1, MaxPerPage) ELSE 1]
          IN Ask([r EXCEPT !.whole = r.page = 1,
                           !.start = IF op \in Paged THEN Matching(r) ELSE {}])

\* What follows the check of access.
List(q) == [q EXCEPT !.pc = IF q.op \in Paged THEN "count" ELSE "slice"]

ReadGroup ==
    /\ client.pc = "get_group"
    /\ IF client.g \notin DOMAIN name THEN Respond(client, 404)
       ELSE client' = IF client.role = "MANAGER" THEN List(client)
                      ELSE [client EXCEPT !.pc = "has_access"]

\* Defective variant: Meeting.DoesNotExist is not caught.
ReadMeetingUncaught ==
    /\ client.pc = "get_meeting"
    /\ IF client.m \notin DOMAIN meetings THEN Respond(client, 500)
       ELSE client' = [client EXCEPT !.g = meetings[client.m].group, !.pc = "meeting_group"]

ReadMeeting ==
    /\ client.pc = "get_meeting"
    /\ IF client.m \notin DOMAIN meetings THEN Respond(client, 404)
       ELSE client' = [client EXCEPT !.g = meetings[client.m].group, !.pc = "meeting_group"]

\* meeting.group is a SELECT of its own, in no try block.
ReadMeetingGroup ==
    /\ client.pc = "meeting_group"
    /\ IF client.g \notin DOMAIN name THEN Respond(client, 500)
       ELSE client' = IF client.role = "MANAGER" THEN List(client)
                      ELSE [client EXCEPT !.pc = "has_access"]

\* Defective variant: the membership of any group will do.
HasAccessAnywhere ==
    /\ client.pc = "has_access"
    /\ IF \E p \in members : p[1] = client.by THEN client' = List(client)
       ELSE Respond(client, 403)

HasAccess ==
    /\ client.pc = "has_access"
    /\ IF <<client.by, client.g>> \in members THEN client' = List(client)
       ELSE Respond(client, 403)

Count ==
    /\ client.pc = "count"
    /\ client' = [client EXCEPT !.total = Cardinality(Matching(client)), !.late = FALSE,
                                !.pc = "slice"]

\* Postgres refuses an OFFSET that is no bigint.
Slice ==
    /\ client.pc = "slice"
    /\ IF client.op \notin Paged
       THEN Respond([client EXCEPT !.rows = Matching(client)], 200)
       ELSE IF Offset(client) > MaxOffset THEN Respond(client, 500)
       ELSE \E rows \in Slices(client, Matching(client)) :
               Respond([client EXCEPT !.rows = rows, !.seen = @ \cup rows,
                                      !.twice = @ \/ rows \cap client.seen # {},
                                      !.tied = @ \/ Ties(client, Matching(client))], 200)

More(q) == q.op \in Paged /\ q.status = 200 /\ q.page * q.size < q.total

\* The next page; a caller who was deleted is not authenticated.
NextPage ==
    /\ client.pc = "answered" /\ More(client)
    /\ client.by \in DOMAIN role
    /\ Ask([client EXCEPT !.page = @ + 1])

ReadStep ==
    \/ StartRead \/ ReadGroup \/ ReadMeeting \/ ReadMeetingGroup \/ HasAccess
    \/ Count \/ Slice \/ NextPage

-----------------------------------------------------------------------------
(***************************************************************************)
(* What is committed meanwhile.  The texts of entries are left out: no     *)
(* list and no check of access reads them.                                 *)
(***************************************************************************)
\* A bound: one walk, and commits only while it lasts.
Walking == client.pc # "idle" /\ (client.pc = "answered" => More(client))
Writing(kind) == Walking /\ kind \in Writes[client.op]

\* Bounds: in the list of groups the client finds only its own memberships and
\* pins, and in that of meetings it does not find the completed flag.
Relevant ==
    /\ client.op = "GetGroups" =>
          {p \in Pair : (p \in members) # (p \in members') \/ (p \in pins) # (p \in pins')}
              \subseteq {client.by} \X Group
    /\ client.op = "GetMeetings" =>
          \A m \in DOMAIN meetings : meetings'[m].completed = meetings[m].completed

Commit ==
    /\ \/ Writing("NewGroup") /\ \E n \in Name : NewGroup(n)
       \/ Writing("DropGroup") /\ \E g \in Group : DropGroup(g)
       \/ Writing("Pin") /\ (\E u \in User, g \in Group : Pin(u, g)) /\ Relevant
       \/ Writing("Join") /\ (\E u \in User, g \in Group : Join(u, g)) /\ Relevant
       \/ Writing("Leave") /\ (\E u \in User, g \in Group : Leave(u, g)) /\ Relevant
       \/ Writing("Convene") /\ \E g \in Group, d \in Date : Convene(g, d)
       \/ Writing("Reschedule")
             /\ (\E m \in Meeting, body \in MeetingBody : Reschedule(m, body)) /\ Relevant
       \/ Writing("DropMeeting") /\ \E m \in Meeting : DropMeeting(m)
    /\ UNCHANGED reply

Administer ==
    \/ Writing("ChangeRole") /\ ChangeRole /\ \A u \in DOMAIN role : role'[u] \in RolesOf[u]
    \/ Writing("DropUser") /\ DropUser

\* What the client's history notes of a commit.
Observed ==
    \E q \in {client} :
        LET S == Matching(q)
            gone == ~(S \subseteq Matching(q)')
            new == ~(Matching(q)' \subseteq S)
            swap == \E x, y \in S \cap Matching(q)' : Before(q, x, y) # Before(q, x, y)'
            walk == q.op \in Paged
        IN client' = [q EXCEPT
              !.left = @ \/ (walk /\ gone), !.came = @ \/ (walk /\ new),
              !.moved = @ \/ (walk /\ swap),
              !.late = @ \/ (walk /\ q.pc = "slice" /\ (gone \/ new)),
              !.was = @ \cup GroupsOf(q.by)']

RInit == aInit /\ client = NoRead
RNext ==
    \/ (Commit \/ Administer) /\ Observed
    \/ ReadStep /\ UNCHANGED aVars
RSpec == RInit /\ [][RNext]_rvars

-----------------------------------------------------------------------------
Answers == client.pc # "answered" /\ client'.pc = "answered"
WalkEnds ==
    /\ Answers /\ client'.status = 200 /\ client'.op \in Paged /\ ~More(client')

\* A walk from the first page on meets every row that was in the list when it
\* began, unless rows left or changed places or were groups that tie, or the
\* list changed between the COUNT that made the client stop and its SELECT: rows
\* that come in front only push the others to later pages.
WalkMissesNothing ==
    [][WalkEnds /\ client'.whole =>
          \/ client'.start \subseteq client'.seen
          \/ client'.left \/ client'.moved \/ client'.tied \/ client'.late]_rvars

\* No row is on two pages of a walk, unless rows came or changed places or were
\* groups that tie: a row that leaves only pulls the others to earlier pages.
WalkRepeatsNothing ==
    [][Answers /\ client'.twice =>
          client'.came \/ client'.moved \/ client'.tied]_rvars

\* Whoever is no MANAGER is shown rows of a group only if they were a member of
\* it at some time during the request, and never the directory of users, also
\* when memberships and groups come and go between the check and the SELECT.
ReadersBelong ==
    client.status = 200 /\ client.role # "MANAGER" =>
        CASE client.op = "GetUsers" -> FALSE
          [] client.op = "GetGroups" -> client.rows \subseteq client.was
          [] OTHER -> client.g \in client.was

\* A read fails only for a group that was deleted after its meeting was read,
\* and for a page beyond the largest OFFSET.
ReadErrorsExplained ==
    client.status = 500 =>
        \/ client.op = "GetEntries" /\ client.g \in deleted
        \/ client.op \in Paged /\ Offset(client) > MaxOffset
=============================================================================
