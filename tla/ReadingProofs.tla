---------------------------- MODULE ReadingProofs ----------------------------
(***************************************************************************)
(* Whoever is no MANAGER reads what their memberships let them read, and   *)
(* a read fails only for known reasons, for every instance of Reading and  *)
(* whatever is committed between two statements of a request.              *)
(***************************************************************************)
EXTENDS Reading, TLAPS

\* The fields of NoRead, and of every request.
Fields == {"pc", "op", "by", "role", "g", "m", "page", "size", "total", "rows", "status",
           "whole", "start", "seen", "twice", "moved", "left", "came", "tied", "late", "was"}

\* The request is a record, and its history knows the caller's groups.
WasCovers ==
    /\ DOMAIN client = Fields
    /\ client.pc # "idle" => GroupsOf(client.by) \subseteq client.was

\* What the check of access has established: it is remembered, not rechecked.
Checked ==
    client.pc \in {"count", "slice"} /\ client.role # "MANAGER" =>
        \/ client.op = "GetGroups"
        \/ client.op \in {"GetMembers", "GetMeetings", "GetEntries"} /\ client.g \in client.was

\* Only an answered request has a status, and each statement its lists.
Protocol ==
    /\ client.pc # "answered" => client.status # 200
    /\ client.pc = "get_group" => client.op \in {"GetMembers", "GetMeetings"}
    /\ client.pc \in {"get_meeting", "meeting_group"} => client.op = "GetEntries"
    /\ client.pc = "has_access" => client.op \in {"GetMembers", "GetMeetings", "GetEntries"}

AccessInv == WasCovers /\ Checked /\ Protocol /\ ReadersBelong

-----------------------------------------------------------------------------
\* A member's group is among theirs, and only those.
LEMMA GroupsOfMember ==
    ASSUME NEW u, NEW g PROVE <<u, g>> \in members => g \in GroupsOf(u)
BY DEF GroupsOf

\* A page holds rows the query selects.
LEMMA SliceMatches ==
    ASSUME NEW q, NEW S, NEW rows \in Slices(q, S) PROVE rows \subseteq S
BY DEF Slices, First

\* The list of groups of whoever is no MANAGER shows their own.
LEMMA ListedGroupsAreTheirs ==
    ASSUME NEW q, q.op = "GetGroups", q.role # "MANAGER"
    PROVE  Matching(q) \subseteq GroupsOf(q.by)
BY GroupsOfMember DEF Matching

\* A request that begins has the caller's groups in its history.
LEMMA AskKeeps ==
    ASSUME NEW q, DOMAIN q = Fields, q.op \in Lists, Ask(q),
           members' = members
    PROVE  AccessInv'
PROOF
<1> DEFINE r == [q EXCEPT !.role = role[q.by], !.total = 0, !.rows = {}, !.status = 0,
                          !.was = GroupsOf(q.by)]
           changed == Matching(r) # Matching(q)
           s == [r EXCEPT !.left = @ \/ changed, !.came = @ \/ changed]
<1>1. /\ DOMAIN s = Fields /\ s.op = q.op /\ s.by = q.by
      /\ s.was = GroupsOf(q.by) /\ s.status = 0 /\ s.rows = {}
      BY DEF Fields, NoRead
<1>2. GroupsOf(q.by)' = GroupsOf(q.by)
      BY DEF GroupsOf
<1> HIDE DEF s
<1>3. CASE s.op = "GetUsers" /\ s.role # "MANAGER"
      <2>1. client' = [s EXCEPT !.pc = "answered", !.status = 403]
            BY <1>3 DEF Ask, Respond, s
      <2>2. /\ DOMAIN client' = Fields /\ client'.pc = "answered"
            /\ client'.status = 403 /\ client'.was = s.was /\ client'.by = s.by
            BY <1>1, <2>1 DEF Fields, NoRead
      <2>3. QED
            BY <1>1, <1>2, <2>2 DEF AccessInv, WasCovers, Checked, Protocol, ReadersBelong
<1>4. CASE ~(s.op = "GetUsers" /\ s.role # "MANAGER")
      <2>1. client' = [s EXCEPT !.pc = FirstStatement(q.op)]
            BY <1>4 DEF Ask, s
      <2>2. /\ DOMAIN client' = Fields /\ client'.pc = FirstStatement(q.op)
            /\ client'.status = 0 /\ client'.was = s.was /\ client'.by = s.by
            /\ client'.op = q.op /\ client'.role = s.role
            BY <1>1, <2>1 DEF Fields, NoRead
      <2>3. /\ q.op \in {"GetGroups", "GetUsers"} => client'.pc = "count"
            /\ q.op \in {"GetMembers", "GetMeetings"} => client'.pc = "get_group"
            /\ q.op = "GetEntries" => client'.pc = "get_meeting"
            BY <2>2 DEF FirstStatement
      <2>4. WasCovers'
            BY <1>1, <1>2, <2>2 DEF WasCovers
      <2>5. Checked'
            BY <1>1, <1>4, <2>2, <2>3 DEF Checked, Lists
      <2>6. Protocol' /\ ReadersBelong'
            BY <2>2, <2>3 DEF Protocol, ReadersBelong, Lists
      <2>7. QED
            BY <2>4, <2>5, <2>6 DEF AccessInv
<1>5. QED
      BY <1>3, <1>4

-----------------------------------------------------------------------------
\* A commit leaves the request alone, but for its history.
LEMMA ObservedKeeps ==
    ASSUME AccessInv, Observed PROVE AccessInv'
PROOF
<1>1. /\ DOMAIN client' = Fields
      /\ client'.was = client.was \cup GroupsOf(client.by)'
      /\ \A f \in Fields \ {"was", "left", "came", "moved", "late"} : client'[f] = client[f]
      BY ZenonT(60) DEF Observed, AccessInv, WasCovers, Fields, NoRead
<1>2. /\ client'.pc = client.pc /\ client'.op = client.op /\ client'.by = client.by
      /\ client'.role = client.role /\ client'.g = client.g
      /\ client'.rows = client.rows /\ client'.status = client.status
      BY <1>1 DEF Fields, NoRead
<1>3. WasCovers'
      BY <1>1, <1>2 DEF WasCovers, GroupsOf
<1>4. Checked' /\ Protocol' /\ ReadersBelong'
      BY <1>1, <1>2 DEF AccessInv, Checked, Protocol, ReadersBelong
<1>5. QED
      BY <1>3, <1>4 DEF AccessInv

\* An answer that shows nothing.
LEMMA RefusalKeeps ==
    ASSUME AccessInv, client.pc # "idle", NEW code, code # 200, Respond(client, code),
           members' = members
    PROVE  AccessInv'
PROOF
<1>1. /\ DOMAIN client' = Fields /\ client'.pc = "answered"
      /\ client'.status = code /\ client'.was = client.was /\ client'.by = client.by
      BY DEF Respond, AccessInv, WasCovers, Fields, NoRead
<1>2. QED
      BY <1>1 DEF AccessInv, WasCovers, Checked, Protocol, ReadersBelong, GroupsOf

\* The statement after the check of access.
LEMMA ListKeeps ==
    ASSUME AccessInv, client.pc # "idle", client.status # 200,
           client.op \in {"GetMembers", "GetMeetings", "GetEntries"},
           client.role = "MANAGER" \/ client.g \in client.was,
           client' = List(client), members' = members
    PROVE  AccessInv'
PROOF
<1>1. /\ DOMAIN client' = Fields /\ client'.pc \in {"count", "slice"}
      /\ client'.was = client.was /\ client'.by = client.by /\ client'.op = client.op
      /\ client'.role = client.role /\ client'.g = client.g
      /\ client'.status = client.status
      BY DEF List, AccessInv, WasCovers, Fields, NoRead
<1>2. QED
      BY <1>1 DEF AccessInv, WasCovers, Checked, Protocol, ReadersBelong, GroupsOf

-----------------------------------------------------------------------------
\* Every step keeps the invariant.
LEMMA AccessNext ==
    ASSUME AccessInv, [RNext]_rvars PROVE AccessInv'
PROOF
<1>1. CASE UNCHANGED rvars
      BY <1>1 DEF rvars, aVars, db, AccessInv, WasCovers, Checked, Protocol, ReadersBelong,
                  GroupsOf
<1>2. CASE Observed
      BY <1>2, ObservedKeeps
<1> SUFFICES ASSUME ReadStep, UNCHANGED aVars PROVE AccessInv'
      BY <1>1, <1>2 DEF RNext
<1>a. members' = members
      BY DEF aVars, db
<1>3. CASE StartRead
      <2>1. PICK op \in Reads, by \in Readers \cap DOMAIN role :
               \E t \in Targets(op), page \in PageParams, size \in PerPageParams :
               LET r == [NoRead EXCEPT !.op = op, !.by = by, !.role = role[by],
                           !.g = t[1], !.m = t[2],
                           !.page = IF op \in Paged THEN ParseInt(page, 1, 1, None) ELSE 1,
                           !.size = IF op \in Paged
                                    THEN ParseInt(size, DefaultPerPage, 1, MaxPerPage) ELSE 1]
               IN Ask([r EXCEPT !.whole = r.page = 1,
                                !.start = IF op \in Paged THEN Matching(r) ELSE {}])
            BY <1>3 DEF StartRead
      <2>0. PICK t \in Targets(op), page \in PageParams, size \in PerPageParams :
               LET r == [NoRead EXCEPT !.op = op, !.by = by, !.role = role[by],
                           !.g = t[1], !.m = t[2],
                           !.page = IF op \in Paged THEN ParseInt(page, 1, 1, None) ELSE 1,
                           !.size = IF op \in Paged
                                    THEN ParseInt(size, DefaultPerPage, 1, MaxPerPage) ELSE 1]
               IN Ask([r EXCEPT !.whole = r.page = 1,
                                !.start = IF op \in Paged THEN Matching(r) ELSE {}])
            BY <2>1
      <2> DEFINE r == [NoRead EXCEPT !.op = op, !.by = by, !.role = role[by],
                         !.g = t[1], !.m = t[2],
                         !.page = IF op \in Paged THEN ParseInt(page, 1, 1, None) ELSE 1,
                         !.size = IF op \in Paged
                                  THEN ParseInt(size, DefaultPerPage, 1, MaxPerPage) ELSE 1]
                 q == [r EXCEPT !.whole = r.page = 1,
                                !.start = IF op \in Paged THEN Matching(r) ELSE {}]
      <2>2. op \in Lists
            BY ReadingAssumption
      <2>3. DOMAIN r = Fields /\ r.op = op
            BY DEF Fields, NoRead
      <2> HIDE DEF r
      <2>4. DOMAIN q = Fields /\ q.op = op
            BY <2>3 DEF Fields, NoRead
      <2>5. Ask(q)
            BY <2>0 DEF q, r
      <2> HIDE DEF q
      <2>6. QED
            BY <1>a, <2>2, <2>4, <2>5, AskKeeps
<1>4. CASE ReadGroup
      <2>1. client.pc = "get_group" /\ client.op \in {"GetMembers", "GetMeetings"}
            /\ client.status # 200
            BY <1>4 DEF ReadGroup, AccessInv, Protocol
      <2>2. CASE client.g \notin DOMAIN name
            BY <1>4, <1>a, <2>1, <2>2, RefusalKeeps DEF ReadGroup
      <2>3. CASE client.g \in DOMAIN name /\ client.role = "MANAGER"
            BY <1>4, <1>a, <2>1, <2>3, ListKeeps DEF ReadGroup
      <2>4. CASE client.g \in DOMAIN name /\ client.role # "MANAGER"
            <3>1. client' = [client EXCEPT !.pc = "has_access"]
                  BY <1>4, <2>4 DEF ReadGroup
            <3>2. /\ DOMAIN client' = Fields /\ client'.pc = "has_access"
                  /\ client'.was = client.was /\ client'.by = client.by
                  /\ client'.op = client.op /\ client'.status = client.status
                  BY <3>1 DEF AccessInv, WasCovers, Fields, NoRead
            <3>3. QED
                  BY <1>a, <2>1, <3>2
                  DEF AccessInv, WasCovers, Checked, Protocol, ReadersBelong, GroupsOf
      <2>5. QED
            BY <2>2, <2>3, <2>4
<1>5. CASE ReadMeeting
      <2>1. client.pc = "get_meeting" /\ client.op = "GetEntries" /\ client.status # 200
            BY <1>5 DEF ReadMeeting, AccessInv, Protocol
      <2>2. CASE client.m \notin DOMAIN meetings
            BY <1>5, <1>a, <2>1, <2>2, RefusalKeeps DEF ReadMeeting
      <2>3. CASE client.m \in DOMAIN meetings
            <3>1. client' = [client EXCEPT !.g = meetings[client.m].group,
                                           !.pc = "meeting_group"]
                  BY <1>5, <2>3 DEF ReadMeeting
            <3>2. /\ DOMAIN client' = Fields /\ client'.pc = "meeting_group"
                  /\ client'.was = client.was /\ client'.by = client.by
                  /\ client'.op = client.op /\ client'.status = client.status
                  BY <3>1 DEF AccessInv, WasCovers, Fields, NoRead
            <3>3. QED
                  BY <1>a, <2>1, <3>2
                  DEF AccessInv, WasCovers, Checked, Protocol, ReadersBelong, GroupsOf
      <2>4. QED
            BY <2>2, <2>3
<1>6. CASE ReadMeetingGroup
      <2>1. client.pc = "meeting_group" /\ client.op = "GetEntries" /\ client.status # 200
            BY <1>6 DEF ReadMeetingGroup, AccessInv, Protocol
      <2>2. CASE client.g \notin DOMAIN name
            BY <1>6, <1>a, <2>1, <2>2, RefusalKeeps DEF ReadMeetingGroup
      <2>3. CASE client.g \in DOMAIN name /\ client.role = "MANAGER"
            BY <1>6, <1>a, <2>1, <2>3, ListKeeps DEF ReadMeetingGroup
      <2>4. CASE client.g \in DOMAIN name /\ client.role # "MANAGER"
            <3>1. client' = [client EXCEPT !.pc = "has_access"]
                  BY <1>6, <2>4 DEF ReadMeetingGroup
            <3>2. /\ DOMAIN client' = Fields /\ client'.pc = "has_access"
                  /\ client'.was = client.was /\ client'.by = client.by
                  /\ client'.op = client.op /\ client'.status = client.status
                  BY <3>1 DEF AccessInv, WasCovers, Fields, NoRead
            <3>3. QED
                  BY <1>a, <2>1, <3>2
                  DEF AccessInv, WasCovers, Checked, Protocol, ReadersBelong, GroupsOf
      <2>5. QED
            BY <2>2, <2>3, <2>4
<1>7. CASE HasAccess
      <2>1. /\ client.pc = "has_access" /\ client.status # 200
            /\ client.op \in {"GetMembers", "GetMeetings", "GetEntries"}
            BY <1>7 DEF HasAccess, AccessInv, Protocol
      <2>2. CASE <<client.by, client.g>> \in members
            <3>1. client.g \in client.was
                  BY <2>1, <2>2, GroupsOfMember DEF AccessInv, WasCovers
            <3>2. QED
                  BY <1>7, <1>a, <2>1, <2>2, <3>1, ListKeeps DEF HasAccess
      <2>3. CASE <<client.by, client.g>> \notin members
            BY <1>7, <1>a, <2>1, <2>3, RefusalKeeps DEF HasAccess
      <2>4. QED
            BY <2>2, <2>3
<1>8. CASE Count
      <2>1. client' = [client EXCEPT !.total = Cardinality(Matching(client)),
                                     !.late = FALSE, !.pc = "slice"]
            BY <1>8 DEF Count
      <2>2. /\ client.pc = "count" /\ DOMAIN client' = Fields
            /\ client'.pc = "slice" /\ client'.was = client.was /\ client'.by = client.by
            /\ client'.op = client.op /\ client'.role = client.role /\ client'.g = client.g
            /\ client'.status = client.status
            BY <1>8, <2>1 DEF Count, AccessInv, WasCovers, Fields, NoRead
      <2>3. QED
            BY <1>a, <2>2 DEF AccessInv, WasCovers, Checked, Protocol, ReadersBelong, GroupsOf
<1>9. CASE Slice
      <2>1. client.pc = "slice"
            BY <1>9 DEF Slice
      <2>2. CASE client.op \in Paged /\ Offset(client) > MaxOffset
            BY <1>9, <1>a, <2>1, <2>2, RefusalKeeps DEF Slice
      <2>3. CASE ~(client.op \in Paged /\ Offset(client) > MaxOffset)
            <3>0. PICK c, rows : /\ DOMAIN c = Fields /\ c.rows = rows /\ c.was = client.was
                                 /\ c.by = client.by /\ c.op = client.op
                                 /\ c.role = client.role /\ c.g = client.g
                                 /\ rows \subseteq Matching(client) /\ Respond(c, 200)
                  <4>1. CASE client.op \notin Paged
                        <5> DEFINE c == [client EXCEPT !.rows = Matching(client)]
                        <5>1. Respond(c, 200)
                              BY <1>9, <4>1 DEF Slice
                        <5>2. /\ DOMAIN c = Fields /\ c.rows = Matching(client)
                              /\ c.was = client.was /\ c.by = client.by /\ c.op = client.op
                              /\ c.role = client.role /\ c.g = client.g
                              BY DEF AccessInv, WasCovers, Fields
                        <5> HIDE DEF c
                        <5>3. QED
                              BY <5>1, <5>2
                  <4>2. CASE client.op \in Paged
                        <5>1. PICK rows \in Slices(client, Matching(client)) :
                                 Respond([client EXCEPT !.rows = rows, !.seen = @ \cup rows,
                                            !.twice = @ \/ rows \cap client.seen # {},
                                            !.tied = @ \/ Ties(client, Matching(client))], 200)
                              BY <1>9, <2>3, <4>2 DEF Slice
                        <5> DEFINE c == [client EXCEPT !.rows = rows, !.seen = @ \cup rows,
                                            !.twice = @ \/ rows \cap client.seen # {},
                                            !.tied = @ \/ Ties(client, Matching(client))]
                        <5>2. /\ DOMAIN c = Fields /\ c.rows = rows
                              /\ c.was = client.was /\ c.by = client.by /\ c.op = client.op
                              /\ c.role = client.role /\ c.g = client.g
                              BY DEF AccessInv, WasCovers, Fields
                        <5>3. Respond(c, 200)
                              BY <5>1
                        <5> HIDE DEF c
                        <5>4. QED
                              BY <5>2, <5>3, SliceMatches
                  <4>3. QED
                        BY <4>1, <4>2
            <3>1. /\ DOMAIN client' = Fields /\ client'.pc = "answered" /\ client'.rows = c.rows
                  /\ client'.was = c.was /\ client'.by = c.by /\ client'.op = c.op
                  /\ client'.role = c.role /\ client'.g = c.g
                  BY <3>0 DEF Respond, Fields
            <3>2. /\ DOMAIN client' = Fields /\ client'.pc = "answered"
                  /\ client'.rows = rows /\ rows \subseteq Matching(client)
                  /\ client'.was = client.was /\ client'.by = client.by
                  /\ client'.op = client.op /\ client'.role = client.role
                  /\ client'.g = client.g
                  BY <3>0, <3>1
            <3>3. client.op = "GetGroups" /\ client.role # "MANAGER" => rows \subseteq client.was
                  BY <2>1, <3>2, ListedGroupsAreTheirs DEF AccessInv, WasCovers
            <3>4. ReadersBelong'
                  BY <2>1, <3>2, <3>3 DEF AccessInv, Checked, ReadersBelong
            <3>5. QED
                  BY <1>a, <2>1, <3>2, <3>4 DEF AccessInv, WasCovers, Checked, Protocol, GroupsOf
      <2>4. QED
            BY <2>2, <2>3
<1>10. CASE NextPage
      <2> DEFINE q == [client EXCEPT !.page = @ + 1]
      <2>1. Ask(q) /\ client.op \in Lists
            BY <1>10 DEF NextPage, More, Paged, Lists
      <2>2. DOMAIN q = Fields /\ q.op = client.op
            BY DEF AccessInv, WasCovers, Fields, NoRead
      <2> HIDE DEF q
      <2>3. QED
            BY <1>a, <2>1, <2>2, AskKeeps
<1>11. QED
      BY <1>3, <1>4, <1>5, <1>6, <1>7, <1>8, <1>9, <1>10 DEF ReadStep

\* Whoever is no MANAGER is shown rows of a group only if they were a member of
\* it during the request, and never the directory of users.
THEOREM ReadersBelongToGroup == RSpec => []ReadersBelong
PROOF
<1>1. RInit => AccessInv
      BY DEF RInit, NoRead, Fields, AccessInv, WasCovers, Checked, Protocol, ReadersBelong
<1>2. AccessInv /\ [RNext]_rvars => AccessInv'
      BY AccessNext
<1>3. AccessInv => ReadersBelong
      BY DEF AccessInv
<1>4. QED
      BY <1>1, <1>2, <1>3, PTL DEF RSpec

-----------------------------------------------------------------------------
(***************************************************************************)
(* Second part: why a read fails.                                          *)
(***************************************************************************)
\* Groups that were created; none is ever created again.
Ever == DOMAIN name \cup deleted

\* The groups of meetings, and their types.
MeetingsInv ==
    /\ DOMAIN name \subseteq Group
    /\ meetings \in [DOMAIN meetings -> MeetingRow]
    /\ \A m \in DOMAIN meetings : meetings[m].group \in Ever

\* The group of a meeting that was read was created, also when it is deleted.
Errors ==
    /\ DOMAIN client = Fields
    /\ client.pc # "answered" => client.status # 500
    /\ client.pc = "get_meeting" => client.op = "GetEntries"
    /\ client.pc = "meeting_group" => client.op = "GetEntries" /\ client.g \in Ever
    /\ ReadErrorsExplained

ErrorInv == MeetingsInv /\ Errors

\* No commit makes a group forgotten, and none moves a meeting.
LEMMA CommitKeepsMeetings ==
    ASSUME MeetingsInv, Commit \/ Administer
    PROVE  MeetingsInv' /\ Ever \subseteq Ever' /\ deleted \subseteq deleted'
PROOF
<1> USE DEF MeetingsInv, Ever
<1>1. CASE UNCHANGED <<name, meetings, deleted>>
      BY <1>1
<1>2. ASSUME NEW n \in Name, NewGroup(n)
      PROVE  MeetingsInv' /\ Ever \subseteq Ever' /\ deleted \subseteq deleted'
      BY <1>2 DEF NewGroup
<1>3. ASSUME NEW g \in Group, DropGroup(g)
      PROVE  MeetingsInv' /\ Ever \subseteq Ever' /\ deleted \subseteq deleted'
      BY <1>3 DEF DropGroup, Without, MeetingsOf
<1>4. ASSUME NEW g \in Group, NEW d \in Date, Convene(g, d)
      PROVE  MeetingsInv' /\ Ever \subseteq Ever' /\ deleted \subseteq deleted'
      <2>1. PICK m \in Meeting \ (DOMAIN meetings \cup deleted) :
               meetings' = [k \in DOMAIN meetings \cup {m} |->
                              IF k = m THEN [group |-> g, date |-> d, completed |-> FALSE]
                                       ELSE meetings[k]]
            BY <1>4 DEF Convene
      <2>2. UNCHANGED <<name, deleted>>
            BY <1>4 DEF Convene
      <2>3. [group |-> g, date |-> d, completed |-> FALSE] \in MeetingRow
            BY DEF MeetingRow
      <2>4. g \in DOMAIN name
            BY <1>4 DEF Convene
      <2>5. QED
            BY <2>1, <2>2, <2>3, <2>4
<1>5. ASSUME NEW m \in Meeting, NEW body \in MeetingBody, Reschedule(m, body)
      PROVE  MeetingsInv' /\ Ever \subseteq Ever' /\ deleted \subseteq deleted'
      <2>1. meetings' = [meetings EXCEPT
               ![m].date = IF body.date = None THEN @ ELSE body.date,
               ![m].completed = IF body.completed = None THEN @ ELSE body.completed]
            BY <1>5 DEF Reschedule
      <2>2. UNCHANGED <<name, deleted>>
            BY <1>5 DEF Reschedule
      <2>3. DOMAIN meetings' = DOMAIN meetings
            BY <2>1
      <2>4. ASSUME NEW k \in DOMAIN meetings
            PROVE  meetings'[k] \in MeetingRow /\ meetings'[k].group = meetings[k].group
            BY <2>1 DEF MeetingRow, MeetingBody
      <2>5. meetings' \in [DOMAIN meetings' -> MeetingRow]
            BY <2>1, <2>3, <2>4
      <2>6. QED
            BY <2>2, <2>3, <2>4, <2>5
<1>6. ASSUME NEW m \in Meeting, DropMeeting(m)
      PROVE  MeetingsInv' /\ Ever \subseteq Ever' /\ deleted \subseteq deleted'
      BY <1>6 DEF DropMeeting, Without
<1>7. ASSUME NEW u, NEW g, Pin(u, g) \/ Join(u, g) \/ Leave(u, g)
      PROVE  UNCHANGED <<name, meetings, deleted>>
      BY <1>7 DEF Pin, Join, Leave
<1>8. CASE Administer
      <2>1. CASE ChangeRole
            BY <2>1, <1>1 DEF ChangeRole
      <2>2. CASE DropUser
            BY <2>2 DEF DropUser
      <2>3. QED
            BY <1>8, <2>1, <2>2 DEF Administer
<1> HIDE DEF MeetingsInv, Ever
<1>9. CASE Commit
      BY <1>1, <1>2, <1>3, <1>4, <1>5, <1>6, <1>7, <1>9 DEF Commit
<1>10. QED
      BY <1>8, <1>9

\* A request that begins has no status yet.
LEMMA AskIsNoError ==
    ASSUME NEW q, DOMAIN q = Fields, q.op \in Lists, Ask(q)
    PROVE  Errors'
PROOF
<1> DEFINE r == [q EXCEPT !.role = role[q.by], !.total = 0, !.rows = {}, !.status = 0,
                          !.was = GroupsOf(q.by)]
           changed == Matching(r) # Matching(q)
           s == [r EXCEPT !.left = @ \/ changed, !.came = @ \/ changed]
<1>1. DOMAIN s = Fields /\ s.op = q.op /\ s.status = 0
      BY DEF Fields, NoRead
<1> HIDE DEF s
<1>2. CASE s.op = "GetUsers" /\ s.role # "MANAGER"
      <2>1. client' = [s EXCEPT !.pc = "answered", !.status = 403]
            BY <1>2 DEF Ask, Respond, s
      <2>2. DOMAIN client' = Fields /\ client'.pc = "answered" /\ client'.status = 403
            BY <1>1, <2>1 DEF Fields, NoRead
      <2>3. QED
            BY <2>2 DEF Errors, ReadErrorsExplained
<1>3. CASE ~(s.op = "GetUsers" /\ s.role # "MANAGER")
      <2>1. client' = [s EXCEPT !.pc = FirstStatement(q.op)]
            BY <1>3 DEF Ask, s
      <2>2. /\ DOMAIN client' = Fields /\ client'.pc = FirstStatement(q.op)
            /\ client'.status = 0 /\ client'.op = q.op
            BY <1>1, <2>1 DEF Fields, NoRead
      <2>3. /\ q.op \in {"GetGroups", "GetUsers"} => client'.pc = "count"
            /\ q.op \in {"GetMembers", "GetMeetings"} => client'.pc = "get_group"
            /\ q.op = "GetEntries" => client'.pc = "get_meeting"
            BY <2>2 DEF FirstStatement
      <2>4. QED
            BY <2>2, <2>3 DEF Errors, ReadErrorsExplained, Lists
<1>4. QED
      BY <1>2, <1>3

\* A commit leaves the request alone, but for its history.
LEMMA ObservedIsNoError ==
    ASSUME ErrorInv, Observed, Ever \subseteq Ever', deleted \subseteq deleted'
    PROVE  Errors'
PROOF
<1>1. /\ DOMAIN client' = Fields
      /\ client'.pc = client.pc /\ client'.op = client.op /\ client'.g = client.g
      /\ client'.page = client.page /\ client'.size = client.size
      /\ client'.status = client.status
      BY DEF Observed, ErrorInv, Errors, Fields, NoRead
<1>2. Offset(client)' = Offset(client)
      BY <1>1 DEF Offset
<1>3. QED
      BY <1>1, <1>2 DEF ErrorInv, Errors, ReadErrorsExplained

\* What a statement does that neither fails nor reads a meeting.
LEMMA OtherStatements ==
    ASSUME ErrorInv, NEW code, NEW pc, client.status # 500,
           DOMAIN client' = Fields, client'.status = code, client'.pc = pc,
           code # 500, pc \notin {"get_meeting", "meeting_group"}
    PROVE  Errors'
PROOF
BY DEF Errors, ReadErrorsExplained

LEMMA ErrorNext ==
    ASSUME ErrorInv, [RNext]_rvars PROVE ErrorInv'
PROOF
<1> USE DEF ErrorInv
<1>1. CASE UNCHANGED rvars
      BY <1>1 DEF rvars, aVars, db, MeetingsInv, Errors, ReadErrorsExplained, Offset, Ever
<1>2. CASE (Commit \/ Administer) /\ Observed
      BY <1>2, CommitKeepsMeetings, ObservedIsNoError
<1> SUFFICES ASSUME ReadStep, UNCHANGED aVars PROVE Errors'
      BY <1>1, <1>2 DEF RNext, aVars, db, MeetingsInv, Ever
<1>a. UNCHANGED <<name, meetings, deleted>>
      BY DEF aVars, db
<1>3. CASE StartRead
      <2>1. PICK op \in Reads, by \in Readers \cap DOMAIN role :
               \E t \in Targets(op), page \in PageParams, size \in PerPageParams :
               LET r == [NoRead EXCEPT !.op = op, !.by = by, !.role = role[by],
                           !.g = t[1], !.m = t[2],
                           !.page = IF op \in Paged THEN ParseInt(page, 1, 1, None) ELSE 1,
                           !.size = IF op \in Paged
                                    THEN ParseInt(size, DefaultPerPage, 1, MaxPerPage) ELSE 1]
               IN Ask([r EXCEPT !.whole = r.page = 1,
                                !.start = IF op \in Paged THEN Matching(r) ELSE {}])
            BY <1>3 DEF StartRead
      <2>2. \E q : DOMAIN q = Fields /\ q.op = op /\ Ask(q)
            <3>1. PICK t \in Targets(op), page \in PageParams, size \in PerPageParams :
                     LET r == [NoRead EXCEPT !.op = op, !.by = by, !.role = role[by],
                                 !.g = t[1], !.m = t[2],
                                 !.page = IF op \in Paged THEN ParseInt(page, 1, 1, None) ELSE 1,
                                 !.size = IF op \in Paged
                                          THEN ParseInt(size, DefaultPerPage, 1, MaxPerPage)
                                          ELSE 1]
                     IN Ask([r EXCEPT !.whole = r.page = 1,
                                      !.start = IF op \in Paged THEN Matching(r) ELSE {}])
                  BY <2>1
            <3> DEFINE r == [NoRead EXCEPT !.op = op, !.by = by, !.role = role[by],
                               !.g = t[1], !.m = t[2],
                               !.page = IF op \in Paged THEN ParseInt(page, 1, 1, None) ELSE 1,
                               !.size = IF op \in Paged
                                        THEN ParseInt(size, DefaultPerPage, 1, MaxPerPage)
                                        ELSE 1]
                       q == [r EXCEPT !.whole = r.page = 1,
                                      !.start = IF op \in Paged THEN Matching(r) ELSE {}]
            <3>2. DOMAIN r = Fields /\ r.op = op
                  BY DEF Fields, NoRead
            <3> HIDE DEF r
            <3>3. DOMAIN q = Fields /\ q.op = op
                  BY <3>2 DEF Fields
            <3>4. Ask(q)
                  BY <3>1 DEF r
            <3> HIDE DEF q
            <3>5. QED
                  BY <3>3, <3>4
      <2>3. QED
            BY <2>2, AskIsNoError, ReadingAssumption
<1>4. CASE NextPage
      <2> DEFINE q == [client EXCEPT !.page = @ + 1]
      <2>1. Ask(q) /\ client.op \in Lists
            BY <1>4 DEF NextPage, More, Paged, Lists
      <2>2. DOMAIN q = Fields /\ q.op = client.op
            BY DEF Errors, Fields, NoRead
      <2> HIDE DEF q
      <2>3. QED
            BY <2>1, <2>2, AskIsNoError
<1>5. ASSUME NEW q, DOMAIN q = Fields, q.op = client.op, q.g = client.g,
             q.page = client.page, q.size = client.size, NEW code, Respond(q, code),
             code = 500 => \/ q.op = "GetEntries" /\ q.g \in deleted
                           \/ q.op \in Paged /\ Offset(q) > MaxOffset
      PROVE  Errors'
      <2>1. /\ DOMAIN client' = Fields /\ client'.pc = "answered" /\ client'.status = code
            /\ client'.op = q.op /\ client'.g = q.g
            /\ client'.page = q.page /\ client'.size = q.size
            BY <1>5 DEF Respond, Fields
      <2>2. Offset(client)' = Offset(q)
            BY <2>1 DEF Offset
      <2>3. QED
            BY <1>a, <1>5, <2>1, <2>2 DEF Errors, ReadErrorsExplained
<1>6. ASSUME NEW code, Respond(client, code),
             code = 500 => \/ client.op = "GetEntries" /\ client.g \in deleted
                           \/ client.op \in Paged /\ Offset(client) > MaxOffset
      PROVE  Errors'
      BY <1>5, <1>6 DEF Errors
<1>7. ASSUME client.pc # "answered", client' = List(client) PROVE Errors'
      <2>1. /\ DOMAIN client' = Fields /\ client'.status = client.status
            /\ client'.pc \in {"count", "slice"}
            BY <1>7 DEF List, Errors, Fields, NoRead
      <2>2. QED
            BY <1>7, <2>1, OtherStatements DEF Errors
<1>8. ASSUME client.pc # "answered", client' = [client EXCEPT !.pc = "has_access"]
      PROVE  Errors'
      <2>1. /\ DOMAIN client' = Fields /\ client'.status = client.status
            /\ client'.pc = "has_access"
            BY <1>8 DEF Errors, Fields, NoRead
      <2>2. QED
            BY <1>8, <2>1, OtherStatements DEF Errors
<1>9. CASE ReadGroup
      BY <1>6, <1>7, <1>8, <1>9 DEF ReadGroup
<1>10. CASE ReadMeeting
      <2>1. CASE client.m \notin DOMAIN meetings
            BY <1>6, <1>10, <2>1 DEF ReadMeeting
      <2>2. CASE client.m \in DOMAIN meetings
            <3>1. client' = [client EXCEPT !.g = meetings[client.m].group, !.pc = "meeting_group"]
                  BY <1>10, <2>2 DEF ReadMeeting
            <3>2. /\ DOMAIN client' = Fields /\ client'.status = client.status
                  /\ client'.pc = "meeting_group" /\ client'.op = client.op
                  /\ client'.g = meetings[client.m].group
                  BY <3>1 DEF Errors, Fields, NoRead
            <3>3. QED
                  BY <1>a, <1>10, <2>2, <3>2
                  DEF ReadMeeting, Errors, ReadErrorsExplained, MeetingsInv, Ever
      <2>3. QED
            BY <2>1, <2>2
<1>11. CASE ReadMeetingGroup
      <2>1. client.g \notin DOMAIN name => client.op = "GetEntries" /\ client.g \in deleted
            BY <1>11 DEF ReadMeetingGroup, Errors, Ever
      <2>2. QED
            BY <1>6, <1>7, <1>8, <1>11, <2>1 DEF ReadMeetingGroup
<1>12. CASE HasAccess
      BY <1>6, <1>7, <1>12 DEF HasAccess
<1>13. CASE Count
      <2>1. /\ DOMAIN client' = Fields /\ client'.status = client.status
            /\ client'.pc = "slice" /\ client.pc = "count"
            BY <1>13 DEF Count, Errors, Fields, NoRead
      <2>2. QED
            BY <2>1, OtherStatements DEF Errors
<1>14. CASE Slice
      <2>1. CASE client.op \notin Paged
            <3> DEFINE q == [client EXCEPT !.rows = Matching(client)]
            <3>1. Respond(q, 200)
                  BY <1>14, <2>1 DEF Slice
            <3>2. DOMAIN q = Fields /\ q.op = client.op /\ q.g = client.g
                  /\ q.page = client.page /\ q.size = client.size
                  BY DEF Errors, Fields
            <3> HIDE DEF q
            <3>3. QED
                  BY <1>5, <3>1, <3>2
      <2>2. CASE client.op \in Paged /\ Offset(client) > MaxOffset
            BY <1>6, <1>14, <2>2 DEF Slice
      <2>3. CASE client.op \in Paged /\ ~(Offset(client) > MaxOffset)
            <3>1. PICK rows \in Slices(client, Matching(client)) :
                     Respond([client EXCEPT !.rows = rows, !.seen = @ \cup rows,
                                !.twice = @ \/ rows \cap client.seen # {},
                                !.tied = @ \/ Ties(client, Matching(client))], 200)
                  BY <1>14, <2>3 DEF Slice
            <3> DEFINE q == [client EXCEPT !.rows = rows, !.seen = @ \cup rows,
                                !.twice = @ \/ rows \cap client.seen # {},
                                !.tied = @ \/ Ties(client, Matching(client))]
            <3>2. DOMAIN q = Fields /\ q.op = client.op /\ q.g = client.g
                  /\ q.page = client.page /\ q.size = client.size
                  BY DEF Errors, Fields
            <3>3. Respond(q, 200)
                  BY <3>1
            <3> HIDE DEF q
            <3>4. QED
                  BY <1>5, <3>2, <3>3
      <2>4. QED
            BY <2>1, <2>2, <2>3
<1>15. QED
      BY <1>3, <1>4, <1>9, <1>10, <1>11, <1>12, <1>13, <1>14 DEF ReadStep

\* A read answers 500 only for a group that was deleted after its meeting was
\* read, and for a page beyond the largest OFFSET.
THEOREM ReadErrorsAreExplained == RSpec => []ReadErrorsExplained
PROOF
<1>1. RInit => ErrorInv
      <2> SUFFICES ASSUME RInit PROVE ErrorInv
            OBVIOUS
      <2>1. name = SeedName /\ meetings = SeedMeetings /\ deleted = {} /\ client = NoRead
            BY DEF RInit, aInit, RowsInit
      <2>2. MeetingsInv
            BY <2>1, SeedAssumption DEF MeetingsInv, Ever, IsTable
      <2>3. Errors
            BY <2>1 DEF Errors, ReadErrorsExplained, NoRead, Fields
      <2>4. QED
            BY <2>2, <2>3 DEF ErrorInv
<1>2. ErrorInv /\ [RNext]_rvars => ErrorInv'
      BY ErrorNext
<1>3. ErrorInv => ReadErrorsExplained
      BY DEF ErrorInv, Errors
<1>4. QED
      BY <1>1, <1>2, <1>3, PTL DEF RSpec
=============================================================================
