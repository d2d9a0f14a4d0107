---------------------------- MODULE MeetingsApp ----------------------------
(***************************************************************************)
(* The meetings app: controllers, use cases, MeetingRepository, and the    *)
(* post_save receiver that backfills the entries of a new member.  Actions *)
(* are laid out as in GroupsApp: a call, then one action per SQL statement.*)
(***************************************************************************)
EXTENDS Tables

MeetingsCollectionErrors == [PermissionDenied |-> 403, GroupNotFound |-> 404]
MeetingsDetailErrors == [PermissionDenied |-> 403, MeetingNotFound |-> 404]
EntriesDetailErrors ==
    [MeetingNotFound |-> 404, MeetingCompleted |-> 403, PermissionDenied |-> 403,
     EntryNotFound |-> 404]

MeetingErrors(op) ==
    IF op = "PatchEntry" THEN EntriesDetailErrors ELSE MeetingsDetailErrors

\* MANAGER-only use cases check the role before they read anything.
MeetingManagerOnly(w, r, pc, errors) ==
    IF r.role = "MANAGER" THEN Step(w, r, pc) ELSE Raise(w, errors, "PermissionDenied")

-----------------------------------------------------------------------------
(***************************************************************************)
(* Calls.                                                                  *)
(***************************************************************************)
\* Every POST in flight has an id left to draw: Meeting bounds them.
PostMeeting(w) ==
    /\ Accepts(w, "PostMeeting")
    /\ Cardinality({v \in Worker : req[v].op = "PostMeeting"})
         < Cardinality(Meeting \ (DOMAIN meetings \cup deleted))
    /\ \E by \in Callers \cap DOMAIN role, g \in Known(DOMAIN name) \cap Group,
          d \in Date :
          MeetingManagerOnly(w, [Authenticated("PostMeeting", by) EXCEPT
                                   !.g = g, !.mbody = [date |-> d, completed |-> None]],
                             "get_group", MeetingsCollectionErrors)
    /\ UNCHANGED db

PatchMeeting(w) ==
    /\ Accepts(w, "PatchMeeting")
    /\ \E by \in Callers \cap DOMAIN role, m \in Known(DOMAIN meetings) \cap Meeting,
          body \in MeetingPatches :
          MeetingManagerOnly(w, [Authenticated("PatchMeeting", by) EXCEPT
                                   !.m = m, !.mbody = body],
                             "get_meeting", MeetingsDetailErrors)
    /\ UNCHANGED db

DeleteMeeting(w) ==
    /\ Accepts(w, "DeleteMeeting")
    /\ \E by \in Callers \cap DOMAIN role, m \in Known(DOMAIN meetings) \cap Meeting :
          MeetingManagerOnly(w, [Authenticated("DeleteMeeting", by) EXCEPT !.m = m],
                             "get_meeting", MeetingsDetailErrors)
    /\ UNCHANGED db

\* Each PATCH in flight may tick the clock once: MaxClock bounds them all.
PatchEntry(w) ==
    /\ Accepts(w, "PatchEntry")
    /\ clock + Cardinality({v \in Worker : req[v].op = "PatchEntry"}) < MaxClock
    /\ \E by \in Callers \cap DOMAIN role, m \in Known(DOMAIN meetings) \cap Meeting,
          u \in Known(DOMAIN role) \cap User, body \in EntryPatches :
          Step(w, [Authenticated("PatchEntry", by) EXCEPT
                     !.m = m, !.u = u, !.ebody = body], "get_meeting")
    /\ UNCHANGED db

MeetingCall(w) ==
    \/ PostMeeting(w) \/ PatchMeeting(w) \/ DeleteMeeting(w) \/ PatchEntry(w)

-----------------------------------------------------------------------------
(***************************************************************************)
(* The carry-over: a user's non-blank will_do of the group's latest        *)
(* meeting, by date and then by updated_at.  The receiver and the creation *)
(* of a meeting have each a query of their own.  Postgres may return any   *)
(* of the rows that tie.                                                   *)
(***************************************************************************)
WillDos(g, u) ==
    {k \in EntriesOf(MeetingsOf(g)) : k[2] = u /\ entries[k].text["will_do"] # Blank}

\* Defective variant: sorted by updated_at alone.
LaterByTime(j, k) == entries[j].upd > entries[k].upd

Later(j, k) ==
    \/ meetings[j[1]].date > meetings[k[1]].date
    \/ /\ meetings[j[1]].date = meetings[k[1]].date
       /\ entries[j].upd > entries[k].upd

\* Defective variant: returns row, not row or ''.
LatestWillDoRaw(g, u) ==
    IF WillDos(g, u) = {} THEN {None} ELSE {entries[k].text["will_do"] : k \in WillDos(g, u)}

\* signals._latest_will_do, for one user.
LatestWillDo(g, u) ==
    LET latest == {k \in WillDos(g, u) : \A j \in WillDos(g, u) : ~Later(j, k)}
    IN IF WillDos(g, u) = {} THEN {Blank} ELSE {entries[k].text["will_do"] : k \in latest}

\* MeetingRepository._collect_carry_over, for all members of the group.
Prior(g, us) ==
    {k \in DOMAIN entries : /\ meetings[k[1]].group = g /\ k[2] \in us
                            /\ entries[k].text["will_do"] # Blank}

\* Defective variant: the order by the date of the meeting is missing.
PrecedesByTime(j, k) == j[2] = k[2] /\ entries[j].upd > entries[k].upd

\* ORDER BY user_id, meeting__date DESC, updated_at DESC, among rows of a user.
Precedes(j, k) ==
    /\ j[2] = k[2]
    /\ \/ meetings[j[1]].date > meetings[k[1]].date
       \/ meetings[j[1]].date = meetings[k[1]].date /\ entries[j].upd > entries[k].upd

\* setdefault keeps the first row of each user; get(user, '') has the rest.
CarryOver(g, us) ==
    LET first == {k \in Prior(g, us) : \A j \in Prior(g, us) : ~Precedes(j, k)}
    IN {carry \in [us -> Text] :
           \A u \in us :
              \/ (\A k \in Prior(g, us) : k[2] # u) /\ carry[u] = Blank
              \/ \E k \in first : k[2] = u /\ carry[u] = entries[k].text["will_do"]}

-----------------------------------------------------------------------------
(***************************************************************************)
(* The post_save receiver, inside add_member's transaction.                *)
(***************************************************************************)
\* Defective variants: the filter on completed is inverted, or missing.
CompletedMeetings(w) ==
    /\ req[w].pc = "open_meetings"
    /\ Step(w, [req[w] EXCEPT !.seen = {m \in MeetingsOf(req[w].g) : meetings[m].completed}],
            "latest_will_do")
    /\ UNCHANGED db

AllMeetings(w) ==
    /\ req[w].pc = "open_meetings"
    /\ Step(w, [req[w] EXCEPT !.seen = MeetingsOf(req[w].g)], "latest_will_do")
    /\ UNCHANGED db

OpenMeetings(w) ==
    /\ req[w].pc = "open_meetings"
    /\ LET open == {m \in MeetingsOf(req[w].g) : ~meetings[m].completed}
       IN Step(w, [req[w] EXCEPT !.seen = open],
               IF open = {} THEN "commit_member" ELSE "latest_will_do")
    /\ UNCHANGED db

SelectLatestWillDo(w) ==
    /\ req[w].pc = "latest_will_do"
    /\ \E t \in LatestWillDo(req[w].g, req[w].u) :
          Step(w, [req[w] EXCEPT !.carry = [u \in {req[w].u} |-> t]], "commit_member")
    /\ UNCHANGED db

-----------------------------------------------------------------------------
(***************************************************************************)
(* Creating a meeting: one transaction from the INSERT to the COMMIT.      *)
(***************************************************************************)
GetGroupOfMeeting(w) ==
    /\ req[w].pc = "get_group" /\ req[w].op = "PostMeeting"
    /\ \/ /\ req[w].g \in DOMAIN name
          /\ Step(w, req[w], "insert_meeting")
       \/ /\ req[w].g \notin DOMAIN name
          /\ Raise(w, MeetingsCollectionErrors, "GroupNotFound")
    /\ UNCHANGED db

\* Ids that rows of another open transaction have drawn.
DrawnMeetings == {req[v].m : v \in {x \in Worker : req[x].pc \in InCreateMeeting}}

\* Defective variant: without transaction.atomic() the INSERT commits at once.
InsertMeetingAutocommit(w) ==
    /\ req[w].pc = "insert_meeting"
    /\ \E m \in Meeting \ (DOMAIN meetings \cup deleted \cup DrawnMeetings) :
          /\ Step(w, [req[w] EXCEPT !.m = m], "read_members")
          /\ meetings' = [k \in DOMAIN meetings \cup {m} |->
                IF k = m THEN [group |-> req[w].g, date |-> req[w].mbody.date,
                               completed |-> FALSE]
                ELSE meetings[k]]
    /\ UNCHANGED <<role, name, members, pins, entries, clock, deleted>>

InsertMeeting(w) ==
    /\ req[w].pc = "insert_meeting"
    /\ \E m \in Meeting \ (DOMAIN meetings \cup deleted \cup DrawnMeetings) :
          Step(w, [req[w] EXCEPT !.m = m], "read_members")
    /\ UNCHANGED db

\* Defective variant: exclude(user__role='GUEST') is missing.
ReadMembersAndGuests(w) ==
    /\ req[w].pc = "read_members"
    /\ LET us == {u \in DOMAIN role : <<u, req[w].g>> \in members}
       IN Step(w, [req[w] EXCEPT !.carry = [u \in us |-> Blank]], "carry_over")
    /\ UNCHANGED db

ReadMembers(w) ==
    /\ req[w].pc = "read_members"
    /\ LET us == {u \in DOMAIN role : <<u, req[w].g>> \in members /\ role[u] # "GUEST"}
       IN Step(w, [req[w] EXCEPT !.carry = [u \in us |-> Blank]],
               IF us = {} THEN "commit_meeting" ELSE "carry_over")
    /\ UNCHANGED db

CollectCarryOver(w) ==
    /\ req[w].pc = "carry_over"
    /\ \E carry \in CarryOver(req[w].g, DOMAIN req[w].carry) :
          Step(w, [req[w] EXCEPT !.carry = carry], "commit_meeting")
    /\ UNCHANGED db

\* Defective variant: tables without foreign keys.
CommitMeetingUnchecked(w) ==
    /\ req[w].pc = "commit_meeting"
    /\ meetings' = [k \in DOMAIN meetings \cup {req[w].m} |->
          IF k = req[w].m
          THEN [group |-> req[w].g, date |-> req[w].mbody.date, completed |-> FALSE]
          ELSE meetings[k]]
    /\ entries' = InsertMissing(NewEntries({req[w].m}, req[w].carry))
    /\ Answer(w, 201)
    /\ UNCHANGED <<role, name, members, pins, clock, deleted>>

\* bulk_create and COMMIT: nobody catches an IntegrityError here.
CommitMeeting(w) ==
    /\ req[w].pc = "commit_meeting"
    /\ LET m == req[w].m
           new == NewEntries({m}, req[w].carry)
           row == [group |-> req[w].g, date |-> req[w].mbody.date, completed |-> FALSE]
           succeeds == /\ DOMAIN new \cap DOMAIN entries = {}
                       /\ req[w].g \in DOMAIN name
                       /\ DOMAIN req[w].carry \subseteq DOMAIN role
       IN \/ /\ succeeds
             /\ meetings' = [k \in DOMAIN meetings \cup {m} |->
                                IF k = m THEN row ELSE meetings[k]]
             /\ entries' = InsertMissing(new)
             /\ Answer(w, 201)
          \/ /\ ~succeeds
             /\ Raise(w, MeetingsCollectionErrors, "IntegrityError")
             /\ UNCHANGED <<meetings, entries>>
    /\ UNCHANGED <<role, name, members, pins, clock, deleted>>

-----------------------------------------------------------------------------
(***************************************************************************)
(* Meetings and entries that exist.                                        *)
(***************************************************************************)
\* Defective variants: the completed check or the owner check is missing.
EntryDeniedOpenOrNot(r) ==
    IF r.role = "MANAGER" \/ (r.role = "MEMBER" /\ r.u = r.by) THEN {}
    ELSE {"PermissionDenied"}

EntryDeniedToGuests(r) ==
    IF meetings[r.m].completed THEN {"MeetingCompleted"}
    ELSE IF r.role # "GUEST" THEN {} ELSE {"PermissionDenied"}

\* update_entry's checks on the meeting it loaded, in their order.
EntryDenied(r) ==
    IF meetings[r.m].completed THEN {"MeetingCompleted"}
    ELSE IF r.role = "MANAGER" \/ (r.role = "MEMBER" /\ r.u = r.by) THEN {}
    ELSE {"PermissionDenied"}

\* MeetingRepository.get_by_id, and the use case up to its next statement.  A
\* PATCH that names neither date nor flag names the title, or nothing.
GetMeeting(w) ==
    /\ req[w].pc = "get_meeting"
    /\ LET r == req[w]
           loaded == [r EXCEPT !.mrow = meetings[r.m]]
       IN \/ /\ r.m \notin DOMAIN meetings
             /\ Raise(w, MeetingErrors(r.op), "MeetingNotFound")
          \/ /\ r.m \in DOMAIN meetings /\ r.op = "PatchMeeting"
             /\ Step(w, loaded, "update_meeting")
          \/ /\ r.m \in DOMAIN meetings /\ r.op = "PatchMeeting"
             /\ r.mbody = [date |-> None, completed |-> None]
             /\ Answer(w, 200)
          \/ /\ r.m \in DOMAIN meetings /\ r.op = "DeleteMeeting"
             /\ Step(w, r, "delete_entries")
          \/ /\ r.m \in DOMAIN meetings /\ r.op = "PatchEntry" /\ EntryDenied(r) = {}
             /\ Step(w, r, "get_entry")
          \/ /\ r.m \in DOMAIN meetings /\ r.op = "PatchEntry"
             /\ \E e \in EntryDenied(r) : Raise(w, EntriesDetailErrors, e)
    /\ UNCHANGED db

\* Defective variants: save() without update_fields writes the whole object
\* that was loaded, and inserts the row when it is gone.
UpdateMeetingWhole(w) ==
    /\ req[w].pc = "update_meeting"
    /\ LET r == req[w]
           obj == [f \in DOMAIN r.mrow |->
                     IF f # "group" /\ r.mbody[f] # None THEN r.mbody[f] ELSE r.mrow[f]]
       IN meetings' = [m \in DOMAIN meetings \cup {r.m} |->
                          IF m = r.m THEN obj ELSE meetings[m]]
    /\ Answer(w, 200)
    /\ UNCHANGED <<role, name, members, pins, entries, clock, deleted>>

\* MeetingRepository.update: the patched object saves the patched fields only.
UpdateMeeting(w) ==
    /\ req[w].pc = "update_meeting"
    /\ LET r == req[w]
           fields == {f \in {"date", "completed"} : r.mbody[f] # None}
           obj == [f \in DOMAIN r.mrow |-> IF f \in fields THEN r.mbody[f] ELSE r.mrow[f]]
       IN \/ /\ r.m \in DOMAIN meetings
             /\ meetings' = [meetings EXCEPT ![r.m] = SaveFields(@, obj, fields)]
             /\ Answer(w, 200)
          \/ /\ r.m \notin DOMAIN meetings
             /\ Raise(w, MeetingsDetailErrors, "DatabaseError")
             /\ UNCHANGED meetings
    /\ UNCHANGED <<role, name, members, pins, entries, clock, deleted>>

\* meeting.delete() is a transaction: it deletes the entries of the meeting ...
DeleteEntries(w) ==
    /\ req[w].pc = "delete_entries"
    /\ Step(w, [req[w] EXCEPT !.found = Dependents({}, {req[w].m})], "delete_meeting")
    /\ UNCHANGED db

\* ... and the meeting.  One that is gone already is no error; an entry that a
\* backfill committed in between makes the COMMIT fail.
DeleteMeetingRows(w) ==
    /\ req[w].pc = "delete_meeting"
    /\ \/ /\ NothingRefers({}, {req[w].m}, req[w].found)
          /\ Cascade({}, {req[w].m}, {})
          /\ Answer(w, 204)
       \/ /\ ~NothingRefers({}, {req[w].m}, req[w].found)
          /\ Raise(w, MeetingsDetailErrors, "IntegrityError")
          /\ UNCHANGED db

\* get_entry; a PATCH that names no section writes nothing.
GetEntry(w) ==
    /\ req[w].pc = "get_entry"
    /\ LET k == <<req[w].m, req[w].u>>
       IN \/ /\ k \notin DOMAIN entries
             /\ Raise(w, EntriesDetailErrors, "EntryNotFound")
          \/ /\ k \in DOMAIN entries
             /\ IF \A f \in Field : req[w].ebody[f] = None
                THEN Answer(w, 200)
                ELSE Step(w, [req[w] EXCEPT !.erow = entries[k]], "update_entry")
    /\ UNCHANGED db

\* Defective variant: save() without update_fields writes the object loaded.
UpdateEntryWhole(w) ==
    /\ req[w].pc = "update_entry"
    /\ LET r == req[w]
           k == <<r.m, r.u>>
           text == [f \in Field |-> IF r.ebody[f] # None THEN r.ebody[f]
                                                        ELSE r.erow.text[f]]
       IN /\ k \in DOMAIN entries
          /\ entries' = [entries EXCEPT ![k] = [text |-> text, upd |-> clock + 1]]
    /\ clock' = clock + 1
    /\ Answer(w, 200)
    /\ UNCHANGED <<role, name, members, pins, meetings, deleted>>

\* MeetingRepository.update_entry: the sections the client named, and updated_at.
UpdateEntry(w) ==
    /\ req[w].pc = "update_entry"
    /\ LET r == req[w]
           k == <<r.m, r.u>>
           fields == {f \in Field : r.ebody[f] # None}
           obj == [f \in Field |-> IF f \in fields THEN r.ebody[f] ELSE r.erow.text[f]]
       IN \/ /\ k \in DOMAIN entries
             /\ entries' = [entries EXCEPT ![k] =
                              [text |-> SaveFields(@.text, obj, fields), upd |-> clock + 1]]
             /\ clock' = clock + 1
             /\ Answer(w, 200)
          \/ /\ k \notin DOMAIN entries
             /\ Raise(w, EntriesDetailErrors, "DatabaseError")
             /\ UNCHANGED <<entries, clock>>
    /\ UNCHANGED <<role, name, members, pins, meetings, deleted>>

MeetingStep(w) ==
    \/ OpenMeetings(w) \/ SelectLatestWillDo(w) \/ GetGroupOfMeeting(w)
    \/ InsertMeeting(w) \/ ReadMembers(w) \/ CollectCarryOver(w) \/ CommitMeeting(w)
    \/ GetMeeting(w) \/ UpdateMeeting(w) \/ DeleteEntries(w) \/ DeleteMeetingRows(w)
    \/ GetEntry(w) \/ UpdateEntry(w)
=============================================================================
