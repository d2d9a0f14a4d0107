----------------------------- MODULE GroupsApp -----------------------------
(***************************************************************************)
(* The groups app: controllers, use cases and GroupRepository.             *)
(*                                                                         *)
(* A request is a call action (controller and use case up to the first     *)
(* SQL statement, so authentication and the role check are in it) followed *)
(* by one action per SQL statement, named in req[w].pc.  Local computation *)
(* between two statements belongs to the earlier one.                      *)
(***************************************************************************)
EXTENDS Tables

(***************************************************************************)
(* The controllers: which exception becomes which status.                  *)
(***************************************************************************)
GroupsCollectionErrors == [PermissionDenied |-> 403]
GroupsDetailErrors == [PermissionDenied |-> 403, GroupNotFound |-> 404]
GroupsPinErrors == [GroupNotFound |-> 404, PermissionDenied |-> 403]
GroupsMembersCollectionErrors ==
    [PermissionDenied |-> 403, GroupNotFound |-> 404, UserNotFound |-> 404,
     MemberAlreadyExists |-> 409]
GroupsMembersDetailErrors ==
    [PermissionDenied |-> 403, GroupNotFound |-> 404, MemberNotFound |-> 404]

\* The requests that begin with GroupRepository.get_by_id, their errors, and
\* the first statement that follows when the group exists.
GetGroupOps == GroupOps \ {"PostGroup"}

GroupErrors(op) ==
    CASE op \in {"PatchGroup", "DeleteGroup"} -> GroupsDetailErrors
      [] op \in {"PutPin", "DeletePin"} -> GroupsPinErrors
      [] op = "PostMember" -> GroupsMembersCollectionErrors
      [] op = "DeleteMember" -> GroupsMembersDetailErrors

\* Defective variant: the use case forgets the check.
AnyCaller(w, r, pc, errors) == Step(w, r, pc)

\* MANAGER-only use cases check the role before they read anything.
ManagerOnly(w, r, pc, errors) ==
    IF r.role = "MANAGER" THEN Step(w, r, pc) ELSE Raise(w, errors, "PermissionDenied")

-----------------------------------------------------------------------------
(***************************************************************************)
(* Calls.                                                                  *)
(***************************************************************************)
\* Every POST in flight has an id left to draw: Group bounds them.
PostGroup(w) ==
    /\ Accepts(w, "PostGroup")
    /\ Cardinality({v \in Worker : req[v].op = "PostGroup"})
         < Cardinality(Group \ (DOMAIN name \cup deleted))
    /\ \E by \in Callers \cap DOMAIN role, n \in Name :
          ManagerOnly(w, [Authenticated("PostGroup", by) EXCEPT !.gname = n],
                      "create_group", GroupsCollectionErrors)
    /\ UNCHANGED db

PatchGroup(w) ==
    /\ Accepts(w, "PatchGroup")
    /\ \E by \in Callers \cap DOMAIN role, g \in Known(DOMAIN name) \cap Group,
          n \in Name \cup {None} :
          ManagerOnly(w, [Authenticated("PatchGroup", by) EXCEPT !.g = g, !.gname = n],
                      "get_group", GroupsDetailErrors)
    /\ UNCHANGED db

DeleteGroup(w) ==
    /\ Accepts(w, "DeleteGroup")
    /\ \E by \in Callers \cap DOMAIN role, g \in Known(DOMAIN name) \cap Group :
          ManagerOnly(w, [Authenticated("DeleteGroup", by) EXCEPT !.g = g],
                      "get_group", GroupsDetailErrors)
    /\ UNCHANGED db

PutPin(w) ==
    /\ Accepts(w, "PutPin")
    /\ \E by \in Callers \cap DOMAIN role, g \in Known(DOMAIN name) \cap Group :
          Step(w, [Authenticated("PutPin", by) EXCEPT !.g = g], "get_group")
    /\ UNCHANGED db

DeletePin(w) ==
    /\ Accepts(w, "DeletePin")
    /\ \E by \in Callers \cap DOMAIN role, g \in Known(DOMAIN name) \cap Group :
          Step(w, [Authenticated("DeletePin", by) EXCEPT !.g = g], "get_group")
    /\ UNCHANGED db

PostMember(w) ==
    /\ Accepts(w, "PostMember")
    /\ \E by \in Callers \cap DOMAIN role, g \in Known(DOMAIN name) \cap Group,
          u \in Known(DOMAIN role) \cap User :
          ManagerOnly(w, [Authenticated("PostMember", by) EXCEPT !.g = g, !.u = u],
                      "get_group", GroupsMembersCollectionErrors)
    /\ UNCHANGED db

DeleteMember(w) ==
    /\ Accepts(w, "DeleteMember")
    /\ \E by \in Callers \cap DOMAIN role, g \in Known(DOMAIN name) \cap Group,
          u \in Known(DOMAIN role) \cap User :
          ManagerOnly(w, [Authenticated("DeleteMember", by) EXCEPT !.g = g, !.u = u],
                      "get_group", GroupsMembersDetailErrors)
    /\ UNCHANGED db

GroupCall(w) ==
    \/ PostGroup(w) \/ PatchGroup(w) \/ DeleteGroup(w) \/ PutPin(w) \/ DeletePin(w)
    \/ PostMember(w) \/ DeleteMember(w)

-----------------------------------------------------------------------------
(***************************************************************************)
(* Groups.                                                                 *)
(***************************************************************************)
\* GroupRepository.create, in autocommit mode.
CreateGroup(w) ==
    /\ req[w].pc = "create_group"
    /\ \E g \in Group \ (DOMAIN name \cup deleted) :
          name' = [h \in DOMAIN name \cup {g} |-> IF h = g THEN req[w].gname ELSE name[h]]
    /\ Answer(w, 201)
    /\ UNCHANGED <<role, members, pins, meetings, entries, clock, deleted>>

\* GroupRepository.get_by_id, and what each use case does before its next
\* statement: a PATCH without a name saves nothing, a MANAGER pins any group.
AfterGetGroup(r) ==
    CASE r.op = "PatchGroup" -> "update_group"
      [] r.op = "DeleteGroup" -> "collect_group"
      [] r.op = "PostMember" -> "get_user"
      [] r.op = "DeleteMember" -> "remove_member"
      [] r.op = "PutPin" -> IF r.role = "MANAGER" THEN "pin_select" ELSE "is_member"
      [] r.op = "DeletePin" -> IF r.role = "MANAGER" THEN "unpin" ELSE "is_member"

GetGroup(w) ==
    /\ req[w].pc = "get_group" /\ req[w].op \in GetGroupOps
    /\ IF req[w].g \notin DOMAIN name
       THEN Raise(w, GroupErrors(req[w].op), "GroupNotFound")
       ELSE IF req[w].op = "PatchGroup" /\ req[w].gname = None
       THEN Answer(w, 200)
       ELSE Step(w, req[w], AfterGetGroup(req[w]))
    /\ UNCHANGED db

\* Defective variant: a plain save() inserts the row it does not find.
UpdateGroupUpsert(w) ==
    /\ req[w].pc = "update_group"
    /\ name' = [g \in DOMAIN name \cup {req[w].g} |->
                  IF g = req[w].g THEN req[w].gname ELSE name[g]]
    /\ Answer(w, 200)
    /\ UNCHANGED <<role, members, pins, meetings, entries, clock, deleted>>

\* save(update_fields=['name']): an UPDATE that finds no row raises DatabaseError.
UpdateGroup(w) ==
    /\ req[w].pc = "update_group"
    /\ \/ /\ req[w].g \in DOMAIN name
          /\ name' = [name EXCEPT ![req[w].g] = req[w].gname]
          /\ Answer(w, 200)
       \/ /\ req[w].g \notin DOMAIN name
          /\ Raise(w, GroupsDetailErrors, "DatabaseError")
          /\ UNCHANGED name
    /\ UNCHANGED <<role, members, pins, meetings, entries, clock, deleted>>

\* group.delete(): the collector reads the group's meetings first ...
CollectGroup(w) ==
    /\ req[w].pc = "collect_group"
    /\ Step(w, [req[w] EXCEPT !.seen = MeetingsOf(req[w].g)], "delete_dependents")
    /\ UNCHANGED db

\* ... then a transaction deletes the members, the pins and the entries of
\* those meetings ...
DeleteDependents(w) ==
    /\ req[w].pc = "delete_dependents"
    /\ Step(w, [req[w] EXCEPT !.found = Dependents({req[w].g}, req[w].seen)], "delete_group")
    /\ UNCHANGED db

\* Defective variant: tables without foreign keys.
DeleteGroupUnchecked(w) ==
    /\ req[w].pc = "delete_group"
    /\ LET r == req[w]
       IN /\ members' = members \ r.found.members
          /\ pins' = pins \ r.found.pins
          /\ entries' = Without(entries, r.found.entries)
          /\ meetings' = Without(meetings, r.seen)
          /\ name' = Without(name, {r.g})
          /\ deleted' = deleted \cup (r.seen \cap DOMAIN meetings) \cup ({r.g} \cap DOMAIN name)
    /\ Answer(w, 204)
    /\ UNCHANGED <<role, clock>>

\* ... and the meetings and the group.  Whatever was committed in between and
\* refers to them makes the COMMIT fail, and nothing is deleted.
DeleteGroupRows(w) ==
    /\ req[w].pc = "delete_group"
    /\ LET r == req[w]
           succeeds == /\ MeetingsOf(r.g) \subseteq r.seen
                       /\ NothingRefers({r.g}, r.seen, r.found)
       IN \/ /\ succeeds
             /\ Cascade({r.g}, r.seen, {})
             /\ Answer(w, 204)
          \/ /\ ~succeeds
             /\ Raise(w, GroupsDetailErrors, "IntegrityError")
             /\ UNCHANGED db

-----------------------------------------------------------------------------
(***************************************************************************)
(* Pins.                                                                   *)
(***************************************************************************)
IsMember(w) ==
    /\ req[w].pc = "is_member"
    /\ \/ /\ <<req[w].by, req[w].g>> \in members
          /\ Step(w, req[w], IF req[w].op = "PutPin" THEN "pin_select" ELSE "unpin")
       \/ /\ <<req[w].by, req[w].g>> \notin members
          /\ Raise(w, GroupsPinErrors, "PermissionDenied")
    /\ UNCHANGED db

\* get_or_create: SELECT; INSERT when there is no row; SELECT again when the
\* INSERT met an IntegrityError, which is raised when there is still no row.
PinSelect(w) ==
    /\ req[w].pc = "pin_select"
    /\ \/ /\ <<req[w].by, req[w].g>> \in pins
          /\ Answer(w, 204)
       \/ /\ <<req[w].by, req[w].g>> \notin pins
          /\ Step(w, req[w], "pin_insert")
    /\ UNCHANGED db

\* Defective variant: a plain create().
PinInsertOnce(w) ==
    /\ req[w].pc = "pin_insert"
    /\ IF <<req[w].by, req[w].g>> \in pins
       THEN Raise(w, GroupsPinErrors, "IntegrityError")
       ELSE Answer(w, 204)
    /\ pins' = pins \cup {<<req[w].by, req[w].g>>}
    /\ UNCHANGED <<role, name, members, meetings, entries, clock, deleted>>

PinInsert(w) ==
    /\ req[w].pc = "pin_insert"
    /\ LET fails == \/ <<req[w].by, req[w].g>> \in pins
                    \/ req[w].by \notin DOMAIN role
                    \/ req[w].g \notin DOMAIN name
       IN \/ /\ ~fails
             /\ pins' = pins \cup {<<req[w].by, req[w].g>>}
             /\ Answer(w, 204)
          \/ /\ fails
             /\ Step(w, req[w], "pin_reget")
             /\ UNCHANGED pins
    /\ UNCHANGED <<role, name, members, meetings, entries, clock, deleted>>

PinReget(w) ==
    /\ req[w].pc = "pin_reget"
    /\ IF <<req[w].by, req[w].g>> \in pins
       THEN Answer(w, 204)
       ELSE Raise(w, GroupsPinErrors, "IntegrityError")
    /\ UNCHANGED db

Unpin(w) ==
    /\ req[w].pc = "unpin"
    /\ pins' = pins \ {<<req[w].by, req[w].g>>}
    /\ Answer(w, 204)
    /\ UNCHANGED <<role, name, members, meetings, entries, clock, deleted>>

-----------------------------------------------------------------------------
(***************************************************************************)
(* Members.                                                                *)
(***************************************************************************)
\* add_member loads the user, before it opens its transaction.
GetUser(w) ==
    /\ req[w].pc = "get_user"
    /\ \/ /\ req[w].u \in DOMAIN role
          /\ Step(w, [req[w] EXCEPT !.trole = role[req[w].u]], "insert_member")
       \/ /\ req[w].u \notin DOMAIN role
          /\ Raise(w, GroupsMembersCollectionErrors, "UserNotFound")
    /\ UNCHANGED db

\* Another transaction has inserted the pair and neither committed nor rolled
\* back: the unique index makes a second INSERT wait for it.
PairLocked(w) ==
    \E v \in Worker \ {w} :
        req[v].pc \in InAddMember /\ req[v].u = req[w].u /\ req[v].g = req[w].g

\* Defective variant: without transaction.atomic() the INSERT commits at once.
InsertMemberAutocommit(w) ==
    /\ req[w].pc = "insert_member"
    /\ IF <<req[w].u, req[w].g>> \in members
       THEN Raise(w, GroupsMembersCollectionErrors, "MemberAlreadyExists")
       ELSE Step(w, req[w], IF req[w].trole = "GUEST" THEN "commit_member"
                                                      ELSE "open_meetings")
    /\ members' = members \cup {<<req[w].u, req[w].g>>}
    /\ UNCHANGED <<role, name, pins, meetings, entries, clock, deleted>>

\* Defective variant: a table without the unique key.
InsertMemberUnkeyed(w) ==
    /\ req[w].pc = "insert_member"
    /\ Step(w, req[w], IF req[w].trole = "GUEST" THEN "commit_member" ELSE "open_meetings")
    /\ UNCHANGED db

\* The INSERT of the membership.  Its post_save signal runs the receiver of
\* the meetings app inside the transaction: it skips a GUEST, judging by the
\* user object loaded before.
InsertMember(w) ==
    /\ req[w].pc = "insert_member"
    /\ ~PairLocked(w)
    /\ \/ /\ <<req[w].u, req[w].g>> \in members
          /\ Raise(w, GroupsMembersCollectionErrors, "MemberAlreadyExists")
       \/ /\ <<req[w].u, req[w].g>> \notin members
          /\ Step(w, req[w], IF req[w].trole = "GUEST" THEN "commit_member"
                                                       ELSE "open_meetings")
    /\ UNCHANGED db

\* Defective variant: the backfill without ignore_conflicts.
CommitMemberStrict(w) ==
    /\ req[w].pc = "commit_member"
    /\ LET new == NewEntries(req[w].seen, req[w].carry)
           fails == DOMAIN new \cap DOMAIN entries # {}
       IN /\ members' = IF fails THEN members ELSE members \cup {<<req[w].u, req[w].g>>}
          /\ entries' = IF fails THEN entries ELSE InsertMissing(new)
          /\ IF fails THEN Raise(w, GroupsMembersCollectionErrors, "MemberAlreadyExists")
                      ELSE Answer(w, 201)
    /\ UNCHANGED <<role, name, pins, meetings, clock, deleted>>

\* Defective variant: the backfill fails in a transaction of its own, after the
\* membership was committed.
CommitMemberHalf(w) ==
    /\ req[w].pc = "commit_member"
    /\ LET new == NewEntries(req[w].seen, req[w].carry)
           fails == ~(req[w].seen \subseteq DOMAIN meetings)
       IN /\ req[w].u \in DOMAIN role /\ req[w].g \in DOMAIN name
          /\ members' = members \cup {<<req[w].u, req[w].g>>}
          /\ entries' = IF fails THEN entries ELSE InsertMissing(new)
          /\ IF fails THEN Raise(w, GroupsMembersCollectionErrors, "MemberAlreadyExists")
                      ELSE Answer(w, 201)
    /\ UNCHANGED <<role, name, pins, meetings, clock, deleted>>

\* COMMIT of add_member's transaction, the backfill's INSERT included.  The
\* foreign keys are checked here, inside the try block that takes every
\* IntegrityError for a duplicate.
CommitMember(w) ==
    /\ req[w].pc = "commit_member"
    /\ LET new == NewEntries(req[w].seen, req[w].carry)
           refers == /\ req[w].u \in DOMAIN role /\ req[w].g \in DOMAIN name
                     /\ req[w].seen \subseteq DOMAIN meetings
       IN \/ /\ refers
             /\ members' = members \cup {<<req[w].u, req[w].g>>}
             /\ entries' = InsertMissing(new)
             /\ Answer(w, 201)
          \/ /\ ~refers
             /\ Raise(w, GroupsMembersCollectionErrors, "MemberAlreadyExists")
             /\ UNCHANGED <<members, entries>>
    /\ UNCHANGED <<role, name, pins, meetings, clock, deleted>>

\* Defective variant: the membership takes the user's entries with it.
RemoveMemberPurge(w) ==
    /\ req[w].pc = "remove_member"
    /\ members' = members \ {<<req[w].u, req[w].g>>}
    /\ entries' = Without(entries, {k \in EntriesOf(MeetingsOf(req[w].g)) : k[2] = req[w].u})
    /\ Answer(w, 204)
    /\ UNCHANGED <<role, name, pins, meetings, clock, deleted>>

\* A single DELETE in autocommit mode.  The entries of the user stay.
RemoveMember(w) ==
    /\ req[w].pc = "remove_member"
    /\ \/ /\ <<req[w].u, req[w].g>> \in members
          /\ members' = members \ {<<req[w].u, req[w].g>>}
          /\ Answer(w, 204)
       \/ /\ <<req[w].u, req[w].g>> \notin members
          /\ Raise(w, GroupsMembersDetailErrors, "MemberNotFound")
          /\ UNCHANGED members
    /\ UNCHANGED <<role, name, pins, meetings, entries, clock, deleted>>

GroupStep(w) ==
    \/ CreateGroup(w) \/ GetGroup(w) \/ UpdateGroup(w) \/ CollectGroup(w)
    \/ DeleteDependents(w) \/ DeleteGroupRows(w) \/ IsMember(w) \/ PinSelect(w)
    \/ PinInsert(w) \/ PinReget(w) \/ Unpin(w) \/ GetUser(w) \/ InsertMember(w)
    \/ CommitMember(w) \/ RemoveMember(w)
=============================================================================
