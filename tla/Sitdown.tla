------------------------------ MODULE Sitdown ------------------------------
(***************************************************************************)
(* The whole service: the requests of both apps on every worker, the edits *)
(* an administrator makes in the Django admin, and the ways a request can  *)
(* die before its last statement.  The properties are those of the system. *)
(***************************************************************************)
EXTENDS GroupsApp, MeetingsApp

CONSTANTS
    RoleEdits,   \* bound: the <<user, role>> edits of the administrator
    Deletable    \* bound: the users the administrator deletes

ASSUME AdminAssumption == RoleEdits \subseteq User \X Roles /\ Deletable \subseteq User

-----------------------------------------------------------------------------
\* The change form of UserAdmin.
SetRole ==
    /\ \E e \in RoleEdits :
          /\ e[1] \in DOMAIN role
          /\ role' = [role EXCEPT ![e[1]] = e[2]]
    /\ UNCHANGED <<name, members, pins, meetings, entries, clock, deleted, req>>

\* The delete action of UserAdmin, in one transaction.
DeleteUser ==
    /\ \E u \in Deletable \cap DOMAIN role : Cascade({}, {}, {u})
    /\ UNCHANGED req

\* statement_timeout cancels the statement, the connection drops, or gunicorn
\* kills the worker: an open transaction rolls back.
Abort(w) ==
    /\ "Abort" \in Kinds /\ req[w].pc # "idle"
    /\ Answer(w, 500)
    /\ UNCHANGED db

\* Defective variant: no statement_timeout.
NoStatementTimeout(w) == FALSE

\* An INSERT that waits for another transaction waits for 15 s at most.
StatementTimeout(w) ==
    /\ req[w].pc = "insert_member" /\ PairLocked(w)
    /\ Answer(w, 500)
    /\ UNCHANGED db

Call(w) == GroupCall(w) \/ MeetingCall(w)
Serve(w) == GroupStep(w) \/ MeetingStep(w) \/ StatementTimeout(w)

Next ==
    \/ \E w \in Worker : Call(w) \/ Serve(w) \/ Abort(w)
    \/ SetRole
    \/ DeleteUser

Spec == Init /\ [][Next]_vars

\* A worker that has a request goes on with it: statements return or time out.
FairSpec == Spec /\ \A w \in Worker : WF_vars(Serve(w))

-----------------------------------------------------------------------------
(***************************************************************************)
(* What holds however requests interleave.                                 *)
(***************************************************************************)
\* Every row refers to rows that exist, although groups, meetings and users
\* are deleted while requests that loaded them are under way.
RefIntegrity ==
    /\ \A p \in members \cup pins : p[1] \in DOMAIN role /\ p[2] \in DOMAIN name
    /\ \A m \in DOMAIN meetings : meetings[m].group \in DOMAIN name
    /\ \A k \in DOMAIN entries : k[1] \in DOMAIN meetings /\ k[2] \in DOMAIN role

\* What was deleted stays deleted: a request that loaded a group, a meeting or
\* a user before its deletion and saves it afterwards does not bring it back.
NoResurrection ==
    deleted \cap (DOMAIN role \cup DOMAIN name \cup DOMAIN meetings) = {}

\* create_with_entries inserts its entries without ignore_conflicts: no backfill
\* running at the same time may have reached the meeting it is creating.
CreateNeverConflicts ==
    \A w \in Worker : req[w].pc \in InCreateMeeting =>
        \A k \in DOMAIN entries : k[1] # req[w].m

\* A section of an entry changes only by a PATCH that names it, to the value it
\* names: of two PATCHes of one entry at once neither undoes the other's
\* sections, and neither a backfill nor a re-add touches an entry that exists.
SectionsChangeByName ==
    [][\A k \in DOMAIN entries \cap DOMAIN entries' : \A f \in Field :
          entries'[k].text[f] # entries[k].text[f] =>
              \E w \in Worker :
                  /\ req[w].op = "PatchEntry" /\ <<req[w].m, req[w].u>> = k
                  /\ req[w].ebody[f] = entries'[k].text[f]
                  /\ req[w].pc # "idle" /\ req'[w].status = 200]_vars

Patched(new, old, body) == new = (IF body = None THEN old ELSE body)

\* The date and the completed flag of a meeting change only by a PATCH that
\* names them; its group never changes.
MeetingChangesByName ==
    [][\A m \in DOMAIN meetings \cap DOMAIN meetings' :
          meetings'[m] # meetings[m] =>
              \E w \in Worker :
                  /\ req[w].op = "PatchMeeting" /\ req[w].m = m
                  /\ meetings'[m].group = meetings[m].group
                  /\ Patched(meetings'[m].date, meetings[m].date, req[w].mbody.date)
                  /\ Patched(meetings'[m].completed, meetings[m].completed,
                             req[w].mbody.completed)]_vars

\* Every commit of a request is one its caller's role, as read when the request
\* was authenticated, allows: groups, members and meetings to a MANAGER, an
\* entry's text to a MANAGER or to the MEMBER it belongs to, a pin to the user
\* who pins.  The check is several statements before the commit; a role edited
\* meanwhile counts from the next request on.
Allowed(r) ==
    \/ r.role = "MANAGER"
    \/ /\ UNCHANGED <<role, name, members, meetings, deleted>>
       /\ DOMAIN entries' = DOMAIN entries
       /\ \A k \in DOMAIN entries : entries'[k] # entries[k] =>
             r.role = "MEMBER" /\ k[2] = r.by
       /\ \A p \in (pins \cup pins') \ (pins \cap pins') : p[1] = r.by

Authority ==
    [][req' # req => \E w \in Worker : req'[w] # req[w] /\ (db' # db => Allowed(req[w]))]_vars

\* An entry leaves the table only with its meeting or its user: removing a
\* member, and adding the user again, keep the history.
HistoryPreserved ==
    [][\A k \in DOMAIN entries \ DOMAIN entries' :
          k[1] \notin DOMAIN meetings' \/ k[2] \notin DOMAIN role']_vars

\* Whoever pins a group is told 204 and finds it pinned, or told why not,
\* also when the same user's other tab pins it at the same moment: the answer
\* is a 500 only when the group or the user was deleted meanwhile.  For instances
\* without aborts, and without the other tab's unpinning.
PinIdempotent ==
    [][\A w \in Worker : req[w].op = "PutPin" /\ req'[w].pc = "idle" =>
          \/ req'[w].status = 204 /\ <<req[w].by, req[w].g>> \in pins'
          \/ req'[w].status \in {403, 404}
          \/ req'[w].status = 500 /\ {req[w].g, req[w].by} \cap deleted # {}]_vars

\* Entries belong to members who are not guests, whatever rolled back: for
\* instances without removals and without role edits.
EntriesOnlyOfMembers ==
    \A k \in DOMAIN entries :
        <<k[2], meetings[k[1]].group>> \in members /\ role[k[2]] # "GUEST"

\* A request that was accepted is answered.
Answered == \A w \in Worker : req[w].pc # "idle" ~> req[w].pc = "idle"

-----------------------------------------------------------------------------
(***************************************************************************)
(* What the code promises, and keeps while requests do not overlap.        *)
(***************************************************************************)
\* Every member who is not a guest has an entry in every open meeting.
Coverage ==
    \A p \in members : \A m \in MeetingsOf(p[2]) :
        ~meetings[m].completed /\ role[p[1]] # "GUEST" => <<m, p[1]>> \in DOMAIN entries

\* The entries of a completed meeting are read-only for everyone.
CompletedReadOnly ==
    [][\A k \in DOMAIN entries \cap DOMAIN entries' :
          meetings[k[1]].completed => entries'[k] = entries[k]]_vars

\* A completed meeting gets no entries when a member is added.
CompletedNotBackfilled ==
    [][\A k \in DOMAIN entries' \ DOMAIN entries :
          k[1] \in DOMAIN meetings => ~meetings[k[1]].completed]_vars

\* POST members answers 409 only when the user is a member of the group already.
ConflictMeansMember ==
    [][\A w \in Worker : req[w].op = "PostMember" /\ req'[w].status = 409
                         /\ req[w].pc # "idle" =>
          <<req[w].u, req[w].g>> \in members]_vars

\* The promise of a new entry, whichever of the two code paths made it, is the
\* non-blank will_do of the user's entry in the group that is last by date and,
\* on a date, last updated; it is blank for a user who has none.
IsLastWillDo(g, u, t) ==
    LET dated == {<<meetings[k[1]].date, entries[k].upd, entries[k].text["will_do"]>> :
                     k \in {x \in DOMAIN entries : x[2] = u /\ meetings[x[1]].group = g}}
        plans == {d \in dated : d[3] # Blank}
    IN IF plans = {} THEN t = Blank
       ELSE \E d \in plans : d[3] = t /\ \A e \in plans :
               e[1] < d[1] \/ (e[1] = d[1] /\ e[2] <= d[2])

PromiseIsLastWillDo ==
    [][\A k \in DOMAIN entries' \ DOMAIN entries :
          IsLastWillDo(meetings'[k[1]].group, k[2], entries'[k].text["promised"])]_vars

\* The promise of a new meeting's entry comes from an earlier meeting.
PromiseFromEarlier ==
    [][\A k \in DOMAIN entries' \ DOMAIN entries :
          k[1] \notin DOMAIN meetings /\ entries'[k].text["promised"] # Blank =>
              \E j \in DOMAIN entries :
                  /\ j[2] = k[2] /\ meetings[j[1]].group = meetings'[k[1]].group
                  /\ meetings[j[1]].date <= meetings'[k[1]].date
                  /\ entries[j].text["will_do"] = entries'[k].text["promised"]]_vars
-----------------------------------------------------------------------------
(***************************************************************************)
(* The inductive invariant behind RefIntegrity, NoResurrection and         *)
(* CreateNeverConflicts.                                                   *)
(***************************************************************************)
\* The statements of each kind of request.
PcsOf(op) ==
    CASE op = "PostGroup" -> {"create_group"}
      [] op = "PatchGroup" -> {"get_group", "update_group"}
      [] op = "DeleteGroup" -> {"get_group", "collect_group", "delete_dependents", "delete_group"}
      [] op = "PutPin" -> {"get_group", "is_member", "pin_select", "pin_insert", "pin_reget"}
      [] op = "DeletePin" -> {"get_group", "is_member", "unpin"}
      [] op = "PostMember" -> {"get_group", "get_user", "insert_member"} \cup InAddMember
      [] op = "DeleteMember" -> {"get_group", "remove_member"}
      [] op = "PostMeeting" -> {"get_group", "insert_meeting"} \cup InCreateMeeting
      [] op = "PatchMeeting" -> {"get_meeting", "update_meeting"}
      [] op = "DeleteMeeting" -> {"get_meeting", "delete_entries", "delete_meeting"}
      [] op = "PatchEntry" -> {"get_meeting", "get_entry", "update_entry"}
      [] op = "none" -> {"idle"}

\* A request holds what its kind needs ...
ArgumentsOK(r) ==
    /\ r.op # "none" => r.by \in User
    /\ r.op \in GetGroupOps \cup {"PostMeeting"} => r.g \in Group
    /\ r.op = "PostGroup" => r.gname \in Name
    /\ r.op \in {"PostMember", "DeleteMember", "PatchEntry"} => r.u \in User
    /\ r.op \in {"PatchMeeting", "DeleteMeeting", "PatchEntry"} => r.m \in Meeting
    /\ r.op \in {"PostMeeting", "PatchMeeting"} => r.mbody \in MeetingBody
    /\ r.op = "PostMeeting" => r.mbody.date \in Date
    /\ r.op = "PatchEntry" => r.ebody \in EntryBody
    /\ r.op = "PostMember" => DOMAIN r.carry \subseteq {r.u}

\* ... and what the statement it executes next needs.
LoadedOK(r, pc) ==
    /\ pc \in PcsOf(r.op)
    /\ pc = "update_group" => r.gname \in Name
    /\ pc \in InCreateMeeting => r.m \in Meeting
    /\ pc = "update_meeting" => r.mrow \in MeetingRow
    /\ pc = "update_entry" => r.erow \in EntryRow /\ \E f \in Field : r.ebody[f] # None

RequestOK(r) == r \in Request /\ ArgumentsOK(r) /\ LoadedOK(r, r.pc)

\* The id a transaction has drawn for its meeting is no other row's, was never
\* anyone's, and is no other transaction's.
DrawnIdsFresh ==
    /\ \A w \in Worker : req[w].pc \in InCreateMeeting =>
          req[w].m \notin DOMAIN meetings \cup deleted
    /\ \A v, w \in Worker :
          v # w /\ req[v].pc \in InCreateMeeting /\ req[w].pc \in InCreateMeeting =>
              req[v].m # req[w].m

RequestsOK == req \in [Worker -> Request] /\ \A w \in Worker : RequestOK(req[w])

TypeInv == TablesOK /\ RequestsOK
IInv == TypeInv /\ RefIntegrity /\ NoResurrection /\ DrawnIdsFresh
=============================================================================
