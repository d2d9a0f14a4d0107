------------------------------- MODULE Tables -------------------------------
(***************************************************************************)
(* The database and, for every gunicorn worker, the request it is serving. *)
(*                                                                         *)
(* A worker is synchronous: it serves one request at a time, and between   *)
(* two SQL statements of a request the other workers may run.  The request *)
(* record holds what the Python code keeps in local variables between two  *)
(* statements; req[w].pc names the statement worker w executes next.       *)
(* Statements run at READ COMMITTED: each one sees what is committed.      *)
(***************************************************************************)
EXTENDS Rows

CONSTANTS
    Worker,                 \* gunicorn worker processes
    Kinds,                  \* bound: the kinds of request clients send
    Callers,                \* bound: the users who send them
    MeetingPatches,         \* bound: the bodies of PATCH /meetings/{id}
    EntryPatches,           \* bound: the bodies of PATCH /meetings/{id}/entries/{user}
    MaxClock                \* bound: entry PATCHes that write, in all

VARIABLE req    \* the request each worker serves

vars == <<db, req>>

\* A PATCH names known sections and columns.
ASSUME ClientAssumption ==
    /\ Callers \subseteq User
    /\ MeetingPatches \subseteq MeetingBody
    /\ EntryPatches \subseteq EntryBody
    /\ MaxClock \in Nat

-----------------------------------------------------------------------------
(***************************************************************************)
(* Requests.                                                               *)
(***************************************************************************)
GroupOps == {"PostGroup", "PatchGroup", "DeleteGroup", "PutPin", "DeletePin",
             "PostMember", "DeleteMember"}
MeetingOps == {"PostMeeting", "PatchMeeting", "DeleteMeeting", "PatchEntry"}

\* The statements executed inside a transaction that is open and uncommitted.
InAddMember == {"open_meetings", "latest_will_do", "commit_member"}
InCreateMeeting == {"read_members", "carry_over", "commit_meeting"}

Pcs == {"idle", "create_group", "get_group", "update_group", "collect_group",
        "delete_dependents", "delete_group", "is_member", "pin_select", "pin_insert", "pin_reget",
        "unpin", "get_user", "insert_member", "remove_member", "insert_meeting",
        "get_meeting", "update_meeting", "delete_entries", "delete_meeting",
        "get_entry", "update_entry"} \cup InAddMember \cup InCreateMeeting

Statuses == {0, 200, 201, 204, 403, 404, 409, 500}
Request ==
    [pc : Pcs,
     op : GroupOps \cup MeetingOps \cup {"none"},
     by : User \cup {None},             \* request.user
     role : Roles,                      \* request.user.role, as read at authentication
     g : Group \cup {None},             \* path parameters, or ids drawn or loaded
     m : Meeting \cup {None},
     u : User \cup {None},              \* the target user
     trole : Roles,                     \* the target user's role, as loaded
     gname : Name \cup {None},          \* the parsed body, of a group,
     mbody : MeetingBody \cup {None},   \* of a meeting
     ebody : EntryBody \cup {None},     \* and of an entry
     mrow : MeetingRow \cup {None},     \* the ORM row loaded for an update
     erow : EntryRow \cup {None},
     seen : SUBSET Meeting,             \* a list of meetings loaded
     found : [members : SUBSET Pair, pins : SUBSET Pair, entries : SUBSET Key],
                                        \* rows that a DELETE of this transaction took
     carry : PartialFn(User, Text),     \* promised text, per user
     status : Statuses]                 \* of the latest answer, 0 when there is none

Idle == [pc |-> "idle", op |-> "none", by |-> None, role |-> "GUEST", g |-> None,
         m |-> None, u |-> None, trole |-> "GUEST", gname |-> None, mbody |-> None,
         ebody |-> None, mrow |-> None, erow |-> None,
         seen |-> {}, found |-> [members |-> {}, pins |-> {}, entries |-> {}],
         carry |-> [u \in {} |-> Blank], status |-> 0]

\* Worker w goes on to statement pc, having stored what r adds to its request.
Step(w, r, pc) == req' = [req EXCEPT ![w] = [r EXCEPT !.pc = pc]]

\* Worker w answers and is free again.
Answer(w, code) == req' = [req EXCEPT ![w] = [Idle EXCEPT !.status = code]]

\* An exception ends the request: errors maps the exceptions the controller
\* catches to the status it answers; any other becomes a 500.
Raise(w, errors, e) ==
    Answer(w, IF e \in DOMAIN errors THEN errors[e] ELSE 500)

\* The COMMIT of a deletion: the foreign keys find nothing that refers to the
\* groups gs and to the meetings ms but the rows the transaction deleted itself.
NothingRefers(gs, ms, found) ==
    \A table \in DOMAIN found : Dependents(gs, ms)[table] \subseteq found[table]

\* Authentication loads the caller's row; the request keeps that copy.
Authenticated(op, u) ==
    [Idle EXCEPT !.op = op, !.by = u, !.role = role[u]]

Accepts(w, kind) == req[w].pc = "idle" /\ kind \in Kinds

Init ==
    /\ RowsInit
    /\ req = [w \in Worker |-> Idle]
=============================================================================
