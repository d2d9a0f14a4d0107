------------------------------ MODULE Standup -------------------------------
(***************************************************************************)
(* What the service promises: every request takes effect in one step, the  *)
(* one that answers it, or not at all; the effect and the status are those *)
(* of its kind, for its arguments.  There are no statements, no            *)
(* transactions and no stale reads here.                                   *)
(*                                                                         *)
(* With Serial = TRUE the promise is the whole one: whom a new meeting and *)
(* a new membership get entries for, and with what promise, is decided by  *)
(* the rows at that step, and a completed meeting is frozen.  With Serial  *)
(* = FALSE it is what is left when requests overlap: those choices may     *)
(* have been made on rows that have changed since.                         *)
(***************************************************************************)
EXTENDS Rows

CONSTANTS
    Worker,     \* who answers
    Serial      \* TRUE when requests do not overlap

VARIABLE reply  \* the request each worker serves, or the status it answered last

aVars == <<db, reply>>

Ops == {"PostGroup", "PatchGroup", "DeleteGroup", "PutPin", "DeletePin", "PostMember",
        "DeleteMember", "PostMeeting", "PatchMeeting", "DeleteMeeting", "PatchEntry"}

\* A caller, ids and a parsed body: None for what a kind of request has not.
Asked ==
    [op : Ops, by : User, g : Group \cup {None}, m : Meeting \cup {None},
     u : User \cup {None}, gname : Name \cup {None}, mbody : MeetingBody \cup {None},
     ebody : EntryBody \cup {None}, status : {0}]

Free(code) ==
    [op |-> "none", by |-> None, g |-> None, m |-> None, u |-> None, gname |-> None,
     mbody |-> None, ebody |-> None, status |-> code]

\* The other workers go on with what they do.
Only(w) == reply' = [reply EXCEPT ![w] = reply'[w]]

Begin(w) ==
    /\ reply[w].op = "none" /\ reply'[w] \in Asked /\ Only(w)
    /\ UNCHANGED db

\* The request has been answered, and the worker is free again.
Done(w, code) == reply'[w] = Free(code) /\ Only(w)

\* With what a request may be refused; one whose caller's role does not allow
\* its kind is refused when it comes.
Refusals(op) ==
    CASE op = "none" -> {403}
      [] op = "PostGroup" -> {500}
      [] op \in {"PutPin", "DeletePin", "PatchEntry"} -> {403, 404, 500}
      [] op = "PostMember" -> {404, 409, 500}
      [] OTHER -> {404, 500}

\* A refused request, for whatever reason, has written nothing.
Refuse(w) ==
    /\ \E code \in Refusals(reply[w].op) : Done(w, code)
    /\ UNCHANGED db

-----------------------------------------------------------------------------
(***************************************************************************)
(* Groups, pins and members.                                               *)
(***************************************************************************)
NewGroup(n) ==
    /\ \E g \in Group \ (DOMAIN name \cup deleted) :
          name' = [h \in DOMAIN name \cup {g} |-> IF h = g THEN n ELSE name[h]]
    /\ UNCHANGED <<role, members, pins, meetings, entries, clock, deleted>>

RenameGroup(g, n) ==
    /\ g \in DOMAIN name
    /\ name' = [name EXCEPT ![g] = IF n = None THEN @ ELSE n]
    /\ UNCHANGED <<role, members, pins, meetings, entries, clock, deleted>>

\* A group goes with all that is in it.
DropGroup(g) ==
    /\ name' = Without(name, {g})
    /\ members' = {p \in members : p[2] # g}
    /\ pins' = {p \in pins : p[2] # g}
    /\ meetings' = Without(meetings, MeetingsOf(g))
    /\ entries' = Without(entries, EntriesOf(MeetingsOf(g)))
    /\ deleted' = deleted \cup MeetingsOf(g) \cup ({g} \cap DOMAIN name)
    /\ UNCHANGED <<role, clock>>

Pin(u, g) ==
    /\ u \in DOMAIN role /\ g \in DOMAIN name
    /\ pins' = pins \cup {<<u, g>>}
    /\ UNCHANGED <<role, name, members, meetings, entries, clock, deleted>>

Unpinned(u, g) ==
    /\ pins' = pins \ {<<u, g>>}
    /\ UNCHANGED <<role, name, members, meetings, entries, clock, deleted>>

\* The last plan of u in g, by meeting date and then by time of writing.
Plans(g, u) ==
    {k \in EntriesOf(MeetingsOf(g)) : k[2] = u /\ entries[k].text["will_do"] # Blank}
Newer(j, k) ==
    \/ meetings[j[1]].date > meetings[k[1]].date
    \/ meetings[j[1]].date = meetings[k[1]].date /\ entries[j].upd > entries[k].upd
IsPlan(t, g, u) ==
    \/ Plans(g, u) = {} /\ t = Blank
    \/ \E k \in Plans(g, u) :
          t = entries[k].text["will_do"] /\ \A j \in Plans(g, u) : ~Newer(j, k)

OpenIn(g) == {m \in MeetingsOf(g) : ~meetings[m].completed}

\* u joins g and gets an entry, if it has none yet, in meetings of the group:
\* in every open one, unless u is a GUEST.
Join(u, g) ==
    /\ u \in DOMAIN role /\ g \in DOMAIN name /\ <<u, g>> \notin members
    /\ \E t \in Text, ms \in SUBSET MeetingsOf(g) :
          /\ Serial => /\ ms = IF role[u] = "GUEST" THEN {} ELSE OpenIn(g)
                       /\ ms # {} => IsPlan(t, g, u)
          /\ entries' = InsertMissing([k \in ms \X {u} |-> NewEntry(t)])
    /\ members' = members \cup {<<u, g>>}
    /\ UNCHANGED <<role, name, pins, meetings, clock, deleted>>

Leave(u, g) ==
    /\ <<u, g>> \in members
    /\ members' = members \ {<<u, g>>}
    /\ UNCHANGED <<role, name, pins, meetings, entries, clock, deleted>>

-----------------------------------------------------------------------------
(***************************************************************************)
(* Meetings and entries.                                                   *)
(***************************************************************************)
Regulars(g) == {u \in DOMAIN role : <<u, g>> \in members /\ role[u] # "GUEST"}

\* A meeting comes with the entries of users: of all members but the guests.
Convene(g, d) ==
    /\ g \in DOMAIN name
    /\ \E m \in Meeting \ (DOMAIN meetings \cup deleted), us \in SUBSET DOMAIN role :
       \E promise \in [us -> Text] :
          /\ Serial => us = Regulars(g) /\ \A u \in us : IsPlan(promise[u], g, u)
          /\ meetings' = [k \in DOMAIN meetings \cup {m} |->
                            IF k = m THEN [group |-> g, date |-> d, completed |-> FALSE]
                                     ELSE meetings[k]]
          /\ entries' = [k \in DOMAIN entries \cup ({m} \X us) |->
                            IF k[1] = m THEN NewEntry(promise[k[2]]) ELSE entries[k]]
    /\ UNCHANGED <<role, name, members, pins, clock, deleted>>

\* Date and flag, together or alone or neither.
Reschedule(m, body) ==
    /\ m \in DOMAIN meetings
    /\ meetings' = [meetings EXCEPT
          ![m].date = IF body.date = None THEN @ ELSE body.date,
          ![m].completed = IF body.completed = None THEN @ ELSE body.completed]
    /\ UNCHANGED <<role, name, members, pins, entries, clock, deleted>>

\* A meeting goes with its entries.
DropMeeting(m) ==
    /\ meetings' = Without(meetings, {m})
    /\ entries' = Without(entries, EntriesOf({m}))
    /\ deleted' = deleted \cup ({m} \cap DOMAIN meetings)
    /\ UNCHANGED <<role, name, members, pins, clock>>

\* The named sections of one entry change, the others and all other entries stay.
Write(k, body) ==
    /\ k \in DOMAIN entries
    /\ \/ /\ \A f \in Field : body[f] = None
          /\ UNCHANGED <<entries, clock>>
       \/ /\ \E f \in Field : body[f] # None
          /\ Serial => ~meetings[k[1]].completed
          /\ entries' = [entries EXCEPT ![k] =
                [text |-> [f \in Field |-> IF body[f] = None THEN @.text[f] ELSE body[f]],
                 upd |-> clock + 1]]
          /\ clock' = clock + 1
    /\ UNCHANGED <<role, name, members, pins, meetings, deleted>>

-----------------------------------------------------------------------------
(***************************************************************************)
(* The administrator.                                                      *)
(***************************************************************************)
ChangeRole ==
    /\ \E u \in DOMAIN role, r \in Roles : role' = [role EXCEPT ![u] = r]
    /\ UNCHANGED <<name, members, pins, meetings, entries, clock, deleted, reply>>

DropUser ==
    /\ \E u \in DOMAIN role :
          /\ role' = Without(role, {u})
          /\ members' = {p \in members : p[1] # u}
          /\ pins' = {p \in pins : p[1] # u}
          /\ entries' = Without(entries, {k \in DOMAIN entries : k[2] = u})
          /\ deleted' = deleted \cup {u}
    /\ UNCHANGED <<name, meetings, clock, reply>>

-----------------------------------------------------------------------------
aInit == RowsInit /\ reply = [w \in Worker |-> Free(0)]

\* What each kind of request does to which rows, and with what status it ends.
Effect(w) ==
    LET r == reply[w]
    IN \/ r.op = "PostGroup" /\ Done(w, 201) /\ NewGroup(r.gname)
       \/ r.op = "PatchGroup" /\ Done(w, 200) /\ RenameGroup(r.g, r.gname)
       \/ r.op = "DeleteGroup" /\ Done(w, 204) /\ DropGroup(r.g)
       \/ r.op = "PutPin" /\ Done(w, 204) /\ Pin(r.by, r.g)
       \/ r.op = "DeletePin" /\ Done(w, 204) /\ Unpinned(r.by, r.g)
       \/ r.op = "PostMember" /\ Done(w, 201) /\ Join(r.u, r.g)
       \/ r.op = "DeleteMember" /\ Done(w, 204) /\ Leave(r.u, r.g)
       \/ r.op = "PostMeeting" /\ Done(w, 201) /\ Convene(r.g, r.mbody.date)
       \/ r.op = "PatchMeeting" /\ Done(w, 200) /\ Reschedule(r.m, r.mbody)
       \/ r.op = "DeleteMeeting" /\ Done(w, 204) /\ DropMeeting(r.m)
       \/ r.op = "PatchEntry" /\ Done(w, 200) /\ Write(<<r.m, r.u>>, r.ebody)

aNext ==
    \/ \E w \in Worker : Begin(w) \/ Refuse(w) \/ Effect(w)
    \/ ChangeRole
    \/ DropUser

aSpec == aInit /\ [][aNext]_aVars
=============================================================================
