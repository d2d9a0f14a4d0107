-------------------------------- MODULE Rows --------------------------------
(***************************************************************************)
(* The one Postgres database of a sitdown-rest deployment: its tables, the *)
(* rows at start, and what SQL and the ORM do with rows.                   *)
(***************************************************************************)
EXTENDS Integers, FiniteSets

CONSTANTS
    User, Group, Meeting,   \* the ids uuid4 can draw, per table
    Text,                   \* values of an entry section; Blank is ''
    Blank,
    Field,                  \* the sections of an entry, "promised" and "will_do" among them
    Date,                   \* meeting dates, ordered as integers
    Name,                   \* group names
    None,                   \* Python's None: an absent value
    SeedRole, SeedName, SeedMembers, SeedMeetings, SeedEntries  \* the rows at start

VARIABLES
    role,       \* users_user: user id -> role
    name,       \* groups_group: group id -> name
    members,    \* groups_projectmember: the (user, group) pairs
    pins,       \* groups_userpinnedgroup: the (user, group) pairs
    meetings,   \* meetings_meeting: meeting id -> row
    entries,    \* meetings_memberentry: (meeting, user) -> row
    clock,      \* the time of the latest write of an entry
    deleted     \* ids of deleted users, groups and meetings: uuid4 never draws one again

db == <<role, name, members, pins, meetings, entries, clock, deleted>>

Roles == {"MANAGER", "MEMBER", "GUEST"}
MeetingRow == [group : Group, date : Date, completed : BOOLEAN]
EntryRow == [text : [Field -> Text], upd : Nat]

\* The parsed bodies of a PATCH: None for what the client left out.
MeetingBody == [date : Date \cup {None}, completed : BOOLEAN \cup {None}]
EntryBody == [Field -> Text \cup {None}]

Pair == User \X Group
Key == Meeting \X User

IsTable(t, S, R) == DOMAIN t \subseteq S /\ t \in [DOMAIN t -> R]
PartialFn(S, R) == UNION {[D -> R] : D \in SUBSET S}

(***************************************************************************)
(* What the code may assume: the ids of different tables differ, None is   *)
(* no value, and the rows at start satisfy the foreign keys.               *)
(***************************************************************************)
ASSUME DataAssumption ==
    /\ Blank \in Text /\ {"promised", "will_do"} \subseteq Field
    /\ Date \subseteq Nat
    /\ None \notin User \cup Group \cup Meeting \cup Text
    /\ None \notin Name /\ None \notin Date /\ None \notin BOOLEAN
    /\ User \cap Group = {} /\ User \cap Meeting = {} /\ Group \cap Meeting = {}

ASSUME SeedAssumption ==
    /\ IsTable(SeedRole, User, Roles)
    /\ IsTable(SeedName, Group, Name)
    /\ SeedMembers \subseteq (DOMAIN SeedRole) \X (DOMAIN SeedName)
    /\ IsTable(SeedMeetings, Meeting, MeetingRow)
    /\ \A m \in DOMAIN SeedMeetings : SeedMeetings[m].group \in DOMAIN SeedName
    /\ DOMAIN SeedEntries \subseteq (DOMAIN SeedMeetings) \X (DOMAIN SeedRole)
    /\ SeedEntries \in [DOMAIN SeedEntries -> EntryRow]

RowsInit ==
    /\ role = SeedRole
    /\ name = SeedName
    /\ members = SeedMembers
    /\ pins = {}
    /\ meetings = SeedMeetings
    /\ entries = SeedEntries
    /\ clock = 0
    /\ deleted = {}

-----------------------------------------------------------------------------
(***************************************************************************)
(* Postgres.                                                               *)
(***************************************************************************)
Without(t, S) == [k \in DOMAIN t \ S |-> t[k]]
Known(S) == S \cup deleted    \* ids a client can have seen

MeetingsOf(g) == {m \in DOMAIN meetings : meetings[m].group = g}
EntriesOf(ms) == {k \in DOMAIN entries : k[1] \in ms}

\* What refers to the groups gs and to the meetings ms.
Dependents(gs, ms) ==
    [members |-> {p \in members : p[2] \in gs}, pins |-> {p \in pins : p[2] \in gs},
     entries |-> EntriesOf(ms)]

\* The rows bulk_create inserts: one per meeting and user of the carry-over,
\* blank but for the promise.
NewEntry(promise) ==
    [text |-> [[f \in Field |-> Blank] EXCEPT !["promised"] = promise], upd |-> 0]
NewEntries(ms, carry) ==
    [k \in ms \X DOMAIN carry |-> NewEntry(carry[k[2]])]

\* INSERT ... ON CONFLICT DO NOTHING: a row that exists stays as it is.
InsertMissing(new) ==
    [k \in DOMAIN entries \cup DOMAIN new |->
        IF k \in DOMAIN entries THEN entries[k] ELSE new[k]]

\* save(update_fields=fields): the other columns keep what is stored.
SaveFields(stored, obj, fields) ==
    [f \in DOMAIN stored |-> IF f \in fields THEN obj[f] ELSE stored[f]]

\* DELETE of groups, meetings or users in one transaction, with every row the
\* ORM's collector found to depend on them (ms: the meetings it read).
Cascade(gs, ms, us) ==
    /\ entries' = Without(entries, {k \in DOMAIN entries : k[1] \in ms \/ k[2] \in us})
    /\ meetings' = Without(meetings, ms)
    /\ members' = {p \in members : p[1] \notin us /\ p[2] \notin gs}
    /\ pins' = {p \in pins : p[1] \notin us /\ p[2] \notin gs}
    /\ name' = Without(name, gs)
    /\ role' = Without(role, us)
    /\ deleted' = deleted \cup (gs \cap DOMAIN name) \cup (ms \cap DOMAIN meetings)
                          \cup (us \cap DOMAIN role)
    /\ UNCHANGED clock

TablesOK ==
    /\ IsTable(role, User, Roles)
    /\ IsTable(name, Group, Name)
    /\ members \subseteq Pair
    /\ pins \subseteq Pair
    /\ IsTable(meetings, Meeting, MeetingRow)
    /\ IsTable(entries, Key, EntryRow)
    /\ clock \in Nat
    /\ deleted \subseteq User \cup Group \cup Meeting
=============================================================================
