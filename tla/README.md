# sitdown-rest in TLA+

A verification project for the sitdown-rest server (`src/`): a Django REST API
that tracks standup meetings of project groups. The modules model every request,
one SQL statement at a time, with several gunicorn workers serving requests at
once, and the tokens the requests are authenticated with. TLC checks them on
small instances; TLAPS proves the central properties for every instance, that
the service implements an atomic specification among them.

## The system

| part | source | state it keeps | operations |
|---|---|---|---|
| groups app | `server/apps/groups` | groups, memberships, pins | create, rename, delete a group; pin, unpin; add, remove a member; lists of groups and members |
| meetings app | `server/apps/meetings` | meetings, entries (one per meeting and user, five text sections) | create, patch, delete a meeting; patch an entry; lists of meetings and entries |
| backfill signal | `server/apps/meetings/signals.py` | none | on a new membership, insert an entry into every open meeting of the group |
| users app | `server/apps/users` | users and their role (MANAGER, MEMBER, GUEST) | tokens, refresh, user list; users are edited in the Django admin |
| Django admin | `server/apps/*/admin.py` | none | staff edit any row |
| runtime | `docker/django`, `server/settings` | a request per gunicorn worker, Postgres at READ COMMITTED with `statement_timeout` 15 s | |
| lockout, DI, mappers, settings, deploy, docs | see `PROJECT.json` | | |

**How the parts interact.** A controller (`api/views.py`) resolves a use case
(`logic/usecases`), which calls the app's repository (`infra/repository.py`) and
maps its exceptions to 403, 404 and 409; anything else is a 500. The apps do not
import each other: they share the database, and a `post_save` receiver of the
meetings app runs inside the groups app's `add_member` transaction. Workers share
nothing but the database. Only three pieces of code open a transaction of several
statements (`add_member` with the receiver in it, `create_with_entries`, and the
ORM's cascading delete); every other statement commits by itself, and no code
takes a row lock. A list is answered by two to four statements, and its client
asks for page after page. Tokens are stored nowhere: the server checks a signature
and an expiry and loads the user a token names.

**What is hard.** Whatever a request read may be stale at its next statement:
the role, the completed flag, the list of open meetings, the loaded object that
is saved, the count of a list. Two transactions do not see each other's rows.
Foreign keys are deferred to COMMIT. A request can die between two statements.
Rows move between the pages of a list. The claims of a token outlive the row they
were copied from. The list of hazards, each at its line, is in `PROJECT.json`.

**What makes each part correct.**

- database: no dangling reference, nothing deleted comes back (`RefIntegrity`,
  `NoResurrection`), a unique key has one writer (`PairsReserved`);
- meetings: every member who is not a guest has an entry in every open meeting
  (`Coverage`), guests and strangers have none (`EntriesOnlyOfMembers`), a
  completed meeting is read-only (`CompletedReadOnly`, `CompletedNotBackfilled`),
  a promise is the user's last plan (`PromiseIsLastWillDo`, `PromiseFromEarlier`),
  and concurrent PATCHes do not undo each other (`SectionsChangeByName`,
  `MeetingChangesByName`);
- groups: pins are idempotent (`PinIdempotent`), removing and re-adding a member
  keeps the history (`HistoryPreserved`), 409 means what it says
  (`ConflictMeansMember`);
- all writing requests: only who may change something does (`Authority`), every
  request is answered (`Answered`), and takes effect whole and at one moment or
  not at all (`Atomic`, `AtomicAndExact`);
- lists: nothing is shown to whom it does not belong (`ReadersBelong`), nothing
  fails for no reason (`ReadErrorsExplained`), and a walk over the pages misses
  and repeats rows only for the reasons one would name (`WalkMissesNothing`,
  `WalkRepeatsNothing`);
- tokens: a role claim is never staler than an access token (`ClaimFresh`), and
  the tokens of a deleted user run out (`TokensDieWithUser`).

## The modules

| module | models | uses |
|---|---|---|
| `Rows` | the tables, and what Postgres and the ORM do with rows | |
| `Tables` | the request records of the workers | `Rows` |
| `GroupsApp` | the writing requests of the groups app | `Tables` |
| `MeetingsApp` | the writing requests of the meetings app, and the receiver | `Tables` |
| `Sitdown` | both apps on all workers, the administrator, requests that die; the properties and the inductive invariant | `GroupsApp`, `MeetingsApp` |
| `Standup` | the abstract service: one step per request | `Rows` |
| `Refinement` | `Sitdown` implements `Standup` | `Sitdown`, instances of `Standup` |
| `Promises` | what each conditional promise needs: hypotheses on behaviours, and the invariants of the requests in flight under them | `Refinement` |
| `Reading` | the five lists beside what `Standup` commits | `Standup` |
| `Tokens` | login, refresh, expiry and the users tokens name | |
| `MCSitdown`, `MCReading`, `MCTokens` | small instances for TLC | `Promises`, `Reading`, `Tokens` |
| `SitdownProofs`, `AuthorityProofs`, `RefinementProofs`, `PromisesProofs`, `ExactProofs` | the theorems about requests that write | the model they are about, each the proofs before it, `TLAPS` |
| `ReadingProofs`, `WalkProofs`, `TokensProofs` | the theorems about lists and tokens | `Reading`, `ReadingProofs`, `Tokens`; `TLAPS` |

### Requests that write

**State.** A table is a function from its key to its row, or a set of pairs when
the row is only a pair. `req[w]` is the request worker `w` serves: what the
Python code holds in local variables between two statements. `req[w].pc` names
the next statement, with `"idle"` for a free worker. `deleted` remembers the ids
of deleted rows (a client may still name them), `clock` stands for `updated_at`.

**Actions.** A request begins with a call action (`PostMember`, ...): routing,
authentication (the role is read here and kept in the request) and the use case
up to its first statement, so for manager-only requests the role check. One
action per SQL statement follows (`GetGroup`, `GetUser`, `InsertMember`, ...);
local computation belongs to the statement before it. A transaction's statements
are steps between which other workers run; its writes take effect in the step
that commits (`CommitMember`, `CommitMeeting`, `DeleteGroupRows`,
`DeleteMeetingRows`), which also checks the foreign keys, because Django declares
them DEFERRABLE INITIALLY DEFERRED. Actions whose
comment begins "Defective variant" are what a plausible bug would make of the
next action; no specification uses them, they show that the properties notice.

**Postgres and Django as modelled** (they are not in `src/`):

- READ COMMITTED: a statement sees what is committed when it starts;
- `save(update_fields=...)` writes the named columns only and raises
  `DatabaseError` when the row is gone;
- an INSERT of a unique key that another open transaction has inserted waits for
  it, for at most `statement_timeout`;
- `Group.delete()` first reads the meetings of the group (`CollectGroup`). A
  transaction then deletes the rows that refer to the group and to those meetings
  (`DeleteDependents` remembers which it `found`), then the meetings and the group
  (`DeleteGroupRows`). `Meeting.delete()` is a transaction that deletes the entries
  (`DeleteEntries`) and then the meeting (`DeleteMeetingRows`). Whatever another
  worker has committed in between and refers to what is deleted makes the COMMIT
  fail (`NothingRefers`): the answer is a 500, and nothing is gone;
- the DELETEs of memberships, of pins and of entries of a group are one step: they
  are of different tables, and a row that one of them misses fails the COMMIT like
  one that all of them miss. A request that writes a row a DELETE holds waits for
  its COMMIT, and then finds what it would have found after it; no step is taken
  for the wait. The deletion of a user in the admin is one step;
- `uuid4` never draws an id twice;
- a stale session, a role edit or a user deletion can meet any request in
  flight.

**Left out of the data.** Titles (a PATCH of a title alone goes through
`UpdateMeeting` and changes no column that is modelled), e-mail addresses, and
three of the five sections of an entry, which the code treats like the other two;
`Field` is a parameter and may name all five. New rows have `upd = 0`: their
`will_do` is blank, so the carry-over never compares their time. A reply lost
after COMMIT is not modelled: it changes no state of the server.

### What they promise

`Standup` knows of a request its kind, its caller, the ids and the body the client
sent, and the status it was answered; there are no statements in it and nothing
stale. A request begins (`Begin`), and one later step ends it: with the effect of
its kind for its arguments and the status of that kind (`Effect`: a `PostMember`
joins the user it names to the group it names and answers 201, and so on), or
refused with nothing written and a status that its kind may be refused with
(`Refuse`, `Refusals`). The administrator acts beside them. Its parameter `Serial`
chooses between two promises. With `TRUE` the rows at the step decide everything:
a new meeting has the entries of exactly the members who are not guests, a new
member gets one in exactly the open meetings, promises are last plans, completed
meetings are frozen. With `FALSE` those choices are free, because requests that
overlap make them on rows that have changed since; what is left is that a deletion
takes all of a group or of a meeting, that entries are made only in meetings of
the group, that existing entries are never overwritten, that one PATCH changes the
one row it names, to what it names, and that a refused request, whatever the
reason, has written nothing.

`Refinement` maps the tables to themselves and a request to what a client sees of
it (`Visible`: everything but the local variables, and not the id drawn for a new
meeting), so every statement but the last is a stutter and a transaction takes
effect at its COMMIT. `Atomic` (with `Serial = FALSE`) holds however requests
overlap and die. `AtomicAndExact` (with `Serial = TRUE`) holds with one worker; the
violation runs below are the ways in which it fails with two.

The carry-over is two queries in the code, and two in the model: `CarryOver` is
that of the repository, for all members of a group, `LatestWillDo` that of the
receiver, for one user. Neither uses a definition of the other. Both are held to
the same references, `IsLastWillDo` of the property `PromiseIsLastWillDo` and
`IsPlan` of `Standup`; one mutant changes the one query, another the other.

### Requests that read

`Reading` is one client, and the worker that serves it, beside everything that
commits meanwhile. Since reads see only commits, and the requests that write are
proved to implement `Standup`, their effects are taken from `Standup`. A read
changes no table, so one client sees what any number would.

The state of the client is the record `client`: the statement it is at, the
parameters of the request, what it has been answered, and history of its walk
over the pages. `StartRead` parses the query parameters (`ParseInt` is
`_parse_int_param`) and authenticates; `ReadGroup`, `ReadMeeting`,
`ReadMeetingGroup` (the lazy `meeting.group`), `HasAccess`, `Count` and `Slice`
are the statements; `NextPage` is the client's next request, authenticated anew.
It goes on while it has asked for fewer rows than the last total. `Matching` has
the WHERE clauses and `Before` the ORDER BY clauses. `Slice` returns any slice
that agrees with `Before`: rows that tie come in any order, as Postgres allows.

The history says what may excuse an odd walk: a row `left` the list, `came` into
it, two rows changed places (`moved`), or the list changed after COUNT (`late`).
Every one of the excuses in `WalkMissesNothing` and `WalkRepeatsNothing` is
needed: without it TLC finds a walk that misses or repeats a row. What the two
say is therefore asymmetric: a row that comes in front cannot make a walk miss
one, and a row that leaves cannot make it repeat one. Groups created in the same
microsecond are in no order at all, and each page may show them in another one: a
walk that has met such a tie (`Ties`, remembered in `tied`) is excused in both
properties. The instance has two groups that tie and others that do not.

Left out: the search parameter, which narrows a filter by text; the texts of the
entries, which no filter reads; timeouts of the read statements, which end a
request with a 500 and change nothing; users created during a walk (`Standup` has
the users that are there at start).

### Tokens

`Tokens` has a clock. `LogIn` and `Refresh` load the user's row, `Mint` signs an
access and a refresh token with the role that was loaded, later: hashing a
password takes time, and gunicorn kills the worker of a request that takes longer
than its default of 30 s (`MaxRequest`). A token that has expired leaves `tokens`,
for it is worth nothing any more. `past` and `gone` are history: who had which
role until when, and who was deleted when. The administrator creates users, edits
roles and deletes users at any moment. `MaxRequest` matters: both properties fail
without it, because the loaded row may be stale when the token is signed.

Left out: passwords, signatures and refused requests, which change no state, and
the active flag; decoding a token is the library's. The module shares no state
with the others: the authentication of a request reads the role from the row, not
from the claim, which is why `Sitdown` and `Reading` do not need tokens.

## The runs

`boss` is a MANAGER, `ann` a MEMBER, `gus` a GUEST. The kinds of request an
instance of `MCSitdown` allows are the constant `Kinds`.

| run | instance | shows |
|---|---|---|
| `backfill` | 2 workers, 1 group, 2 meetings (one completed), `ann` may become a guest, fairness | no open meeting is left out by a backfill, also when a request dies; a unique key has one writer; removals keep the history; every request is answered, also one that waits for a lock; types |
| `creation` | 2 workers, 3 users, 2 meeting ids | foreign keys, no resurrection, private ids, no unique-key conflict, guests get no entries; every request is answered as in `Standup`, with the effect of its kind, also one that meets an overlapping deletion |
| `groups` | 2 workers, 2 groups, both users call | foreign keys, no resurrection, authority; pinning is idempotent under `get_or_create` races |
| `entries` | 2 workers, 1 meeting, role edits | no lost update of entries and meetings, authority |
| `serial` | 1 worker, meetings of equal and different dates | the promises broken under concurrency hold when requests do not overlap; both carry-over queries return the last plan; the whole promise of `Standup` |
| `reading` | 1 client, 5 lists, pages of 1 or 2 rows of up to 3 | who is shown what, which reads fail, what a walk misses and repeats |
| `tokens` | 1 user, 2 workers, times 2, 2 and 4 | how stale a claim can be, and how long a deleted user's tokens last |

Each of the following finds a disagreement between what the repository says and
what the code does; the counterexamples are short and are described under
"findings" in `PROJECT.json`.

| run | refutes | how |
|---|---|---|
| `writeskew` | `Coverage` | a meeting is created while a member is added: neither sees the other |
| `latepatch` | `CompletedReadOnly` | a meeting is completed between the check and the save of a PATCH |
| `latebackfill` | `CompletedNotBackfilled` | a meeting is completed between the receiver's SELECT and its INSERT |
| `falseconflict` | `ConflictMeansMember` | a meeting is deleted during a backfill: the foreign key error is answered as a duplicate |
| `backdated` | `PromiseFromEarlier` | a meeting is created with a past date: the carry-over has no bound on the date |

**Promises with a condition.** Some promises the code keeps only while certain
requests do not overlap or certain edits are not made. `Promises` states each
condition as a hypothesis on the behaviour, for any number of workers; under it
the promise is a theorem (see below), and the passing runs check it on instances
that satisfy the hypothesis because of their `Kinds`, their edits or their single
worker.

| promise | holds while | what happens otherwise |
|---|---|---|
| `Coverage` | no meeting is created while a member is added, nobody is promoted from GUEST, nothing is reopened | run `writeskew`; nothing in the code backfills a promoted guest or a reopened meeting |
| `EntriesOnlyOfMembers` | nobody is removed from a group that stays, nobody becomes a GUEST | the entries stay, by design (`HistoryPreserved`) |
| `CompletedReadOnly` | no entry is patched while a meeting is patched | run `latepatch` |
| `CompletedNotBackfilled` | no member is added while a meeting is patched | run `latebackfill` |
| `ConflictMeansMember` | nothing is deleted while a member is added | run `falseconflict` |
| `PromiseIsLastWillDo` | no entry or meeting is patched and no meeting deleted while a member is added or a meeting created | the plan that was read is no longer the last |
| `PinIdempotent` | no PUT of a pin while a DELETE of one is served, no request dies | the `get` after a failed INSERT finds nothing, or the request has died: a 500 |
| `AtomicAndExact` | one request at a time, no role edit during one | all of the above |

`backfill` creates no meeting and reopens none, and its administrator makes `ann`
a guest, so that its `Coverage` sees a demotion between the statements of a
request. `serial` has one worker. `creation` removes nobody.

**Bounds of the requests that write.** Two workers show every race of two
requests; a third adds only waiting. `Kinds`, `Callers`, `MeetingPatches`,
`EntryPatches`, `RoleEdits` and `Deletable` bound what clients and the
administrator send; `MaxClock` bounds the PATCHes of entries; `Group` and
`Meeting` bound what can be created, because ids are not reused. A client sends
ids that exist or existed (`Known`). Requests that carry an id nobody ever had
take the same paths as deleted ids. Workers are interchangeable and symmetric,
except in `backfill`, where fairness is per worker.

**Bounds of `reading`.** Three rows and pages of one or two make a walk of up to
three requests with rows before, on and after every page. One walk per behaviour,
and commits only while it lasts: every walk starts from the rows of the seed, and
what commits before its first COUNT stands for other starts.
`Writes` names the kinds of commit beside each list, those that can change what
the list or its check of access reads; `Relevant` leaves out the changes of a kind
that cannot (memberships and pins of others, the completed flag); `RolesOf`
bounds the roles given. `PageParams` has a page below the first, the second, and
one beyond `MaxOffset`. The client stops when it has what it asked for, so the
run does not check deadlock.

**Bounds of `tokens`.** Two workers show a login that overlaps a refresh. The
properties are about one user at a time. Seven ticks are enough for the longest
chain a property speaks of: a row loaded late, a request, the life of a refresh
token, and one tick to see that it is over. The clock stops there (`MaxNow`), and
with it everything when there is no user, so the run does not check deadlock.

**Fairness.** `FairSpec` assumes, for every worker, weak fairness of its next
statement (`Serve`), and nothing of clients, the administrator or crashes. The
code justifies it: workers are synchronous processes, and
`statement_timeout=15000ms` ends every statement that waits. `Answered` fails
without that timeout (its mutant): two INSERTs of one pair wait for as long as
the first transaction stays open, and `Serve` of the waiting worker is enabled
only when that transaction ends or by the timeout.

## The proofs

All theorems hold for every value of the constants that satisfies the named
assumptions of the modules.

| theorem | states |
|---|---|
| `SitdownProofs` | |
| `Invariant` | `Spec => []IInv` |
| `TypeCorrect` | `Spec => []TypeInv` |
| `ReferencesHold` | `Spec => []RefIntegrity` |
| `DeletedStaysDeleted` | `Spec => []NoResurrection` |
| `DrawnIdsStayFresh` | `Spec => []DrawnIdsFresh` |
| `CreationNeverConflicts` | `Spec => []CreateNeverConflicts` |
| `HistoryKept` | `Spec => HistoryPreserved` |
| `SectionsKept` | `Spec => SectionsChangeByName` |
| `MeetingsKept` | `Spec => MeetingChangesByName` |
| `AuthorityProofs` | |
| `RequestsStayCleared` | `Spec => []AuthInv` |
| `AuthorityKept` | `Spec => Authority` |
| `RefinementProofs` | |
| `RefinementInvariant` | `Spec => []RInv` |
| `PairsStayReserved` | `Spec => []PairsReserved` |
| `ImplementsStandup` | `Spec => Atomic` |
| `ReadingProofs` | |
| `ReadersBelongToGroup` | `RSpec => []ReadersBelong` |
| `ReadErrorsAreExplained` | `RSpec => []ReadErrorsExplained` |
| `PromisesProofs` | |
| `RequestsInOrder` | `Spec => []PInv` |
| `CoverageKept` | `Spec /\ Coverage /\ []NeverTogether({"PostMeeting"}, {"PostMember"}) /\ [][NobodyPromoted /\ NothingReopened]_vars => []Coverage` |
| `EntriesStayOfMembers` | `Spec /\ EntriesOnlyOfMembers /\ [][NobodyDemoted /\ NobodyRemoved]_vars => []EntriesOnlyOfMembers` |
| `CompletedStaysReadOnly` | `Spec /\ []NeverTogether({"PatchEntry"}, {"PatchMeeting"}) => CompletedReadOnly` |
| `CompletedGetsNoBackfill` | `Spec /\ []NeverTogether({"PostMember"}, {"PatchMeeting"}) => CompletedNotBackfilled` |
| `ConflictNamesMember` | `Spec /\ [][NothingDeletedWhileAdding]_vars => ConflictMeansMember` |
| `PromiseIsKept` | `Spec /\ []NeverTogether({"PostMember", "PostMeeting"}, {"PatchEntry", "PatchMeeting", "DeleteMeeting"}) => PromiseIsLastWillDo` |
| `PinsAreIdempotent` | `"Abort" \notin Kinds => (Spec /\ []NeverTogether({"PutPin"}, {"DeletePin"}) => PinIdempotent)` |
| `ExactProofs` | |
| `ImplementsExactStandup` | `Spec /\ []OneAtATime /\ [][RolesStandWhileServing]_vars => AtomicAndExact` |
| `WalkProofs` | |
| `WalkInvariant` | `RSpec => []WalkInv` |
| `WalksRepeatNothing` | `RSpec => WalkRepeatsNothing` |
| `WalksMissNothing` | `RSpec => WalkMissesNothing` |
| `TokensProofs` | |
| `TokensInvariant` | `Spec => []TokensInv` |
| `ClaimsAreFresh` | `Spec => []ClaimFresh` |
| `TokensRunOut` | `Spec => []TokensDieWithUser` |

**Assumptions.** The ids of different tables differ and none is `None`; the
bodies of PATCHes name known sections and hold texts; the rows at start satisfy
the foreign keys; the administrator edits users; page sizes and the lives of
tokens are positive; the tables a walk starts from are finite, for a walk counts
their rows. Nothing is assumed of the number of users, groups, meetings,
workers, or of the lengths of lists, tokens and requests.

**Why `IInv`.** `RefIntegrity` alone is not inductive. When `CommitMember`
commits, its entries refer to the user it was called for only because the
carry-over it holds is that user's, and its meetings exist because the COMMIT
checked them; when `CommitMeeting` commits, its meeting's id is in the right
table only because the request drew one. So the strengthening says what a request
holds at each statement (`RequestOK`: the arguments of its kind, `ArgumentsOK`,
and what the next statement reads, `LoadedOK`). `NoResurrection` needs
`DrawnIdsFresh`: an id drawn before a commit is in no table, in no other
transaction and in no list of deleted ids. `CreateNeverConflicts` then follows:
entries refer to meetings that exist, and a drawn id is of none.

**Its argument.** The first part of `SitdownProofs` shows what `Answer`, `Raise`
and `Step` leave in the requests, and that every step but `InsertMeeting` keeps a
worker out of a meeting's transaction or in the one it was in (`Moves`). The
second part shows, action by action, that the tables stay in order (`TablesInv`)
and which meeting ids become taken (`Taken`): none, or the committing worker's
own. `DrawnIdsStep` joins the two, and `IInvStep` has one step per kind of action.
The third part proves the action properties: `StepKinds` sorts the steps by what
they do to meetings and entries that exist (nothing, an update, a deletion), and
needs `DrawnIdsFresh` to say that a commit of a new meeting overwrites none;
`UpdateEntrySections` and `UpdateMeetingRow` then say which columns a save with
`update_fields` leaves alone, however stale the row it was computed from.

**Authority.** The check of the role and the write are several statements apart,
so the property needs to know what a request that has come to its write has been
checked for. `AuthInv` adds to `IInv` that every request is `Cleared`: its role
is MANAGER, or it pins, unpins or PATCHes an entry, and once past the checks of
`update_entry` it is the request of the MEMBER the entry belongs to. The write of
each statement is then `Allowed`: eight statements belong to kinds of request a
cleared request makes only as MANAGER, two write the caller's own pin, and
`UpdateEntry` one entry, the target's. The property is relative to the role read
at authentication, as the code is: a role edited during a request does not stop
that request, and `Authority` does not say that it should.

**The refinement.** `RInv` adds to `IInv` the two facts a COMMIT relies on.
`Join` adds a pair that is no membership: `CommitMember` does because its
transaction has held the unique key since its INSERT (`PairsReserved`: the pair
is in no table and no other open transaction has inserted it). `Join` makes
entries in meetings of the group, `DropGroup` deletes exactly the meetings of the
group: `CommitMember` and `DeleteGroupRows` work from a list read earlier, whose
meetings are of the group or deleted (`SeenInGroup`), because a meeting never
changes its group and no id is drawn again. That a request ends with the status
and the effect of its own kind follows from `PcsOf` in `LoadedOK`: the statement a
request is at is one of its kind's. Three shapes of a step (`Calls`,
`Continues`, `Ends`) carry both invariants; one lemma per writing statement then
shows the step of `Standup` it is.

**The promises.** Each has an invariant of the same form: what a request has read
of the tables is still true when it writes. `Promises` says it per worker
(`NothingMissed`, `EntryOpen`, `LastPlans`, ...), and its hypothesis forbids the
requests and edits that would make it false. All rest on `PInv`, which says what a
request holds whatever overlaps: an answer is given once, the caller and the group
were there when they were checked, a list is empty until it is read (`Lists`).
The argument is then about pairs of a step and a worker. The lemma `Moment` says
what one step does to one worker: nothing, the first call of a request, its own
next statement, or its end; so each proof has a case in which the worker's own
statement reads the tables, and one in which another step changes the tables under
it. In the second case the step has a short description (`Joins`, `Convenes`, or
one that adds no membership, entry or meeting; what is patched, what is deleted)
and the hypothesis rules out what hurts. The hypotheses need not say anything of
what the invariants survive: deletions of users, groups and meetings meet a backfill
in `CoverageKept`, and removals too, since fewer rows need fewer entries.

**The exact refinement.** `ImplementsExactStandup` repeats the refinement with
`Serial = TRUE`. Of its steps only three differ from the overlapping case: a
commit of a member, a commit of a meeting and the save of an entry, where what
was read (`ExactInv`) must be exactly what the rows at the commit say. Alone, a
request meets only the administrator, who edits no role meanwhile and may delete
users: `Exact` speaks of users that are left, and the deferred foreign keys fail
the commit when one of those it needs is gone.

**The lists.** `ReadersBelong` holds because the membership is seen by the
statement that checks it, and `was` only grows while the request lasts
(`AccessInv` says what has been checked at each statement). `ErrorInv` says that
the group a meeting was read with exists or is deleted: a meeting in the tables
refers to a group that is there, and groups leave only into `deleted`.

**The walks.** The rows a walk asks for are the first `k` of the list, for the `k`
it has asked for so far, and the list changes between the pages. The first part of
`WalkProofs` is about prefixes of a finite set under an order: which rows `Slice`
can return when there are no ties (`FirstRows`, `PrefixInFirst`), when a row
is among the first `k` (`AmongFirst`) and when not (`NotAmongFirst`), by
cardinalities. `WalkInv` then carries two facts from page to page. `SeenInFront`: unless
a row came in or two changed places, the rows shown and still listed lie in a
prefix no longer than what was asked for, so the next page begins behind them and
repeats none. `UnseenBehind`: unless a row left or two changed places, a row of the
start that has not been shown has at least as many rows before it as were asked
for, so it is still to come; and the walk stops only when it has asked for as many
rows as were counted (`CountHolds`, unless the list changed after COUNT). A row
that comes in only adds rows before others and a row that leaves only takes some
away: this is why each property needs the excuses it has and no others.

**The tokens.** `TokensInv` dates everything. The row a pending request has
loaded was loaded at most `MaxRequest` ago, and its user had that role then or
later (`HadRole`, from the table or from `past`) and existed then or later
(`Existed`). The same holds of a token and the earliest moment its row can have
been loaded, its expiry less its life less `MaxRequest`. Both properties are
arithmetic from there.

**Model-checked only.** `Answered` is liveness, which this prover does not reach.
Every other property of a passing run is a theorem; those of the violation runs
are false, and with the hypothesis named above all but `PromiseFromEarlier`
become theorems.

## What is not modelled

- Staff edits of groups, memberships, meetings and entries in the admin. They are
  whole-row saves that Django defines, they may break whatever the API keeps, and
  no document limits them.
- Users created while requests run: the users of an instance of `Sitdown` and of
  `Reading` are those at start. `Tokens` has their creation.
- The login lockout: django-axes, a library with its defaults.
- Titles, the search parameter, passwords, the active flag.
- Response mapping, dependency injection, settings, health check, deployment:
  formatting, wiring and configuration without state of their own.

`PROJECT.json` gives the reason for each.

## Plan

1. `Rows`, `Tables`, `GroupsApp`, `MeetingsApp`, `Sitdown`, their runs and
   theorems: done.
2. `Standup` and `Refinement`, model-checked and proved: done.
3. `Reading`, with the proof of the walk properties from prefixes of a finite
   ordered set: done.
4. `Tokens`: done.
5. `Promises`: every conditional promise proved under its hypothesis: done.
6. Open: staff as one more actor of `Sitdown`, with the properties that survive
   whole-row saves (the foreign keys do, `NoResurrection` and
   `MeetingChangesByName` do not).
