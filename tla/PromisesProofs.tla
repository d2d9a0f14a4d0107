--------------------------- MODULE PromisesProofs ---------------------------
(***************************************************************************)
(* The promises of the documentation, each under the hypothesis that no    *)
(* overlap and no edit breaks it, for every value of the constants.        *)
(***************************************************************************)
EXTENDS Promises, RefinementProofs

-----------------------------------------------------------------------------
(***************************************************************************)
(* How a request proceeds: what its next statement finds in it.            *)
(***************************************************************************)
\* A call that is accepted.
Begins(w) ==
    /\ UNCHANGED db
    /\ req'[w].pc \in {"create_group", "get_group", "get_meeting"}
    /\ req'[w].status = 0 /\ req'[w].by \in DOMAIN role
    /\ req'[w].seen = {} /\ DOMAIN req'[w].carry = {}

\* What no statement changes.
KeepsArguments(w) ==
    /\ UNCHANGED db
    /\ req[w].pc # "idle" /\ req'[w].pc \notin {"idle", "create_group", "get_group", "get_meeting"}
    /\ req'[w].op = req[w].op /\ req'[w].by = req[w].by /\ req'[w].g = req[w].g
    /\ req'[w].u = req[w].u /\ req'[w].status = req[w].status

\* The statements that add a member.
ReadsToAdd(w) ==
    LET q == req[w]
        r == req'[w]
        kept == r.seen = q.seen /\ r.carry = q.carry
    IN /\ r.trole = q.trole \/ r.pc = "insert_member"
       /\ r.pc = "get_user" => q.pc = "get_group" /\ kept
       /\ r.pc = "insert_member" =>
             q.pc = "get_user" /\ kept /\ q.u \in DOMAIN role /\ r.trole = role[q.u]
       /\ r.pc = "open_meetings" => q.pc = "insert_member" /\ kept /\ q.trole # "GUEST"
       /\ r.pc = "latest_will_do" =>
             q.pc = "open_meetings" /\ r.carry = q.carry /\ r.seen = OpenIn(q.g)
       /\ r.pc = "commit_member" =>
             \/ q.pc = "insert_member" /\ kept /\ q.trole = "GUEST"
             \/ q.pc = "open_meetings" /\ r.carry = q.carry /\ r.seen = {} /\ OpenIn(q.g) = {}
             \/ /\ q.pc = "latest_will_do" /\ r.seen = q.seen
                /\ \E t \in LatestWillDo(q.g, q.u) : r.carry = [u \in {q.u} |-> t]

\* The statements that create a meeting.
ReadsToCreate(w) ==
    LET q == req[w]
        r == req'[w]
    IN /\ r.pc = "insert_meeting" => q.pc = "get_group" /\ r.carry = q.carry
       /\ r.pc = "read_members" => q.pc = "insert_meeting" /\ r.carry = q.carry
       /\ r.pc = "carry_over" => q.pc = "read_members" /\ DOMAIN r.carry = Regulars(q.g)
       /\ r.pc = "commit_meeting" =>
             \/ q.pc = "read_members" /\ DOMAIN r.carry = {} /\ Regulars(q.g) = {}
             \/ q.pc = "carry_over" /\ r.carry \in CarryOver(q.g, DOMAIN q.carry)

\* The statements of the other requests, and of GetGroup for all.
ReadsElse(w) ==
    LET q == req[w]
        r == req'[w]
    IN /\ q.pc = "get_group" => q.g \in DOMAIN name
       /\ r.pc = "get_entry" => q.pc = "get_meeting" /\ r.m = q.m /\ StillOpen(q.m)
       /\ r.pc = "update_entry" => q.pc = "get_entry" /\ r.m = q.m
       /\ r.pc = "pin_reget" =>
             \/ <<q.by, q.g>> \in pins
             \/ q.by \notin DOMAIN role
             \/ q.g \notin DOMAIN name

Proceeds(w) == KeepsArguments(w) /\ ReadsToAdd(w) /\ ReadsToCreate(w) /\ ReadsElse(w)

\* A request as authentication makes it, with the fields a call sets.
New(r) ==
    /\ {"status", "by", "seen", "carry", "pc", "g", "m", "u", "gname", "mbody", "ebody"}
         \subseteq DOMAIN r
    /\ r.status = 0 /\ r.seen = {} /\ DOMAIN r.carry = {} /\ r.by \in DOMAIN role

LEMMA AuthenticatedNew ==
  ASSUME NEW op, NEW by \in Callers \cap DOMAIN role
  PROVE  New(Authenticated(op, by))
BY DEF New, Authenticated, Idle

\* The manager's check refuses, or accepts.
LEMMA NewCall ==
  ASSUME RequestsOK, NEW w \in Worker, NEW r, New(r),
         NEW pc \in {"create_group", "get_group", "get_meeting"}, NEW errors,
         errors \in {GroupsCollectionErrors, GroupsDetailErrors, GroupsPinErrors,
                     GroupsMembersCollectionErrors, GroupsMembersDetailErrors,
                     MeetingsCollectionErrors, MeetingsDetailErrors, EntriesDetailErrors},
         \/ Step(w, r, pc)
         \/ ManagerOnly(w, r, pc, errors)
         \/ MeetingManagerOnly(w, r, pc, errors),
         UNCHANGED db
  PROVE  Begins(w) \/ Answer(w, 403)
<1>1. req \in [Worker -> Request] BY DEF RequestsOK
<1>2. CASE Step(w, r, pc)
  <2>1. req'[w] = [r EXCEPT !.pc = pc] BY <1>1, <1>2 DEF Step
  <2>. QED BY <2>1 DEF New, Begins
<1>3. CASE Raise(w, errors, "PermissionDenied")
  <2>1. "PermissionDenied" \in DOMAIN errors /\ errors["PermissionDenied"] = 403
    BY DEF GroupsCollectionErrors, GroupsDetailErrors, GroupsPinErrors,
           GroupsMembersCollectionErrors, GroupsMembersDetailErrors, MeetingsCollectionErrors,
           MeetingsDetailErrors, EntriesDetailErrors
  <2>. QED BY <1>3, <2>1 DEF Raise
<1>. QED BY <1>2, <1>3 DEF ManagerOnly, MeetingManagerOnly

\* A call begins a request, or is refused.
LEMMA CallBegins ==
  ASSUME TypeInv, NEW w \in Worker, Call(w)
  PROVE  req[w].pc = "idle" /\ (Begins(w) \/ Answer(w, 403))
<1>. USE DEF TypeInv
<1>1. CASE PostGroup(w)
  <2>1. PICK by \in Callers \cap DOMAIN role,
             n \in Name :
          ManagerOnly(w, [Authenticated("PostGroup", by) EXCEPT !.gname = n],
                "create_group", GroupsCollectionErrors)
    BY <1>1 DEF PostGroup
  <2>2. New([Authenticated("PostGroup", by) EXCEPT !.gname = n])
    BY AuthenticatedNew DEF New
  <2>. QED BY <1>1, <2>1, <2>2, NewCall DEF PostGroup, Accepts
<1>2. CASE PatchGroup(w)
  <2>1. PICK by \in Callers \cap DOMAIN role,
             g \in Known(DOMAIN name) \cap Group, n \in Name \cup {None} :
          ManagerOnly(w, [Authenticated("PatchGroup", by) EXCEPT !.g = g, !.gname = n],
                "get_group", GroupsDetailErrors)
    BY <1>2 DEF PatchGroup
  <2>2. New([Authenticated("PatchGroup", by) EXCEPT !.g = g, !.gname = n])
    BY AuthenticatedNew DEF New
  <2>. QED BY <1>2, <2>1, <2>2, NewCall DEF PatchGroup, Accepts
<1>3. CASE DeleteGroup(w)
  <2>1. PICK by \in Callers \cap DOMAIN role,
             g \in Known(DOMAIN name) \cap Group :
          ManagerOnly(w, [Authenticated("DeleteGroup", by) EXCEPT !.g = g],
                "get_group", GroupsDetailErrors)
    BY <1>3 DEF DeleteGroup
  <2>2. New([Authenticated("DeleteGroup", by) EXCEPT !.g = g])
    BY AuthenticatedNew DEF New
  <2>. QED BY <1>3, <2>1, <2>2, NewCall DEF DeleteGroup, Accepts
<1>4. CASE PutPin(w)
  <2>1. PICK by \in Callers \cap DOMAIN role,
             g \in Known(DOMAIN name) \cap Group :
          Step(w, [Authenticated("PutPin", by) EXCEPT !.g = g],
                "get_group")
    BY <1>4 DEF PutPin
  <2>2. New([Authenticated("PutPin", by) EXCEPT !.g = g])
    BY AuthenticatedNew DEF New
  <2>. QED BY <1>4, <2>1, <2>2, NewCall DEF PutPin, Accepts
<1>5. CASE DeletePin(w)
  <2>1. PICK by \in Callers \cap DOMAIN role,
             g \in Known(DOMAIN name) \cap Group :
          Step(w, [Authenticated("DeletePin", by) EXCEPT !.g = g],
                "get_group")
    BY <1>5 DEF DeletePin
  <2>2. New([Authenticated("DeletePin", by) EXCEPT !.g = g])
    BY AuthenticatedNew DEF New
  <2>. QED BY <1>5, <2>1, <2>2, NewCall DEF DeletePin, Accepts
<1>6. CASE PostMember(w)
  <2>1. PICK by \in Callers \cap DOMAIN role,
             g \in Known(DOMAIN name) \cap Group, u \in Known(DOMAIN role) \cap User :
          ManagerOnly(w, [Authenticated("PostMember", by) EXCEPT !.g = g, !.u = u],
                "get_group", GroupsMembersCollectionErrors)
    BY <1>6 DEF PostMember
  <2>2. New([Authenticated("PostMember", by) EXCEPT !.g = g, !.u = u])
    BY AuthenticatedNew DEF New
  <2>. QED BY <1>6, <2>1, <2>2, NewCall DEF PostMember, Accepts
<1>7. CASE DeleteMember(w)
  <2>1. PICK by \in Callers \cap DOMAIN role,
             g \in Known(DOMAIN name) \cap Group, u \in Known(DOMAIN role) \cap User :
          ManagerOnly(w, [Authenticated("DeleteMember", by) EXCEPT !.g = g, !.u = u],
                "get_group", GroupsMembersDetailErrors)
    BY <1>7 DEF DeleteMember
  <2>2. New([Authenticated("DeleteMember", by) EXCEPT !.g = g, !.u = u])
    BY AuthenticatedNew DEF New
  <2>. QED BY <1>7, <2>1, <2>2, NewCall DEF DeleteMember, Accepts
<1>8. CASE PostMeeting(w)
  <2>1. PICK by \in Callers \cap DOMAIN role,
             g \in Known(DOMAIN name) \cap Group, d \in Date :
          MeetingManagerOnly(w, [Authenticated("PostMeeting", by) EXCEPT !.g = g, !.mbody = [date |-> d, completed |-> None]],
                "get_group", MeetingsCollectionErrors)
    BY <1>8 DEF PostMeeting
  <2>2. New([Authenticated("PostMeeting", by) EXCEPT !.g = g, !.mbody = [date |-> d, completed |-> None]])
    BY AuthenticatedNew DEF New
  <2>. QED BY <1>8, <2>1, <2>2, NewCall DEF PostMeeting, Accepts
<1>9. CASE PatchMeeting(w)
  <2>1. PICK by \in Callers \cap DOMAIN role,
             m \in Known(DOMAIN meetings) \cap Meeting, body \in MeetingPatches :
          MeetingManagerOnly(w, [Authenticated("PatchMeeting", by) EXCEPT !.m = m, !.mbody = body],
                "get_meeting", MeetingsDetailErrors)
    BY <1>9 DEF PatchMeeting
  <2>2. New([Authenticated("PatchMeeting", by) EXCEPT !.m = m, !.mbody = body])
    BY AuthenticatedNew DEF New
  <2>. QED BY <1>9, <2>1, <2>2, NewCall DEF PatchMeeting, Accepts
<1>10. CASE DeleteMeeting(w)
  <2>1. PICK by \in Callers \cap DOMAIN role,
             m \in Known(DOMAIN meetings) \cap Meeting :
          MeetingManagerOnly(w, [Authenticated("DeleteMeeting", by) EXCEPT !.m = m],
                "get_meeting", MeetingsDetailErrors)
    BY <1>10 DEF DeleteMeeting
  <2>2. New([Authenticated("DeleteMeeting", by) EXCEPT !.m = m])
    BY AuthenticatedNew DEF New
  <2>. QED BY <1>10, <2>1, <2>2, NewCall DEF DeleteMeeting, Accepts
<1>11. CASE PatchEntry(w)
  <2>1. PICK by \in Callers \cap DOMAIN role,
             m \in Known(DOMAIN meetings) \cap Meeting, u \in Known(DOMAIN role) \cap User, body \in EntryPatches :
          Step(w, [Authenticated("PatchEntry", by) EXCEPT !.m = m, !.u = u, !.ebody = body],
                "get_meeting")
    BY <1>11 DEF PatchEntry
  <2>2. New([Authenticated("PatchEntry", by) EXCEPT !.m = m, !.u = u, !.ebody = body])
    BY AuthenticatedNew DEF New
  <2>. QED BY <1>11, <2>1, <2>2, NewCall DEF PatchEntry, Accepts
<1>. QED BY <1>1, <1>2, <1>3, <1>4, <1>5, <1>6, <1>7, <1>8, <1>9, <1>10, <1>11
         DEF Call, GroupCall, MeetingCall

\* Step stores r and nothing else.
LEMMA StepStores ==
  ASSUME RequestsOK, NEW w \in Worker, NEW r \in Request, NEW pc, Step(w, r, pc)
  PROVE  /\ req'[w].op = r.op /\ req'[w].by = r.by /\ req'[w].g = r.g /\ req'[w].u = r.u
         /\ req'[w].m = r.m /\ req'[w].trole = r.trole /\ req'[w].seen = r.seen
         /\ req'[w].carry = r.carry /\ req'[w].status = r.status /\ req'[w].pc = pc
<1>1. req'[w] = [r EXCEPT !.pc = pc] BY DEF Step, RequestsOK
<1>. QED BY <1>1 DEF Request

\* A statement of worker w that ends nothing leaves db and the arguments.
LEMMA Stored ==
  ASSUME RequestsOK, NEW w \in Worker, NEW r \in Request, NEW pc, Step(w, r, pc),
         pc \notin {"idle", "create_group", "get_group", "get_meeting"},
         r.op = req[w].op, r.by = req[w].by, r.g = req[w].g, r.u = req[w].u,
         r.status = req[w].status, req[w].pc # "idle", UNCHANGED db
  PROVE  /\ KeepsArguments(w)
         /\ req'[w].m = r.m /\ req'[w].trole = r.trole /\ req'[w].seen = r.seen
         /\ req'[w].carry = r.carry /\ req'[w].pc = pc
BY StepStores DEF KeepsArguments

\* The first statement of a deletion keeps what it took, and goes on.
LEMMA FoundProceeds ==
  ASSUME TypeInv, NEW w \in Worker, NEW gs, NEW ms, NEW pc \in {"delete_group", "delete_meeting"},
         Step(w, [req[w] EXCEPT !.found = Dependents(gs, ms)], pc),
         req[w].pc \in {"delete_dependents", "delete_entries"}, UNCHANGED db
  PROVE  Proceeds(w)
<1>. DEFINE found == Dependents(gs, ms)
            r == [req[w] EXCEPT !.found = found]
<1>1. RequestsOK /\ TablesOK /\ req[w] \in Request /\ ArgumentsOK(req[w])
  BY DEF TypeInv, RequestsOK, RequestOK
<1>2. Step(w, r, pc) OBVIOUS
<1>3. r \in Request BY <1>1, FoundOK
<1>4. /\ r.op = req[w].op /\ r.by = req[w].by /\ r.g = req[w].g /\ r.u = req[w].u
      /\ r.status = req[w].status /\ r.trole = req[w].trole
  <2>. HIDE DEF found
  <2>. QED BY <1>1 DEF Request
<1>. HIDE DEF r
<1>5. KeepsArguments(w) /\ req'[w].pc = pc /\ req'[w].trole = req[w].trole
  BY <1>1, <1>2, <1>3, <1>4, Stored
<1>. QED BY <1>5 DEF Proceeds, ReadsToAdd, ReadsToCreate, ReadsElse

LEMMA GroupStepProceeds ==
  ASSUME TypeInv, NEW w \in Worker, GroupStep(w), ~Ends(w)
  PROVE  Proceeds(w)
<1>. USE DEF TypeInv
<1>0. /\ req[w] \in Request /\ RequestsOK
      /\ \A code \in Statuses \ {0} : ~Answer(w, code)
  BY DEF RequestsOK, Ends
<1>00. \A errors \in {GroupsCollectionErrors, GroupsDetailErrors, GroupsPinErrors,
                     GroupsMembersCollectionErrors, GroupsMembersDetailErrors,
                     MeetingsCollectionErrors, MeetingsDetailErrors, EntriesDetailErrors} :
          \A e : ~Raise(w, errors, e)
  <2>1. \A code \in {403, 404, 409, 500} : ~Answer(w, code) BY <1>0 DEF Statuses
  <2>. QED BY <2>1, RaiseShape
<1>000. {200, 201, 204} \subseteq Statuses \ {0} BY DEF Statuses
<1>. USE <1>0, <1>00, <1>000
<1>1. CASE GetGroup(w)
  <2>1. GroupErrors(req[w].op) \in {GroupsDetailErrors, GroupsPinErrors,
                     GroupsMembersCollectionErrors, GroupsMembersDetailErrors}
    BY <1>1 DEF GetGroup, GroupErrors, GetGroupOps, GroupOps
  <2>. DEFINE pc == AfterGetGroup(req[w])
  <2>2. /\ Step(w, req[w], pc) /\ req[w].g \in DOMAIN name
        /\ req[w].pc = "get_group" /\ UNCHANGED db
    BY <1>1, <2>1 DEF GetGroup
  <2>3. pc \in {"update_group", "collect_group", "get_user", "remove_member", "pin_select",
                "is_member", "unpin"}
    BY <1>1 DEF AfterGetGroup, GetGroup, GetGroupOps, GroupOps
  <2>. HIDE DEF pc
  <2>4. KeepsArguments(w) /\ req'[w].pc = pc /\ req'[w].trole = req[w].trole
        /\ req'[w].seen = req[w].seen /\ req'[w].carry = req[w].carry
    BY <2>2, <2>3, Stored
  <2>. QED BY <2>2, <2>3, <2>4 DEF Proceeds, ReadsToAdd, ReadsToCreate, ReadsElse
<1>2. CASE CollectGroup(w)
  <2>. DEFINE s == MeetingsOf(req[w].g)
              r == [req[w] EXCEPT !.seen = s]
  <2>1. s \in SUBSET Meeting BY DEF MeetingsOf, TablesOK, IsTable
  <2>2. Step(w, r, "delete_dependents") BY <1>2 DEF CollectGroup
  <2>3. r \in Request /\ r.op = req[w].op /\ r.by = req[w].by /\ r.g = req[w].g /\ r.u = req[w].u
        /\ r.status = req[w].status /\ r.trole = req[w].trole
    <3>. HIDE DEF s
    <3>. QED BY <2>1 DEF Request
  <2>. HIDE DEF r
  <2>4. KeepsArguments(w) /\ req'[w].pc = "delete_dependents" /\ req'[w].trole = req[w].trole
    BY <1>2, <2>2, <2>3, Stored DEF CollectGroup
  <2>. QED BY <1>2, <2>4 DEF CollectGroup, Proceeds, ReadsToAdd, ReadsToCreate, ReadsElse
<1>3. CASE IsMember(w) \/ PinSelect(w)
  <2>1. PICK pc \in {"pin_select", "unpin", "pin_insert"} : Step(w, req[w], pc)
    BY <1>3 DEF IsMember, PinSelect
  <2>2. KeepsArguments(w) /\ req'[w].pc = pc /\ req'[w].trole = req[w].trole
    BY <1>3, <2>1, Stored DEF IsMember, PinSelect
  <2>. QED BY <1>3, <2>2
           DEF IsMember, PinSelect, Proceeds, ReadsToAdd, ReadsToCreate, ReadsElse
<1>4. CASE PinInsert(w)
  <2>1. /\ Step(w, req[w], "pin_reget") /\ UNCHANGED db /\ req[w].pc = "pin_insert"
        /\ \/ <<req[w].by, req[w].g>> \in pins
           \/ req[w].by \notin DOMAIN role
           \/ req[w].g \notin DOMAIN name
    BY <1>4 DEF PinInsert, db
  <2>2. KeepsArguments(w) /\ req'[w].pc = "pin_reget" /\ req'[w].trole = req[w].trole
    BY <2>1, Stored
  <2>. QED BY <2>1, <2>2 DEF Proceeds, ReadsToAdd, ReadsToCreate, ReadsElse
<1>5. CASE GetUser(w)
  <2>. DEFINE t == role[req[w].u]
              r == [req[w] EXCEPT !.trole = t]
  <2>1. req[w].u \in DOMAIN role /\ Step(w, r, "insert_member") BY <1>5 DEF GetUser
  <2>2. t \in Roles BY <2>1 DEF TablesOK, IsTable
  <2>3. r \in Request /\ r.op = req[w].op /\ r.by = req[w].by /\ r.g = req[w].g /\ r.u = req[w].u
        /\ r.status = req[w].status /\ r.trole = t /\ r.seen = req[w].seen /\ r.carry = req[w].carry
    <3>. HIDE DEF t
    <3>. QED BY <2>2 DEF Request
  <2>. HIDE DEF r
  <2>4. KeepsArguments(w) /\ req'[w].pc = "insert_member" /\ req'[w].trole = t
        /\ req'[w].seen = req[w].seen /\ req'[w].carry = req[w].carry
    BY <1>5, <2>1, <2>3, Stored DEF GetUser
  <2>. QED BY <1>5, <2>1, <2>4 DEF GetUser, Proceeds, ReadsToAdd, ReadsToCreate, ReadsElse
<1>6. CASE InsertMember(w)
  <2>. DEFINE pc == IF req[w].trole = "GUEST" THEN "commit_member" ELSE "open_meetings"
  <2>1. Step(w, req[w], pc) /\ UNCHANGED db /\ req[w].pc = "insert_member"
    BY <1>6 DEF InsertMember
  <2>2. KeepsArguments(w) /\ req'[w].pc = pc /\ req'[w].trole = req[w].trole
        /\ req'[w].seen = req[w].seen /\ req'[w].carry = req[w].carry
    BY <2>1, Stored
  <2>. QED BY <2>1, <2>2 DEF Proceeds, ReadsToAdd, ReadsToCreate, ReadsElse
<1>7. CASE DeleteDependents(w) BY <1>7, FoundProceeds DEF DeleteDependents
<1>. QED BY <1>1, <1>2, <1>3, <1>4, <1>5, <1>6, <1>7
         DEF GroupStep, CreateGroup, UpdateGroup, DeleteGroupRows, PinReget, Unpin,
             CommitMember, RemoveMember

LEMMA MeetingStepProceeds ==
  ASSUME TypeInv, NEW w \in Worker, MeetingStep(w), ~Ends(w)
  PROVE  Proceeds(w)
<1>. USE DEF TypeInv
<1>0. /\ req[w] \in Request /\ RequestsOK
      /\ \A code \in Statuses \ {0} : ~Answer(w, code)
  BY DEF RequestsOK, Ends
<1>00. \A errors \in {GroupsCollectionErrors, GroupsDetailErrors, GroupsPinErrors,
                     GroupsMembersCollectionErrors, GroupsMembersDetailErrors,
                     MeetingsCollectionErrors, MeetingsDetailErrors, EntriesDetailErrors} :
          \A e : ~Raise(w, errors, e)
  <2>1. \A code \in {403, 404, 409, 500} : ~Answer(w, code) BY <1>0 DEF Statuses
  <2>. QED BY <2>1, RaiseShape
<1>000. {200, 201, 204} \subseteq Statuses \ {0} BY DEF Statuses
<1>. USE <1>0, <1>00, <1>000
<1>1. CASE OpenMeetings(w)
  <2>. DEFINE s == {m \in MeetingsOf(req[w].g) : ~meetings[m].completed}
              r == [req[w] EXCEPT !.seen = s]
              pc == IF s = {} THEN "commit_member" ELSE "latest_will_do"
  <2>1. s \in SUBSET Meeting /\ s = OpenIn(req[w].g)
    BY DEF MeetingsOf, TablesOK, IsTable, OpenIn
  <2>2. Step(w, r, pc) /\ req[w].pc = "open_meetings" /\ UNCHANGED db BY <1>1 DEF OpenMeetings
  <2>3. r \in Request /\ r.op = req[w].op /\ r.by = req[w].by /\ r.g = req[w].g /\ r.u = req[w].u
        /\ r.status = req[w].status /\ r.trole = req[w].trole /\ r.seen = s
        /\ r.carry = req[w].carry
    <3>. HIDE DEF s
    <3>. QED BY <2>1 DEF Request
  <2>4. pc \in {"commit_member", "latest_will_do"} OBVIOUS
  <2>5. KeepsArguments(w) /\ req'[w].pc = pc /\ req'[w].trole = req[w].trole
        /\ req'[w].seen = s /\ req'[w].carry = req[w].carry
    <3>. HIDE DEF r, pc, s
    <3>. QED BY <2>2, <2>3, <2>4, Stored
  <2>. HIDE DEF r, s
  <2>. QED BY <2>1, <2>2, <2>5 DEF Proceeds, ReadsToAdd, ReadsToCreate, ReadsElse
<1>2. CASE SelectLatestWillDo(w)
  <2>1. PICK t \in LatestWillDo(req[w].g, req[w].u) :
           Step(w, [req[w] EXCEPT !.carry = [u \in {req[w].u} |-> t]], "commit_member")
    BY <1>2 DEF SelectLatestWillDo
  <2>. DEFINE f == [u \in {req[w].u} |-> t]
  <2>2. req[w].u \in User
    <3>1. RequestOK(req[w]) /\ req[w].pc \in InAddMember
      BY <1>2 DEF RequestsOK, SelectLatestWillDo, InAddMember
    <3>2. req[w].op = "PostMember" BY <3>1, OpOfPc
    <3>. QED BY <3>1, <3>2 DEF RequestOK, ArgumentsOK
  <2>3. f \in PartialFn(User, Text)
    <3>1. f \in [{req[w].u} -> Text] BY LatestWillDoType
    <3>. QED BY <2>2, <3>1, CarryType
  <2>. DEFINE r == [req[w] EXCEPT !.carry = f]
  <2>4. Step(w, r, "commit_member") BY <2>1
  <2>5. r \in Request /\ r.op = req[w].op /\ r.by = req[w].by /\ r.g = req[w].g /\ r.u = req[w].u
        /\ r.status = req[w].status /\ r.trole = req[w].trole /\ r.seen = req[w].seen
        /\ r.carry = f
    <3>. HIDE DEF f
    <3>. QED BY <2>3 DEF Request
  <2>6. KeepsArguments(w) /\ req'[w].pc = "commit_member" /\ req'[w].trole = req[w].trole
        /\ req'[w].seen = req[w].seen /\ req'[w].carry = f
    <3>. HIDE DEF r, f
    <3>. QED BY <1>2, <2>4, <2>5, Stored DEF SelectLatestWillDo
  <2>7. \E x \in LatestWillDo(req[w].g, req[w].u) : req'[w].carry = [u \in {req[w].u} |-> x]
    BY <2>6
  <2>. HIDE DEF r, f
  <2>. QED BY <1>2, <2>6, <2>7 DEF SelectLatestWillDo, Proceeds, ReadsToAdd, ReadsToCreate, ReadsElse
<1>3. CASE GetGroupOfMeeting(w)
  <2>1. Step(w, req[w], "insert_meeting") /\ req[w].pc = "get_group" /\ req[w].g \in DOMAIN name
        /\ UNCHANGED db
    BY <1>3 DEF GetGroupOfMeeting
  <2>2. KeepsArguments(w) /\ req'[w].pc = "insert_meeting" /\ req'[w].trole = req[w].trole
        /\ req'[w].carry = req[w].carry
    BY <2>1, Stored
  <2>. QED BY <2>1, <2>2 DEF Proceeds, ReadsToAdd, ReadsToCreate, ReadsElse
<1>4. CASE InsertMeeting(w)
  <2>1. PICK m \in Meeting : Step(w, [req[w] EXCEPT !.m = m], "read_members")
    BY <1>4 DEF InsertMeeting
  <2>. DEFINE r == [req[w] EXCEPT !.m = m]
  <2>2. Step(w, r, "read_members") BY <2>1
  <2>3. r \in Request /\ r.op = req[w].op /\ r.by = req[w].by /\ r.g = req[w].g /\ r.u = req[w].u
        /\ r.status = req[w].status /\ r.trole = req[w].trole /\ r.carry = req[w].carry
    BY DEF Request
  <2>. HIDE DEF r
  <2>4. KeepsArguments(w) /\ req'[w].pc = "read_members" /\ req'[w].trole = req[w].trole
        /\ req'[w].carry = req[w].carry
    BY <1>4, <2>2, <2>3, Stored DEF InsertMeeting
  <2>. QED BY <1>4, <2>4 DEF InsertMeeting, Proceeds, ReadsToAdd, ReadsToCreate, ReadsElse
<1>5. CASE ReadMembers(w)
  <2>. DEFINE us == {u \in DOMAIN role : <<u, req[w].g>> \in members /\ role[u] # "GUEST"}
              f == [u \in us |-> Blank]
              r == [req[w] EXCEPT !.carry = f]
              pc == IF us = {} THEN "commit_meeting" ELSE "carry_over"
  <2>1. f \in PartialFn(User, Text)
    <3>1. us \in SUBSET User BY DEF TablesOK, IsTable
    <3>2. f \in [us -> Text] BY DataAssumption
    <3>. HIDE DEF us, f
    <3>. QED BY <3>1, <3>2, CarryType
  <2>2. Step(w, r, pc) BY <1>5 DEF ReadMembers
  <2>3. r \in Request /\ r.op = req[w].op /\ r.by = req[w].by /\ r.g = req[w].g /\ r.u = req[w].u
        /\ r.status = req[w].status /\ r.trole = req[w].trole /\ r.carry = f
    <3>. HIDE DEF f
    <3>. QED BY <2>1 DEF Request
  <2>4. pc \in {"commit_meeting", "carry_over"} /\ (pc = "commit_meeting" => us = {}) OBVIOUS
  <2>5. us = Regulars(req[w].g) /\ DOMAIN f = us BY DEF Regulars
  <2>6. KeepsArguments(w) /\ req'[w].pc = pc /\ req'[w].trole = req[w].trole /\ req'[w].carry = f
    <3>. HIDE DEF r, pc, f, us
    <3>. QED BY <1>5, <2>2, <2>3, <2>4, Stored DEF ReadMembers
  <2>. HIDE DEF r, f, us, pc
  <2>7. req[w].pc = "read_members" BY <1>5 DEF ReadMembers
  <2>8. ReadsToAdd(w) /\ ReadsElse(w) BY <2>4, <2>6, <2>7 DEF ReadsToAdd, ReadsElse
  <2>9. ReadsToCreate(w) BY <2>4, <2>5, <2>6, <2>7 DEF ReadsToCreate
  <2>. QED BY <2>6, <2>8, <2>9 DEF Proceeds
<1>6. CASE CollectCarryOver(w)
  <2>1. PICK f \in CarryOver(req[w].g, DOMAIN req[w].carry) :
          Step(w, [req[w] EXCEPT !.carry = f], "commit_meeting")
    BY <1>6 DEF CollectCarryOver
  <2>2. f \in PartialFn(User, Text)
    <3>1. req[w].carry \in PartialFn(User, Text) BY DEF Request
    <3>2. DOMAIN req[w].carry \in SUBSET User BY <3>1 DEF PartialFn
    <3>3. f \in [DOMAIN req[w].carry -> Text] BY DEF CarryOver
    <3>. QED BY <3>2, <3>3, CarryType
  <2>. DEFINE r == [req[w] EXCEPT !.carry = f]
  <2>3. Step(w, r, "commit_meeting") BY <2>1
  <2>4. r \in Request /\ r.op = req[w].op /\ r.by = req[w].by /\ r.g = req[w].g /\ r.u = req[w].u
        /\ r.status = req[w].status /\ r.trole = req[w].trole /\ r.carry = f
    BY <2>2 DEF Request
  <2>. HIDE DEF r
  <2>5. KeepsArguments(w) /\ req'[w].pc = "commit_meeting" /\ req'[w].trole = req[w].trole
        /\ req'[w].carry = f
    BY <1>6, <2>3, <2>4, Stored DEF CollectCarryOver
  <2>. QED BY <1>6, <2>5 DEF CollectCarryOver, Proceeds, ReadsToAdd, ReadsToCreate, ReadsElse
<1>7. CASE GetMeeting(w)
  <2>1. MeetingErrors(req[w].op) \in {MeetingsDetailErrors, EntriesDetailErrors}
    BY DEF MeetingErrors
  <2>2. CASE req[w].m \in DOMAIN meetings /\ Step(w, [req[w] EXCEPT !.mrow = meetings[req[w].m]],
                                                  "update_meeting")
    <3>. DEFINE row == meetings[req[w].m]
                r == [req[w] EXCEPT !.mrow = row]
    <3>1. row \in MeetingRow BY <2>2 DEF TablesOK, IsTable
    <3>2. Step(w, r, "update_meeting") BY <2>2
    <3>3. r \in Request /\ r.op = req[w].op /\ r.by = req[w].by /\ r.g = req[w].g
          /\ r.u = req[w].u /\ r.status = req[w].status /\ r.trole = req[w].trole
      <4>. HIDE DEF row
      <4>. QED BY <3>1 DEF Request
    <3>. HIDE DEF r
    <3>4. KeepsArguments(w) /\ req'[w].pc = "update_meeting" /\ req'[w].trole = req[w].trole
      BY <1>7, <3>2, <3>3, Stored DEF GetMeeting
    <3>. QED BY <1>7, <3>4 DEF GetMeeting, Proceeds, ReadsToAdd, ReadsToCreate, ReadsElse
  <2>3. CASE Step(w, req[w], "delete_entries")
    <3>1. KeepsArguments(w) /\ req'[w].pc = "delete_entries" /\ req'[w].trole = req[w].trole
      BY <1>7, <2>3, Stored DEF GetMeeting
    <3>. QED BY <1>7, <3>1 DEF GetMeeting, Proceeds, ReadsToAdd, ReadsToCreate, ReadsElse
  <2>4. CASE Step(w, req[w], "get_entry") /\ EntryDenied(req[w]) = {}
    <3>1. KeepsArguments(w) /\ req'[w].pc = "get_entry" /\ req'[w].trole = req[w].trole
          /\ req'[w].m = req[w].m
      BY <1>7, <2>4, Stored DEF GetMeeting
    <3>2. StillOpen(req[w].m) BY <2>4 DEF EntryDenied, StillOpen
    <3>. QED BY <1>7, <3>1, <3>2 DEF GetMeeting, Proceeds, ReadsToAdd, ReadsToCreate, ReadsElse
  <2>. QED BY <1>7, <2>1, <2>2, <2>3, <2>4 DEF GetMeeting
<1>8. CASE GetEntry(w)
  <2>. DEFINE row == entries[<<req[w].m, req[w].u>>]
              r == [req[w] EXCEPT !.erow = row]
  <2>1. <<req[w].m, req[w].u>> \in DOMAIN entries /\ Step(w, r, "update_entry")
    BY <1>8 DEF GetEntry
  <2>2. row \in EntryRow BY <2>1 DEF TablesOK, IsTable
  <2>3. r \in Request /\ r.op = req[w].op /\ r.by = req[w].by /\ r.g = req[w].g /\ r.u = req[w].u
        /\ r.status = req[w].status /\ r.trole = req[w].trole /\ r.m = req[w].m
    <3>. HIDE DEF row
    <3>. QED BY <2>2 DEF Request
  <2>. HIDE DEF r
  <2>4. KeepsArguments(w) /\ req'[w].pc = "update_entry" /\ req'[w].trole = req[w].trole
        /\ req'[w].m = req[w].m
    BY <1>8, <2>1, <2>3, Stored DEF GetEntry
  <2>. QED BY <1>8, <2>4 DEF GetEntry, Proceeds, ReadsToAdd, ReadsToCreate, ReadsElse
<1>9. CASE DeleteEntries(w) BY <1>9, FoundProceeds DEF DeleteEntries
<1>. QED BY <1>1, <1>2, <1>3, <1>4, <1>5, <1>6, <1>7, <1>8, <1>9
         DEF MeetingStep, CommitMeeting, UpdateMeeting, DeleteMeetingRows, UpdateEntry

\* A worker that takes a step accepts a request, goes on with it or answers it.
LEMMA ActKinds ==
  ASSUME TypeInv, NEW w \in Worker, Acts(w)
  PROVE  /\ \A v \in Worker \ {w} : req'[v] = req[v]
         /\ \/ req[w].pc = "idle" /\ Begins(w)
            \/ Proceeds(w)
            \/ Ends(w)
<1>1. \A v \in Worker \ {w} : req'[v] = req[v] BY ActShape
<1>. SUFFICES (req[w].pc = "idle" /\ Begins(w)) \/ Proceeds(w) \/ Ends(w)
  BY <1>1
<1>2. CASE Call(w) BY <1>2, CallBegins DEF Ends, Statuses
<1>3. CASE GroupStep(w) BY <1>3, GroupStepProceeds
<1>4. CASE MeetingStep(w) BY <1>4, MeetingStepProceeds
<1>5. CASE StatementTimeout(w) \/ Abort(w)
  BY <1>5 DEF Ends, Statuses, StatementTimeout, Abort
<1>. QED BY <1>2, <1>3, <1>4, <1>5 DEF Acts, Serve

\* Between requests a worker holds nothing.
LEMMA EndsIdle ==
  ASSUME TypeInv, NEW w \in Worker, Ends(w)
  PROVE  req'[w].pc = "idle" /\ req'[w].op = "none"
BY DEF Ends, Answer, TypeInv, RequestsOK, Idle

\* A step by what it means for one worker.
LEMMA Moment ==
  ASSUME TypeInv, [Next]_vars, NEW v \in Worker
  PROVE  \/ req'[v] = req[v]
         \/ req[v].pc = "idle" /\ Begins(v)
         \/ Proceeds(v)
         \/ Ends(v)
<1>1. ASSUME NEW w \in Worker, Acts(w)
      PROVE  \/ req'[v] = req[v]
             \/ req[v].pc = "idle" /\ Begins(v)
             \/ Proceeds(v)
             \/ Ends(v)
  BY <1>1, ActKinds
<1>2. CASE SetRole \/ DeleteUser \/ UNCHANGED vars
  BY <1>2 DEF SetRole, DeleteUser, vars
<1>. QED BY <1>1, <1>2 DEF Next, Acts

-----------------------------------------------------------------------------
(***************************************************************************)
(* How the tables change: ids are forgotten by none, and rows come from    *)
(* two transactions only.                                                  *)
(***************************************************************************)
\* Users and groups leave their tables for deleted; a user does not return.
IdsStay ==
    /\ DOMAIN role' \subseteq DOMAIN role
    /\ DOMAIN role \subseteq DOMAIN role' \cup deleted'
    /\ DOMAIN name \subseteq DOMAIN name' \cup deleted'
    /\ deleted \subseteq deleted'

LEMMA CascadeIds ==
  ASSUME NEW gs, NEW ms, NEW us, Cascade(gs, ms, us)
  PROVE  IdsStay
<1>1. /\ DOMAIN role' = DOMAIN role \ us
      /\ DOMAIN name' = DOMAIN name \ gs
      /\ deleted' = deleted \cup (gs \cap DOMAIN name) \cup (ms \cap DOMAIN meetings)
                            \cup (us \cap DOMAIN role)
  BY DEF Cascade, Without
<1>. QED BY <1>1 DEF IdsStay

LEMMA StepIds ==
  ASSUME TypeInv, [Next]_vars
  PROVE  IdsStay
<1>1. ASSUME NEW w \in Worker, GroupStep(w) PROVE IdsStay
  <2>1. CASE DeleteGroupRows(w) BY <2>1, CascadeIds DEF DeleteGroupRows, db, IdsStay
  <2>2. CASE CreateGroup(w)
    <3>1. DOMAIN name \subseteq DOMAIN name' BY <2>2 DEF CreateGroup
    <3>. QED BY <2>2, <3>1 DEF CreateGroup, IdsStay
  <2>3. CASE UpdateGroup(w)
    <3>1. DOMAIN name' = DOMAIN name BY <2>3 DEF UpdateGroup
    <3>. QED BY <2>3, <3>1 DEF UpdateGroup, IdsStay
  <2>. QED BY <1>1, <2>1, <2>2, <2>3 DEF GroupStep, GetGroup, CollectGroup, DeleteDependents,
              IsMember, PinSelect, PinInsert, PinReget, Unpin, GetUser, InsertMember,
              RemoveMember, CommitMember, db, IdsStay
<1>2. ASSUME NEW w \in Worker, MeetingStep(w) PROVE IdsStay
  <2>1. CASE DeleteMeetingRows(w)
    BY <2>1, CascadeIds DEF DeleteMeetingRows, db, IdsStay
  <2>. QED BY <1>2, <2>1 DEF MeetingStep, OpenMeetings, SelectLatestWillDo,
              GetGroupOfMeeting, InsertMeeting, ReadMembers, CollectCarryOver, GetMeeting,
              DeleteEntries, GetEntry, UpdateEntry, UpdateMeeting, CommitMeeting, db, IdsStay
<1>3. ASSUME NEW w \in Worker, Call(w) \/ StatementTimeout(w) \/ Abort(w) PROVE IdsStay
  BY <1>3, CallShape DEF Calls, StatementTimeout, Abort, db, IdsStay
<1>4. ASSUME DeleteUser PROVE IdsStay
  <2>1. PICK u \in Deletable \cap DOMAIN role : Cascade({}, {}, {u}) BY <1>4 DEF DeleteUser
  <2>. QED BY <2>1, CascadeIds
<1>5. ASSUME SetRole PROVE IdsStay
  <2>1. DOMAIN role' = DOMAIN role BY <1>5 DEF SetRole
  <2>. QED BY <1>5, <2>1 DEF SetRole, IdsStay
<1>6. ASSUME UNCHANGED vars PROVE IdsStay
  BY <1>6 DEF vars, db, IdsStay
<1>. QED BY <1>1, <1>2, <1>3, <1>4, <1>5, <1>6 DEF Next, Serve

\* The two COMMITs that succeed.
Joins(w) ==
    /\ req[w].pc = "commit_member" /\ Answer(w, 201)
    /\ req[w].u \in DOMAIN role /\ req[w].g \in DOMAIN name
    /\ req[w].seen \subseteq DOMAIN meetings
    /\ members' = members \cup {<<req[w].u, req[w].g>>}
    /\ entries' = InsertMissing(NewEntries(req[w].seen, req[w].carry))
    /\ UNCHANGED <<role, name, pins, meetings, clock, deleted>>

NewMeeting(r) == [group |-> r.g, date |-> r.mbody.date, completed |-> FALSE]

Convenes(w) ==
    /\ req[w].pc = "commit_meeting" /\ Answer(w, 201)
    /\ req[w].g \in DOMAIN name /\ DOMAIN req[w].carry \subseteq DOMAIN role
    /\ meetings' = [k \in DOMAIN meetings \cup {req[w].m} |->
                       IF k = req[w].m THEN NewMeeting(req[w]) ELSE meetings[k]]
    /\ entries' = InsertMissing(NewEntries({req[w].m}, req[w].carry))
    /\ UNCHANGED <<role, name, members, pins, clock, deleted>>

\* No row of the tables that promises are about is new.
NothingNew ==
    /\ DOMAIN meetings' \subseteq DOMAIN meetings
    /\ DOMAIN entries' \subseteq DOMAIN entries
    /\ members' \subseteq members

LEMMA CascadeNew ==
  ASSUME NEW gs, NEW ms, NEW us, Cascade(gs, ms, us)
  PROVE  NothingNew
<1>1. /\ DOMAIN meetings' \subseteq DOMAIN meetings
      /\ DOMAIN entries' \subseteq DOMAIN entries
      /\ members' \subseteq members
  BY DEF Cascade, Without
<1>. QED BY <1>1 DEF NothingNew

LEMMA Growth ==
  ASSUME TypeInv, [Next]_vars
  PROVE  (\E w \in Worker : Joins(w) \/ Convenes(w)) \/ NothingNew
<1>1. ASSUME NEW w \in Worker, GroupStep(w) PROVE Joins(w) \/ NothingNew
  <2>1. CASE DeleteGroupRows(w) BY <2>1, CascadeNew DEF DeleteGroupRows, db, NothingNew
  <2>2. CASE CommitMember(w)
    BY <2>2 DEF CommitMember, Joins, NothingNew
  <2>. QED BY <1>1, <2>1, <2>2 DEF GroupStep, CreateGroup, UpdateGroup, GetGroup, CollectGroup,
              DeleteDependents, IsMember, PinSelect, PinInsert, PinReget, Unpin, GetUser,
              InsertMember, RemoveMember, db, NothingNew
<1>2. ASSUME NEW w \in Worker, MeetingStep(w) PROVE Convenes(w) \/ NothingNew
  <2>1. CASE DeleteMeetingRows(w)
    BY <2>1, CascadeNew DEF DeleteMeetingRows, db, NothingNew
  <2>2. CASE CommitMeeting(w)
    BY <2>2 DEF CommitMeeting, Convenes, NewMeeting, NothingNew
  <2>3. CASE UpdateMeeting(w)
    <3>1. DOMAIN meetings' = DOMAIN meetings BY <2>3 DEF UpdateMeeting
    <3>. QED BY <2>3, <3>1 DEF UpdateMeeting, NothingNew
  <2>4. CASE UpdateEntry(w)
    <3>1. DOMAIN entries' = DOMAIN entries BY <2>4 DEF UpdateEntry
    <3>. QED BY <2>4, <3>1 DEF UpdateEntry, NothingNew
  <2>. QED BY <1>2, <2>1, <2>2, <2>3, <2>4 DEF MeetingStep, OpenMeetings, SelectLatestWillDo,
              GetGroupOfMeeting, InsertMeeting, ReadMembers, CollectCarryOver, GetMeeting,
              DeleteEntries, GetEntry, db, NothingNew
<1>3. ASSUME NEW w \in Worker, Call(w) \/ StatementTimeout(w) \/ Abort(w) PROVE NothingNew
  BY <1>3, CallShape DEF Calls, StatementTimeout, Abort, db, NothingNew
<1>4. ASSUME DeleteUser PROVE NothingNew
  <2>1. PICK u \in Deletable \cap DOMAIN role : Cascade({}, {}, {u}) BY <1>4 DEF DeleteUser
  <2>. QED BY <2>1, CascadeNew
<1>5. CASE SetRole \/ UNCHANGED vars
  BY <1>5 DEF SetRole, vars, db, NothingNew
<1>. QED BY <1>1, <1>2, <1>3, <1>4, <1>5 DEF Next, Serve

\* What the two COMMITs find in the request, and what they leave.
LEMMA JoinsWhat ==
  ASSUME RInv, NEW w \in Worker, Joins(w)
  PROVE  /\ req[w].op = "PostMember"
         /\ DOMAIN req[w].carry \subseteq {req[w].u}
         /\ \A m \in req[w].seen : meetings[m].group = req[w].g
         /\ DOMAIN entries' = DOMAIN entries \cup (req[w].seen \X DOMAIN req[w].carry)
         /\ \A k \in DOMAIN entries : entries'[k] = entries[k]
         /\ \A k \in DOMAIN entries' \ DOMAIN entries : entries'[k] = NewEntry(req[w].carry[k[2]])
<1>1. req[w].op = "PostMember" BY Holds, OpOfPc DEF Joins, InAddMember
<1>2. DOMAIN req[w].carry \subseteq {req[w].u} BY <1>1, Holds DEF ArgumentsOK
<1>3. \A m \in req[w].seen : meetings[m].group = req[w].g
  BY DEF RInv, SeenInGroup, Joins
<1>. DEFINE new == NewEntries(req[w].seen, req[w].carry)
<1>4. /\ DOMAIN new = req[w].seen \X DOMAIN req[w].carry
      /\ \A k \in DOMAIN new : new[k] = NewEntry(req[w].carry[k[2]])
  BY DEF NewEntries
<1>5. entries' = InsertMissing(new) BY DEF Joins
<1>. HIDE DEF new
<1>. QED BY <1>1, <1>2, <1>3, <1>4, <1>5 DEF InsertMissing

LEMMA ConvenesWhat ==
  ASSUME RInv, NEW w \in Worker, Convenes(w)
  PROVE  /\ req[w].op = "PostMeeting"
         /\ req[w].m \in Meeting \ (DOMAIN meetings \cup deleted)
         /\ DOMAIN meetings' = DOMAIN meetings \cup {req[w].m}
         /\ \A m \in DOMAIN meetings : meetings'[m] = meetings[m]
         /\ meetings'[req[w].m] = NewMeeting(req[w])
         /\ DOMAIN entries' = DOMAIN entries \cup ({req[w].m} \X DOMAIN req[w].carry)
         /\ \A k \in DOMAIN entries : k[1] # req[w].m /\ entries'[k] = entries[k]
         /\ \A k \in DOMAIN entries' \ DOMAIN entries : entries'[k] = NewEntry(req[w].carry[k[2]])
<1>1. req[w].op = "PostMeeting" BY Holds, OpOfPc DEF Convenes, InCreateMeeting
<1>2. /\ req[w].m \in Meeting \ (DOMAIN meetings \cup deleted)
      /\ \A k \in DOMAIN entries : k[1] # req[w].m
  BY <1>1, Holds DEF Convenes, LoadedOK, RInv, IInv, DrawnIdsFresh, RefIntegrity, InCreateMeeting
<1>. DEFINE new == NewEntries({req[w].m}, req[w].carry)
<1>3. /\ DOMAIN new = {req[w].m} \X DOMAIN req[w].carry
      /\ \A k \in DOMAIN new : new[k] = NewEntry(req[w].carry[k[2]])
  BY DEF NewEntries
<1>4. entries' = InsertMissing(new) BY DEF Convenes
<1>5. meetings' = [k \in DOMAIN meetings \cup {req[w].m} |->
                       IF k = req[w].m THEN NewMeeting(req[w]) ELSE meetings[k]]
  BY DEF Convenes
<1>. HIDE DEF new
<1>6. /\ DOMAIN entries' = DOMAIN entries \cup ({req[w].m} \X DOMAIN req[w].carry)
      /\ \A k \in DOMAIN entries : entries'[k] = entries[k]
      /\ \A k \in DOMAIN entries' \ DOMAIN entries : entries'[k] = NewEntry(req[w].carry[k[2]])
  BY <1>3, <1>4 DEF InsertMissing
<1>. QED BY <1>1, <1>2, <1>5, <1>6

\* An entry leaves with its meeting or its user.
LEMMA EntriesStay ==
  ASSUME IInv, [Next]_vars
  PROVE  \A k \in DOMAIN entries \ DOMAIN entries' :
            k[1] \notin DOMAIN meetings' \/ k[2] \notin DOMAIN role'
<1>1. ASSUME NEW w \in Worker, UpdateMeeting(w) \/ UpdateEntry(w)
      PROVE  DOMAIN entries' = DOMAIN entries
  BY <1>1 DEF UpdateMeeting, UpdateEntry
<1>. QED BY <1>1, StepKinds, DeletesOnly

\* A meeting becomes completed, or open again, only by a PATCH of a meeting.
LEMMA FlagStays ==
  ASSUME IInv, [Next]_vars, NEW m \in DOMAIN meetings \cap DOMAIN meetings',
         meetings'[m] # meetings[m]
  PROVE  \E w \in Worker : req[w].op = "PatchMeeting"
<1>1. ASSUME NEW w \in Worker, UpdateMeeting(w) PROVE req[w].op = "PatchMeeting"
  BY <1>1, OpOfPc DEF UpdateMeeting, IInv, TypeInv, RequestsOK
<1>2. ASSUME NEW w \in Worker, UpdateEntry(w) PROVE meetings' = meetings
  BY <1>2 DEF UpdateEntry
<1>. QED BY <1>1, <1>2, StepKinds, DeletesOnly

-----------------------------------------------------------------------------
(***************************************************************************)
(* What a request holds, whatever overlaps.                                *)
(***************************************************************************)
LEMMA InFlightStep ==
  ASSUME RInv, InFlight, [Next]_vars
  PROVE  InFlight'
<1>0. TypeInv /\ IdsStay /\ RequestsOK'
  BY StepIds, RInvStep DEF RInv, IInv, TypeInv
<1>. SUFFICES ASSUME NEW v \in Worker PROVE Accepted(v)' /\ Lists(v)'
  BY DEF InFlight
<1>1. Accepted(v) /\ Lists(v) BY DEF InFlight
<1>2. CASE req'[v] = req[v]
  BY <1>0, <1>1, <1>2 DEF Accepted, Lists, IdsStay
<1>3. CASE req[v].pc = "idle" /\ Begins(v)
  <2>1. /\ req'[v].pc \in {"create_group", "get_group", "get_meeting"}
        /\ req'[v].status = 0 /\ req'[v].by \in DOMAIN role'
        /\ req'[v].seen = {} /\ DOMAIN req'[v].carry = {}
    BY <1>3 DEF Begins, db
  <2>2. req'[v].op \in {"PostMember", "PostMeeting", "PutPin"} => req'[v].pc = "get_group"
    <3>1. req'[v].pc \in PcsOf(req'[v].op) BY <1>0 DEF RequestsOK, RequestOK, LoadedOK
    <3>. QED BY <2>1, <3>1 DEF PcsOf, InAddMember, InCreateMeeting
  <2>. QED BY <2>1, <2>2 DEF Accepted, Lists
<1>4. CASE Proceeds(v)
  <2>1. UNCHANGED db BY <1>4 DEF Proceeds, KeepsArguments
  <2>2. Accepted(v)'
    <3>1. req[v].op # "none"
      BY <1>0, <1>4, Serving DEF Proceeds, KeepsArguments
    <3>. QED BY <1>1, <1>4, <2>1, <3>1 DEF Accepted, Proceeds, KeepsArguments, ReadsElse, db
  <2>3. Lists(v)'
    BY <1>1, <1>4 DEF Lists, Proceeds, KeepsArguments, ReadsToAdd, ReadsToCreate
  <2>. QED BY <2>2, <2>3
<1>5. CASE Ends(v)
  BY <1>0, <1>5, EndsIdle DEF Accepted, Lists
<1>. QED BY <1>0, <1>2, <1>3, <1>4, <1>5, Moment

LEMMA PInvInit == Init => PInv
BY RInvInit DEF Init, PInv, InFlight, Accepted, Lists, Idle

LEMMA PInvStep == PInv /\ [Next]_vars => PInv'
BY RInvStep, InFlightStep DEF PInv

\* A request is answered once, its caller was a user, its group was one, and
\* its lists are empty until they are read.
THEOREM RequestsInOrder == Spec => []PInv
<1>. QED BY PInvInit, PInvStep, PTL DEF Spec


-----------------------------------------------------------------------------
(***************************************************************************)
(* Who adds the rows.                                                      *)
(***************************************************************************)
LEMMA NewMember ==
  ASSUME TypeInv, [Next]_vars, NEW p \in members' \ members
  PROVE  \E w \in Worker : Joins(w) /\ p = <<req[w].u, req[w].g>>
BY Growth DEF Joins, Convenes, NothingNew

LEMMA MeetingIsNew ==
  ASSUME RInv, [Next]_vars, NEW m \in DOMAIN meetings' \ DOMAIN meetings
  PROVE  \E w \in Worker : Convenes(w) /\ m = req[w].m
<1>1. TypeInv BY DEF RInv, IInv
<1>2. ASSUME NEW w \in Worker, Joins(w) PROVE FALSE BY <1>2 DEF Joins
<1>3. PICK w \in Worker : Convenes(w) BY <1>1, <1>2, Growth DEF NothingNew
<1>4. DOMAIN meetings' = DOMAIN meetings \cup {req[w].m} BY <1>3, ConvenesWhat
<1>. QED BY <1>3, <1>4

LEMMA EntryIsNew ==
  ASSUME RInv, [Next]_vars, NEW k \in DOMAIN entries' \ DOMAIN entries
  PROVE  \E w \in Worker :
            /\ k[2] \in DOMAIN req[w].carry /\ entries'[k] = NewEntry(req[w].carry[k[2]])
            /\ \/ Joins(w) /\ k[1] \in req[w].seen /\ k[2] = req[w].u
               \/ Convenes(w) /\ k[1] = req[w].m
<1>1. TypeInv BY DEF RInv, IInv
<1>2. CASE \E w \in Worker : Joins(w)
  <2>1. PICK w \in Worker : Joins(w) BY <1>2
  <2>2. /\ DOMAIN req[w].carry \subseteq {req[w].u}
        /\ DOMAIN entries' = DOMAIN entries \cup (req[w].seen \X DOMAIN req[w].carry)
    BY <2>1, JoinsWhat
  <2>3. k \in req[w].seen \X DOMAIN req[w].carry BY <2>2
  <2>4. k[1] \in req[w].seen /\ k[2] \in DOMAIN req[w].carry BY <2>3
  <2>5. entries'[k] = NewEntry(req[w].carry[k[2]]) BY <2>1, JoinsWhat
  <2>. QED BY <2>1, <2>2, <2>4, <2>5
<1>3. CASE \E w \in Worker : Convenes(w)
  <2>1. PICK w \in Worker : Convenes(w) BY <1>3
  <2>2. DOMAIN entries' = DOMAIN entries \cup ({req[w].m} \X DOMAIN req[w].carry)
    BY <2>1, ConvenesWhat
  <2>3. k \in {req[w].m} \X DOMAIN req[w].carry BY <2>2
  <2>4. k[1] = req[w].m /\ k[2] \in DOMAIN req[w].carry BY <2>3
  <2>5. entries'[k] = NewEntry(req[w].carry[k[2]]) BY <2>1, ConvenesWhat
  <2>. QED BY <2>1, <2>4, <2>5
<1>. QED BY <1>1, <1>2, <1>3, Growth DEF NothingNew

-----------------------------------------------------------------------------
(***************************************************************************)
(* Coverage.                                                               *)
(***************************************************************************)
Apart == NeverTogether({"PostMeeting"}, {"PostMember"})

LEMMA NothingMissedStep ==
  ASSUME PInv, [Next]_vars, Apart, NobodyPromoted, NothingReopened, NEW v \in Worker,
         NothingMissed(v)
  PROVE  NothingMissed(v)'
<1>0. RInv /\ IInv /\ TypeInv /\ IdsStay BY StepIds DEF PInv, RInv, IInv
<1>1. CASE req'[v] = req[v]
  <2>1. ASSUME req[v].pc \in Adding, req[v].trole = "GUEST", req[v].u \in DOMAIN role'
        PROVE  role'[req[v].u] = "GUEST"
    BY <1>0, <2>1 DEF NothingMissed, IdsStay, NobodyPromoted
  <2>2. ASSUME req[v].pc \in {"latest_will_do", "commit_member"}, req[v].trole # "GUEST",
               NEW m \in OpenIn(req[v].g)'
        PROVE  m \in req[v].seen
    <3>1. m \in DOMAIN meetings' /\ meetings'[m].group = req[v].g /\ ~meetings'[m].completed
      BY <1>1 DEF OpenIn, MeetingsOf
    <3>2. req[v].op = "PostMember"
      BY <1>0, <2>2, Holds, OpOfPc DEF InAddMember
    <3>3. m \in DOMAIN meetings
      <4>1. SUFFICES ASSUME m \notin DOMAIN meetings PROVE FALSE OBVIOUS
      <4>2. PICK w \in Worker : Convenes(w) BY <1>0, <3>1, <4>1, MeetingIsNew
      <4>. QED BY <1>0, <3>2, <4>2, ConvenesWhat DEF Apart, NeverTogether
    <3>4. m \in OpenIn(req[v].g)
      BY <1>0, <3>1, <3>3, MeetingsStay DEF NothingReopened, OpenIn, MeetingsOf
    <3>. QED BY <2>2, <3>4 DEF NothingMissed
  <2>3. ASSUME req[v].pc \in Creating, NEW u \in Regulars(req[v].g)'
        PROVE  u \in DOMAIN req[v].carry
    <3>1. u \in DOMAIN role' /\ <<u, req[v].g>> \in members' /\ role'[u] # "GUEST"
      BY <1>1 DEF Regulars
    <3>2. req[v].op = "PostMeeting"
      BY <1>0, <2>3, Holds, OpOfPc DEF Creating, InCreateMeeting
    <3>3. <<u, req[v].g>> \in members
      <4>1. SUFFICES ASSUME <<u, req[v].g>> \notin members PROVE FALSE OBVIOUS
      <4>2. PICK w \in Worker : Joins(w) BY <1>0, <3>1, <4>1, NewMember
      <4>. QED BY <1>0, <3>2, <4>2, JoinsWhat DEF Apart, NeverTogether
    <3>4. u \in Regulars(req[v].g)
      BY <1>0, <3>1, <3>3 DEF Regulars, IdsStay, NobodyPromoted
    <3>. QED BY <2>3, <3>4 DEF NothingMissed
  <2>. QED BY <1>1, <2>1, <2>2, <2>3 DEF NothingMissed
<1>2. CASE Begins(v)
  BY <1>2 DEF Begins, NothingMissed, Adding, Creating, InAddMember
<1>3. CASE Ends(v)
  BY <1>0, <1>3, EndsIdle DEF NothingMissed, Adding, Creating, InAddMember
<1>4. CASE Proceeds(v)
  <2>1. /\ role' = role /\ req'[v].u = req[v].u /\ req'[v].g = req[v].g
        /\ OpenIn(req[v].g)' = OpenIn(req[v].g) /\ Regulars(req[v].g)' = Regulars(req[v].g)
    BY <1>4 DEF Proceeds, KeepsArguments, db, OpenIn, MeetingsOf, Regulars
  <2>2. ASSUME req'[v].pc \in Adding, req'[v].trole = "GUEST", req[v].u \in DOMAIN role
        PROVE  role[req[v].u] = "GUEST"
    BY <1>4, <2>2 DEF Proceeds, ReadsToAdd, NothingMissed, Adding, InAddMember
  <2>3. ASSUME req'[v].pc \in {"latest_will_do", "commit_member"}, req'[v].trole # "GUEST"
        PROVE  OpenIn(req[v].g) \subseteq req'[v].seen
    BY <1>4, <2>3 DEF Proceeds, ReadsToAdd, NothingMissed
  <2>4. ASSUME req'[v].pc \in Creating
        PROVE  Regulars(req[v].g) \subseteq DOMAIN req'[v].carry
    BY <1>4, <2>4 DEF Proceeds, ReadsToCreate, NothingMissed, Creating, CarryOver
  <2>. HIDE DEF Adding, Creating
  <2>5. role' = role /\ req'[v].u = req[v].u BY <2>1
  <2>6. /\ OpenIn(req[v].g)' \subseteq OpenIn(req[v].g)
        /\ Regulars(req[v].g)' \subseteq Regulars(req[v].g)
    BY <2>1
  <2>. QED BY <2>2, <2>3, <2>4, <2>5, <2>6 DEF NothingMissed
<1>. QED BY <1>0, <1>1, <1>2, <1>3, <1>4, Moment

LEMMA CoverageInvStep ==
  ASSUME PInv, CoverageInv, [Next]_vars, Apart, [NobodyPromoted /\ NothingReopened]_vars
  PROVE  CoverageInv'
<1>1. NobodyPromoted /\ NothingReopened
  BY DEF NobodyPromoted, NothingReopened, vars, db
<1>2. \A w \in Worker : NothingMissed(w)' BY <1>1, NothingMissedStep DEF CoverageInv
<1>3. RInv /\ IInv /\ TypeInv /\ IdsStay /\ RInv' /\ RefIntegrity'
  BY StepIds, RInvStep DEF PInv, RInv, IInv
<1>. SUFFICES ASSUME NEW p \in members', NEW m \in DOMAIN meetings', meetings'[m].group = p[2],
                     ~meetings'[m].completed, role'[p[1]] # "GUEST"
              PROVE  <<m, p[1]>> \in DOMAIN entries'
  BY <1>2 DEF CoverageInv, Coverage, MeetingsOf
<1>4. p[1] \in DOMAIN role' /\ p[2] \in DOMAIN name' /\ p[1] \in DOMAIN role
  BY <1>3 DEF RefIntegrity, IdsStay
<1>5. CASE p \in members /\ m \in DOMAIN meetings
  <2>1. /\ m \in MeetingsOf(p[2]) /\ ~meetings[m].completed /\ role[p[1]] # "GUEST"
    BY <1>1, <1>3, <1>4, <1>5, MeetingsStay DEF MeetingsOf, NobodyPromoted, NothingReopened
  <2>2. <<m, p[1]>> \in DOMAIN entries BY <1>5, <2>1 DEF CoverageInv, Coverage
  <2>. QED BY <1>3, <1>4, <2>2, EntriesStay
<1>6. CASE p \notin members
  <2>1. PICK w \in Worker : Joins(w) /\ p = <<req[w].u, req[w].g>>
    BY <1>3, <1>6, NewMember
  <2>2. role' = role /\ meetings' = meetings /\ req[w].pc = "commit_member"
    BY <2>1 DEF Joins
  <2>3. req[w].trole # "GUEST"
    BY <1>4, <2>1, <2>2 DEF CoverageInv, NothingMissed, Adding, InAddMember
  <2>4. m \in req[w].seen
    BY <2>1, <2>2, <2>3 DEF CoverageInv, NothingMissed, OpenIn, MeetingsOf
  <2>5. req[w].u \in DOMAIN req[w].carry
    BY <2>2, <2>3, <2>4 DEF PInv, InFlight, Lists
  <2>. QED BY <1>3, <2>1, <2>4, <2>5, JoinsWhat
<1>7. CASE p \in members /\ m \notin DOMAIN meetings
  <2>1. PICK w \in Worker : Convenes(w) /\ m = req[w].m BY <1>3, <1>7, MeetingIsNew
  <2>2. role' = role /\ members' = members /\ req[w].pc = "commit_meeting"
    BY <2>1 DEF Convenes
  <2>3. req[w].g = p[2]
    <3>1. meetings'[m] = NewMeeting(req[w]) BY <1>3, <2>1, ConvenesWhat
    <3>. QED BY <3>1 DEF NewMeeting
  <2>4. p = <<p[1], p[2]>> BY <1>3, <1>7 DEF TypeInv, TablesOK, Pair
  <2>5. p[1] \in Regulars(req[w].g) BY <1>4, <1>7, <2>2, <2>3, <2>4 DEF Regulars
  <2>6. p[1] \in DOMAIN req[w].carry BY <2>2, <2>5 DEF CoverageInv, NothingMissed, Creating
  <2>. QED BY <1>3, <2>1, <2>6, ConvenesWhat
<1>. QED BY <1>5, <1>6, <1>7

\* Every member who is not a GUEST has an entry in every open meeting, as long
\* as no meeting is created while a member is added, nobody is promoted from
\* GUEST and no meeting is reopened.
THEOREM CoverageKept ==
  Spec /\ Coverage
  /\ []NeverTogether({"PostMeeting"}, {"PostMember"})
  /\ [][NobodyPromoted /\ NothingReopened]_vars
  => []Coverage
<1>1. Init /\ Coverage => CoverageInv
  BY DEF Init, CoverageInv, NothingMissed, Idle, Adding, Creating, InAddMember
<1>2. CoverageInv => Coverage BY DEF CoverageInv
<1>3. Apart = NeverTogether({"PostMeeting"}, {"PostMember"}) BY DEF Apart
<1>4. PInv /\ CoverageInv /\ [Next]_vars /\ NeverTogether({"PostMeeting"}, {"PostMember"})
      /\ [NobodyPromoted /\ NothingReopened]_vars => CoverageInv'
  BY <1>3, CoverageInvStep
<1>. QED BY <1>1, <1>2, <1>4, RequestsInOrder, PTL DEF Spec

-----------------------------------------------------------------------------
(***************************************************************************)
(* EntriesOnlyOfMembers.                                                   *)
(***************************************************************************)
LEMMA NobodyExtraStep ==
  ASSUME PInv, [Next]_vars, NobodyDemoted, NobodyRemoved, NEW v \in Worker, NobodyExtra(v)
  PROVE  NobodyExtra(v)'
<1>0. RInv /\ IInv /\ TypeInv /\ IdsStay /\ NoResurrection'
  BY StepIds, RInvStep DEF PInv, RInv, IInv
<1>1. CASE req'[v] = req[v]
  <2>1. ASSUME req[v].pc \in Adding, req[v].trole # "GUEST", req[v].u \in DOMAIN role'
        PROVE  role'[req[v].u] # "GUEST"
    BY <1>0, <2>1 DEF NobodyExtra, IdsStay, NobodyDemoted
  <2>2. ASSUME req[v].pc \in Creating, NEW u \in DOMAIN req[v].carry,
               req[v].g \in DOMAIN name', u \in DOMAIN role'
        PROVE  u \in Regulars(req[v].g)'
    <3>1. req[v].op = "PostMeeting" /\ req[v].pc # "get_group"
      BY <1>0, <2>2, Holds, OpOfPc DEF Creating, InCreateMeeting
    <3>2. req[v].g \in DOMAIN name
      <4>1. req[v].g \in DOMAIN name \cup deleted
        BY <3>1 DEF PInv, InFlight, Accepted
      <4>. QED BY <1>0, <2>2, <4>1 DEF IdsStay, NoResurrection
    <3>3. u \in DOMAIN role /\ u \in Regulars(req[v].g)
      BY <1>0, <2>2, <3>2 DEF IdsStay, NobodyExtra
    <3>4. <<u, req[v].g>> \in members' /\ role'[u] # "GUEST"
      BY <2>2, <3>3 DEF Regulars, NobodyRemoved, NobodyDemoted
    <3>. QED BY <1>1, <2>2, <3>4 DEF Regulars
  <2>. HIDE DEF Adding, Creating
  <2>. QED BY <1>1, <2>1, <2>2 DEF NobodyExtra
<1>2. CASE Begins(v)
  BY <1>2 DEF Begins, NobodyExtra, Adding, Creating, InAddMember
<1>3. CASE Ends(v)
  BY <1>0, <1>3, EndsIdle DEF NobodyExtra, Adding, Creating, InAddMember
<1>4. CASE Proceeds(v)
  <2>1. /\ role' = role /\ name' = name /\ req'[v].u = req[v].u /\ req'[v].g = req[v].g
        /\ Regulars(req[v].g)' = Regulars(req[v].g)
    BY <1>4 DEF Proceeds, KeepsArguments, db, Regulars
  <2>2. ASSUME req'[v].pc \in Adding, req'[v].trole # "GUEST", req[v].u \in DOMAIN role
        PROVE  role[req[v].u] # "GUEST"
    BY <1>4, <2>2 DEF Proceeds, ReadsToAdd, NobodyExtra, Adding, InAddMember
  <2>3. ASSUME req'[v].pc \in Creating, NEW u \in DOMAIN req'[v].carry,
               req[v].g \in DOMAIN name, u \in DOMAIN role
        PROVE  u \in Regulars(req[v].g)
    BY <1>4, <2>3 DEF Proceeds, ReadsToCreate, NobodyExtra, Creating, CarryOver
  <2>. HIDE DEF Adding, Creating
  <2>. QED BY <2>1, <2>2, <2>3 DEF NobodyExtra
<1>. QED BY <1>0, <1>1, <1>2, <1>3, <1>4, Moment

LEMMA EntriesInvStep ==
  ASSUME PInv, EntriesInv, [Next]_vars, [NobodyDemoted /\ NobodyRemoved]_vars
  PROVE  EntriesInv'
<1>1. NobodyDemoted /\ NobodyRemoved
  BY DEF NobodyDemoted, NobodyRemoved, vars, db
<1>2. \A w \in Worker : NobodyExtra(w)' BY <1>1, NobodyExtraStep DEF EntriesInv
<1>3. RInv /\ IInv /\ TypeInv /\ IdsStay /\ RefIntegrity'
  BY StepIds, RInvStep DEF PInv, RInv, IInv
<1>. SUFFICES ASSUME NEW k \in DOMAIN entries'
              PROVE  <<k[2], meetings'[k[1]].group>> \in members' /\ role'[k[2]] # "GUEST"
  BY <1>2 DEF EntriesInv, EntriesOnlyOfMembers
<1>4. /\ k[1] \in DOMAIN meetings' /\ k[2] \in DOMAIN role' /\ k[2] \in DOMAIN role
      /\ meetings'[k[1]].group \in DOMAIN name'
  BY <1>3 DEF RefIntegrity, IdsStay
<1>5. CASE k \in DOMAIN entries
  <2>1. meetings'[k[1]].group = meetings[k[1]].group /\ k[1] \in DOMAIN meetings
    BY <1>3, <1>4, <1>5, MeetingsStay DEF IInv, RefIntegrity
  <2>2. <<k[2], meetings[k[1]].group>> \in members /\ role[k[2]] # "GUEST"
    BY <1>5 DEF EntriesInv, EntriesOnlyOfMembers
  <2>. QED BY <1>1, <1>4, <2>1, <2>2 DEF NobodyRemoved, NobodyDemoted
<1>6. CASE k \notin DOMAIN entries
  <2>1. PICK w \in Worker :
            /\ k[2] \in DOMAIN req[w].carry
            /\ \/ Joins(w) /\ k[1] \in req[w].seen /\ k[2] = req[w].u
               \/ Convenes(w) /\ k[1] = req[w].m
    BY <1>3, <1>6, EntryIsNew
  <2>2. CASE Joins(w) /\ k[1] \in req[w].seen /\ k[2] = req[w].u
    <3>1. /\ meetings' = meetings /\ role' = role /\ req[w].pc = "commit_member"
          /\ <<req[w].u, req[w].g>> \in members'
      BY <2>2 DEF Joins
    <3>2. meetings[k[1]].group = req[w].g BY <1>3, <2>2, JoinsWhat
    <3>3. req[w].trole # "GUEST" BY <2>2, <3>1 DEF PInv, InFlight, Lists
    <3>4. role[req[w].u] # "GUEST"
      BY <1>4, <2>2, <3>1, <3>3 DEF EntriesInv, NobodyExtra, Adding, InAddMember
    <3>. QED BY <2>2, <3>1, <3>2, <3>4
  <2>3. CASE Convenes(w) /\ k[1] = req[w].m
    <3>1. /\ members' = members /\ role' = role /\ req[w].pc = "commit_meeting"
          /\ req[w].g \in DOMAIN name
      BY <2>3 DEF Convenes
    <3>2. meetings'[k[1]] = NewMeeting(req[w]) BY <1>3, <2>3, ConvenesWhat
    <3>3. k[2] \in Regulars(req[w].g)
      BY <1>4, <2>1, <3>1 DEF EntriesInv, NobodyExtra, Creating
    <3>. QED BY <3>1, <3>2, <3>3 DEF Regulars, NewMeeting
  <2>. QED BY <2>1, <2>2, <2>3
<1>. QED BY <1>5, <1>6

\* Entries are those of members who are no GUESTs, as long as nobody is made a
\* GUEST and no member is removed: the backfill and the creation of a meeting
\* give entries to nobody else, whatever overlaps.
THEOREM EntriesStayOfMembers ==
  Spec /\ EntriesOnlyOfMembers /\ [][NobodyDemoted /\ NobodyRemoved]_vars
  => []EntriesOnlyOfMembers
<1>1. Init /\ EntriesOnlyOfMembers => EntriesInv
  BY DEF Init, EntriesInv, NobodyExtra, Idle, Adding, Creating, InAddMember
<1>2. EntriesInv => EntriesOnlyOfMembers BY DEF EntriesInv
<1>. QED BY <1>1, <1>2, EntriesInvStep, RequestsInOrder, PTL DEF Spec

-----------------------------------------------------------------------------
(***************************************************************************)
(* Completed meetings.                                                     *)
(***************************************************************************)
\* A meeting that is found open stays so until a PATCH of a meeting commits.
LEMMA StaysOpen ==
  ASSUME IInv, [Next]_vars, \A w \in Worker : req[w].op # "PatchMeeting",
         NEW m \in DOMAIN meetings \cup deleted, StillOpen(m)
  PROVE  StillOpen(m)'
BY FlagStays, MeetingsStay DEF StillOpen

\* An entry changes by a PATCH of it that commits.
LEMMA EntryChanges ==
  ASSUME IInv, [Next]_vars, NEW k \in DOMAIN entries \cap DOMAIN entries',
         entries'[k] # entries[k]
  PROVE  \E w \in Worker : UpdateEntry(w) /\ k = <<req[w].m, req[w].u>>
<1>1. ASSUME NEW w \in Worker, UpdateMeeting(w) PROVE entries' = entries
  BY <1>1 DEF UpdateMeeting
<1>2. PICK w \in Worker : UpdateEntry(w) BY <1>1, StepKinds, DeletesOnly
<1>3. k = <<req[w].m, req[w].u>>
  <2>1. ASSUME NEW row, entries' = [entries EXCEPT ![<<req[w].m, req[w].u>>] = row]
        PROVE  k = <<req[w].m, req[w].u>>
    BY <2>1 DEF IInv, TypeInv, TablesOK, IsTable
  <2>. QED BY <1>2, <2>1 DEF UpdateEntry
<1>. QED BY <1>2, <1>3

LEMMA EntryOpenStep ==
  ASSUME PInv, [Next]_vars, NeverTogether({"PatchEntry"}, {"PatchMeeting"}),
         NEW v \in Worker, EntryOpen(v)
  PROVE  EntryOpen(v)'
<1>0. RInv /\ IInv /\ TypeInv BY DEF PInv, RInv, IInv
<1>1. CASE req'[v] = req[v]
  <2>. SUFFICES ASSUME req[v].pc \in {"get_entry", "update_entry"}
                PROVE  StillOpen(req[v].m)'
    BY <1>1 DEF EntryOpen
  <2>1. req[v].op = "PatchEntry" BY <1>0, Holds, OpOfPc
  <2>2. \A w \in Worker : req[w].op # "PatchMeeting" BY <2>1 DEF NeverTogether
  <2>3. StillOpen(req[v].m) BY DEF EntryOpen
  <2>4. ASSUME req[v].m \in DOMAIN meetings'
        PROVE  ~meetings'[req[v].m].completed
    <3>1. req[v].m \in Meeting BY <1>0, <2>1, Holds DEF ArgumentsOK
    <3>2. CASE req[v].m \in DOMAIN meetings \cup deleted
      BY <1>0, <2>2, <2>3, <2>4, <3>2, StaysOpen DEF StillOpen
    <3>3. CASE req[v].m \notin DOMAIN meetings
      <4>1. PICK w \in Worker : Convenes(w) /\ req[v].m = req[w].m
        BY <1>0, <2>4, <3>3, MeetingIsNew
      <4>2. meetings'[req[v].m] = NewMeeting(req[w]) BY <1>0, <4>1, ConvenesWhat
      <4>. QED BY <4>2 DEF NewMeeting
    <3>. QED BY <3>2, <3>3
  <2>. QED BY <1>1, <2>4 DEF StillOpen
<1>2. CASE Begins(v)
  BY <1>2 DEF Begins, EntryOpen
<1>3. CASE Ends(v)
  BY <1>0, <1>3, EndsIdle DEF EntryOpen
<1>4. CASE Proceeds(v)
  <2>1. meetings' = meetings BY <1>4 DEF Proceeds, KeepsArguments, db
  <2>2. req'[v].pc \in {"get_entry", "update_entry"} =>
           req'[v].m = req[v].m /\ StillOpen(req[v].m)
    BY <1>4 DEF Proceeds, ReadsElse, EntryOpen
  <2>. QED BY <2>1, <2>2 DEF EntryOpen, StillOpen
<1>. QED BY <1>0, <1>1, <1>2, <1>3, <1>4, Moment

LEMMA ReadOnlyStep ==
  ASSUME PInv, ReadOnlyInv, [Next]_vars,
         NEW k \in DOMAIN entries \cap DOMAIN entries', meetings[k[1]].completed
  PROVE  entries'[k] = entries[k]
<1>0. IInv /\ k[1] \in DOMAIN meetings BY DEF PInv, RInv, IInv, RefIntegrity
<1>. SUFFICES ASSUME entries'[k] # entries[k] PROVE FALSE OBVIOUS
<1>1. PICK w \in Worker : UpdateEntry(w) /\ k = <<req[w].m, req[w].u>>
  BY <1>0, EntryChanges
<1>2. req[w].pc = "update_entry" /\ k[1] = req[w].m BY <1>1 DEF UpdateEntry
<1>. QED BY <1>0, <1>2 DEF ReadOnlyInv, EntryOpen, StillOpen

\* The entries of a completed meeting are read-only for everyone, as long as no
\* meeting is patched while an entry is.
THEOREM CompletedStaysReadOnly ==
  Spec /\ []NeverTogether({"PatchEntry"}, {"PatchMeeting"}) => CompletedReadOnly
<1>1. Init => ReadOnlyInv BY DEF Init, ReadOnlyInv, EntryOpen, Idle
<1>2. PInv /\ ReadOnlyInv /\ [Next]_vars /\ NeverTogether({"PatchEntry"}, {"PatchMeeting"})
      => ReadOnlyInv'
  BY EntryOpenStep DEF ReadOnlyInv
<1>3. PInv /\ ReadOnlyInv /\ [Next]_vars
      => [\A k \in DOMAIN entries \cap DOMAIN entries' :
             meetings[k[1]].completed => entries'[k] = entries[k]]_vars
  BY ReadOnlyStep
<1>. QED BY <1>1, <1>2, <1>3, RequestsInOrder, PTL DEF Spec, CompletedReadOnly

LEMMA SeenOpenStep ==
  ASSUME PInv, [Next]_vars, NeverTogether({"PostMember"}, {"PatchMeeting"}),
         NEW v \in Worker, SeenOpen(v)
  PROVE  SeenOpen(v)'
<1>0. RInv /\ IInv /\ TypeInv BY DEF PInv, RInv, IInv
<1>1. CASE req'[v] = req[v]
  <2>. SUFFICES ASSUME req[v].pc \in {"latest_will_do", "commit_member"}, NEW m \in req[v].seen
                PROVE  StillOpen(m)'
    BY <1>1 DEF SeenOpen
  <2>1. req[v].op = "PostMember" BY <1>0, Holds, OpOfPc DEF InAddMember
  <2>2. \A w \in Worker : req[w].op # "PatchMeeting" BY <2>1 DEF NeverTogether
  <2>3. m \in DOMAIN meetings \cup deleted /\ StillOpen(m)
    BY <1>0 DEF SeenOpen, RInv, SeenInGroup
  <2>. QED BY <1>0, <2>2, <2>3, StaysOpen
<1>2. CASE Begins(v)
  BY <1>2 DEF Begins, SeenOpen
<1>3. CASE Ends(v)
  BY <1>0, <1>3, EndsIdle DEF SeenOpen
<1>4. CASE Proceeds(v)
  <2>1. meetings' = meetings BY <1>4 DEF Proceeds, KeepsArguments, db
  <2>2. ASSUME req'[v].pc \in {"latest_will_do", "commit_member"}, NEW m \in req'[v].seen
        PROVE  StillOpen(m)
    <3>2. req[v].pc = "insert_member" => req[v].seen = {}
      BY DEF PInv, InFlight, Lists
    <3>3. m \in OpenIn(req[v].g) \/ (req[v].pc = "latest_will_do" /\ m \in req[v].seen)
      BY <1>4, <2>2, <3>2 DEF Proceeds, ReadsToAdd
    <3>. QED BY <3>3 DEF OpenIn, MeetingsOf, SeenOpen, StillOpen
  <2>. QED BY <2>1, <2>2 DEF SeenOpen, StillOpen
<1>. QED BY <1>0, <1>1, <1>2, <1>3, <1>4, Moment

LEMMA NotBackfilledStep ==
  ASSUME PInv, BackfillInv, [Next]_vars, NEW k \in DOMAIN entries' \ DOMAIN entries,
         k[1] \in DOMAIN meetings
  PROVE  ~meetings[k[1]].completed
<1>0. RInv BY DEF PInv
<1>1. PICK w \in Worker :
          /\ k[2] \in DOMAIN req[w].carry /\ entries'[k] = NewEntry(req[w].carry[k[2]])
          /\ \/ Joins(w) /\ k[1] \in req[w].seen /\ k[2] = req[w].u
             \/ Convenes(w) /\ k[1] = req[w].m
  BY <1>0, EntryIsNew
<1>2. ~(Convenes(w) /\ k[1] = req[w].m) BY <1>0, ConvenesWhat
<1>3. req[w].pc = "commit_member" /\ k[1] \in req[w].seen BY <1>1, <1>2 DEF Joins
<1>. QED BY <1>3 DEF BackfillInv, SeenOpen, StillOpen

\* A completed meeting gets no entries when a member is added, as long as no
\* meeting is patched meanwhile.
THEOREM CompletedGetsNoBackfill ==
  Spec /\ []NeverTogether({"PostMember"}, {"PatchMeeting"}) => CompletedNotBackfilled
<1>1. Init => BackfillInv BY DEF Init, BackfillInv, SeenOpen, Idle
<1>2. PInv /\ BackfillInv /\ [Next]_vars /\ NeverTogether({"PostMember"}, {"PatchMeeting"})
      => BackfillInv'
  BY SeenOpenStep DEF BackfillInv
<1>3. PInv /\ BackfillInv /\ [Next]_vars
      => [\A k \in DOMAIN entries' \ DOMAIN entries :
             k[1] \in DOMAIN meetings => ~meetings[k[1]].completed]_vars
  BY NotBackfilledStep
<1>. QED BY <1>1, <1>2, <1>3, RequestsInOrder, PTL DEF Spec, CompletedNotBackfilled

-----------------------------------------------------------------------------
(***************************************************************************)
(* ConflictMeansMember.                                                    *)
(***************************************************************************)
LEMMA AllThereStep ==
  ASSUME PInv, [Next]_vars, NothingDeletedWhileAdding, NEW v \in Worker, AllThere(v)
  PROVE  AllThere(v)'
<1>0. RInv /\ IInv /\ TypeInv /\ IdsStay /\ NoResurrection
  BY StepIds DEF PInv, RInv, IInv
<1>1. CASE req'[v] = req[v]
  <2>1. ASSUME req[v].pc \in {"get_user"} \cup Adding
        PROVE  req[v].op = "PostMember" /\ deleted' = deleted
    <3>1. req[v].op = "PostMember" BY <1>0, <2>1, Holds, OpOfPc DEF Adding, InAddMember
    <3>. QED BY <3>1 DEF NothingDeletedWhileAdding
  <2>2. ASSUME deleted' = deleted
        PROVE  /\ DOMAIN role \subseteq DOMAIN role' /\ DOMAIN name \subseteq DOMAIN name'
               /\ DOMAIN meetings \subseteq DOMAIN meetings'
    BY <1>0, <2>2, MeetingsStay DEF IdsStay, NoResurrection
  <2>. HIDE DEF Adding
  <2>. QED BY <1>1, <2>1, <2>2 DEF AllThere
<1>2. CASE Begins(v)
  BY <1>2 DEF Begins, AllThere, Adding, InAddMember
<1>3. CASE Ends(v)
  BY <1>0, <1>3, EndsIdle DEF AllThere, Adding, InAddMember
<1>4. CASE Proceeds(v)
  <2>1. /\ role' = role /\ name' = name /\ meetings' = meetings
        /\ req'[v].u = req[v].u /\ req'[v].g = req[v].g
    BY <1>4 DEF Proceeds, KeepsArguments, db
  <2>2. ASSUME req'[v].pc \in {"get_user"} \cup Adding
        PROVE  req[v].g \in DOMAIN name
    BY <1>4, <2>2 DEF Proceeds, ReadsToAdd, ReadsElse, AllThere, Adding, InAddMember
  <2>3. ASSUME req'[v].pc \in Adding
        PROVE  req[v].u \in DOMAIN role /\ req'[v].seen \subseteq DOMAIN meetings
    <3>1. req[v].pc = "get_user" => req[v].seen = {} BY DEF PInv, InFlight, Lists
    <3>2. OpenIn(req[v].g) \subseteq DOMAIN meetings BY DEF OpenIn, MeetingsOf
    <3>. QED BY <1>4, <2>3, <3>1, <3>2
             DEF Proceeds, ReadsToAdd, AllThere, Adding, InAddMember
  <2>. HIDE DEF Adding
  <2>. QED BY <2>1, <2>2, <2>3 DEF AllThere
<1>. QED BY <1>0, <1>1, <1>2, <1>3, <1>4, Moment

\* A statement that stores a request answers nothing.
LEMMA NoAnswerYet ==
  ASSUME PInv, NEW w \in Worker, Acts(w), req[w].pc # "idle",
         NEW r, NEW pc, Step(w, r, pc), "op" \in DOMAIN r, r.op = req[w].op
  PROVE  Proceeds(w) /\ req'[w].pc # "idle" /\ req'[w].status = 0
<1>1. TypeInv BY DEF PInv, RInv, IInv
<1>2. req[w].op # "none" /\ ~Ends(w) BY <1>1, Serving, StepGoesOn
<1>3. Proceeds(w) BY <1>1, <1>2, ActKinds
<1>. QED BY <1>2, <1>3 DEF Proceeds, KeepsArguments, PInv, InFlight, Accepted

LEMMA ConflictStep ==
  ASSUME PInv, ConflictInv, [Next]_vars, NEW w \in Worker, req[w].op = "PostMember",
         req'[w].status = 409, req[w].pc # "idle"
  PROVE  <<req[w].u, req[w].g>> \in members
<1>0. RInv /\ IInv /\ TypeInv /\ req[w].status = 0 /\ RequestOK(req[w]) /\ req[w] \in Request
  BY Holds DEF PInv, InFlight, Accepted, RInv, IInv
<1>1. Acts(w)
  <2>1. ASSUME NEW x \in Worker \ {w}, Acts(x) PROVE FALSE
    <3>1. req'[w] = req[w] BY <1>0, <2>1, ActShape
    <3>. QED BY <1>0, <3>1
  <2>2. CASE SetRole \/ DeleteUser \/ UNCHANGED vars
    BY <1>0, <2>2 DEF SetRole, DeleteUser, vars
  <2>. QED BY <2>1, <2>2 DEF Next, Acts
<1>2. \A code \in Statuses \ {0} : Answer(w, code) => req'[w].status = code
  BY <1>0 DEF Answer, TypeInv, RequestsOK, Idle
<1>3. \A errors, e : ~(Raise(w, errors, e) /\ errors[e] = 404 /\ e \in DOMAIN errors)
  BY <1>2 DEF Raise, Statuses
<1>4. \A r, pc : ~(Step(w, r, pc) /\ "op" \in DOMAIN r /\ r.op = req[w].op)
  BY <1>0, <1>1, NoAnswerYet
<1>5. "op" \in DOMAIN req[w] /\ req[w].pc \in PcsOf("PostMember")
  BY <1>0 DEF RequestOK, LoadedOK, Request
<1>6. ~Call(w) BY <1>0, CallBegins
<1>7. ~(StatementTimeout(w) \/ Abort(w))
  BY <1>2 DEF StatementTimeout, Abort, Statuses
<1>8. CASE req[w].pc = "get_group"
  <2>1. GetGroup(w)
    BY <1>1, <1>6, <1>7, <1>8 DEF Acts, Serve, GroupStep, MeetingStep, CreateGroup, UpdateGroup,
       CollectGroup, DeleteDependents, DeleteGroupRows, IsMember, PinSelect, PinInsert,
       PinReget, Unpin, GetUser, InsertMember, CommitMember, RemoveMember, OpenMeetings,
       SelectLatestWillDo, GetGroupOfMeeting, InsertMeeting, ReadMembers, CollectCarryOver,
       CommitMeeting, GetMeeting, UpdateMeeting, DeleteEntries, DeleteMeetingRows, GetEntry,
       UpdateEntry
  <2>2. GroupErrors(req[w].op) = GroupsMembersCollectionErrors BY DEF GroupErrors
  <2>3. CASE Raise(w, GroupsMembersCollectionErrors, "GroupNotFound")
    BY <1>3, <2>3 DEF GroupsMembersCollectionErrors
  <2>4. CASE Step(w, req[w], AfterGetGroup(req[w]))
    BY <1>4, <1>5, <2>4
  <2>. QED BY <2>1, <2>2, <2>3, <2>4 DEF GetGroup
<1>9. CASE GetUser(w)
  <2>1. CASE Raise(w, GroupsMembersCollectionErrors, "UserNotFound")
    BY <1>3, <2>1 DEF GroupsMembersCollectionErrors
  <2>2. CASE Step(w, [req[w] EXCEPT !.trole = role[req[w].u]], "insert_member")
    BY <1>0, <1>4, <2>2 DEF Request
  <2>. QED BY <1>9, <2>1, <2>2 DEF GetUser
<1>10. CASE InsertMember(w)
  BY <1>4, <1>5, <1>10 DEF InsertMember
<1>11. CASE OpenMeetings(w)
  <2>. DEFINE s == {m \in MeetingsOf(req[w].g) : ~meetings[m].completed}
              r == [req[w] EXCEPT !.seen = s]
  <2>1. \E pc : Step(w, r, pc) BY <1>11 DEF OpenMeetings
  <2>2. "op" \in DOMAIN r /\ r.op = req[w].op
    <3>. HIDE DEF s
    <3>. QED BY <1>0 DEF Request
  <2>. HIDE DEF r
  <2>. QED BY <1>4, <2>1, <2>2
<1>12. CASE SelectLatestWillDo(w)
  <2>1. PICK t : Step(w, [req[w] EXCEPT !.carry = [u \in {req[w].u} |-> t]], "commit_member")
    BY <1>12 DEF SelectLatestWillDo
  <2>. DEFINE f == [u \in {req[w].u} |-> t]
              r == [req[w] EXCEPT !.carry = f]
  <2>2. Step(w, r, "commit_member") BY <2>1
  <2>3. "op" \in DOMAIN r /\ r.op = req[w].op
    <3>. HIDE DEF f
    <3>. QED BY <1>0 DEF Request
  <2>. HIDE DEF r
  <2>. QED BY <1>4, <2>2, <2>3
<1>13. CASE CommitMember(w)
  <2>1. req[w].pc = "commit_member" BY <1>13 DEF CommitMember
  <2>2. /\ req[w].u \in DOMAIN role /\ req[w].g \in DOMAIN name
        /\ req[w].seen \subseteq DOMAIN meetings
    BY <2>1 DEF ConflictInv, AllThere, Adding, InAddMember
  <2>3. Answer(w, 201) BY <1>13, <2>2 DEF CommitMember
  <2>. QED BY <1>2, <2>3 DEF Statuses
<1>14. CASE req[w].pc # "get_group" /\ ~(GetUser(w) \/ InsertMember(w) \/ OpenMeetings(w)
                                          \/ SelectLatestWillDo(w) \/ CommitMember(w))
  BY <1>1, <1>5, <1>6, <1>7, <1>14 DEF Acts, Serve, GroupStep, MeetingStep, CreateGroup, GetGroup,
     UpdateGroup, CollectGroup, DeleteDependents, DeleteGroupRows, IsMember, PinSelect,
     PinInsert, PinReget, Unpin, RemoveMember, GetGroupOfMeeting, InsertMeeting, ReadMembers,
     CollectCarryOver, CommitMeeting, GetMeeting, UpdateMeeting, DeleteEntries,
     DeleteMeetingRows, GetEntry, UpdateEntry, PcsOf, InAddMember
<1>. QED BY <1>8, <1>9, <1>10, <1>11, <1>12, <1>13, <1>14

\* POST members answers 409 only to who asks to add a member, as long as
\* nothing is deleted while a member is added.
THEOREM ConflictNamesMember ==
  Spec /\ [][NothingDeletedWhileAdding]_vars => ConflictMeansMember
<1>1. Init => ConflictInv
  BY DEF Init, ConflictInv, AllThere, Idle, Adding, InAddMember
<1>2. PInv /\ ConflictInv /\ [Next]_vars /\ [NothingDeletedWhileAdding]_vars => ConflictInv'
  <2>1. UNCHANGED vars => NothingDeletedWhileAdding
    BY DEF NothingDeletedWhileAdding, vars, db
  <2>. QED BY <2>1, AllThereStep DEF ConflictInv
<1>3. PInv /\ ConflictInv /\ [Next]_vars
      => [\A w \in Worker : req[w].op = "PostMember" /\ req'[w].status = 409
                            /\ req[w].pc # "idle" =>
             <<req[w].u, req[w].g>> \in members]_vars
  BY ConflictStep
<1>. QED BY <1>1, <1>2, <1>3, RequestsInOrder, PTL DEF Spec, ConflictMeansMember

-----------------------------------------------------------------------------
(***************************************************************************)
(* PromiseIsLastWillDo.                                                    *)
(***************************************************************************)
\* The last plan, by the rows it comes from.
LastPlan(g, u, t) ==
    \/ WillDos(g, u) = {} /\ t = Blank
    \/ \E k \in WillDos(g, u) :
          t = entries[k].text["will_do"] /\ \A j \in WillDos(g, u) : ~Later(j, k)

LEMMA WillDoRows ==
  ASSUME IInv, NEW g, NEW u, NEW k \in WillDos(g, u)
  PROVE  /\ k \in DOMAIN entries /\ k[1] \in DOMAIN meetings /\ k[2] = u /\ u \in DOMAIN role
         /\ meetings[k[1]].group = g /\ entries[k].text["will_do"] # Blank
         /\ meetings[k[1]].date \in Nat /\ entries[k].upd \in Nat
<1>1. /\ k \in DOMAIN entries /\ k[1] \in DOMAIN meetings /\ k[2] = u
      /\ meetings[k[1]].group = g /\ entries[k].text["will_do"] # Blank
  BY DEF WillDos, EntriesOf, MeetingsOf
<1>2. meetings[k[1]] \in MeetingRow /\ entries[k] \in EntryRow
  BY <1>1 DEF IInv, TypeInv, TablesOK, IsTable
<1>3. u \in DOMAIN role BY <1>1 DEF IInv, RefIntegrity
<1>. QED BY <1>1, <1>2, <1>3, DataAssumption DEF MeetingRow, EntryRow

\* The two ways to say it agree.
LEMMA LastPlanIsLast ==
  ASSUME IInv, NEW g, NEW u, NEW t
  PROVE  IsLastWillDo(g, u, t) <=> LastPlan(g, u, t)
<1>. DEFINE At(k) == <<meetings[k[1]].date, entries[k].upd, entries[k].text["will_do"]>>
            plans == {At(k) : k \in WillDos(g, u)}
<1>1. IsLastWillDo(g, u, t) <=>
         IF plans = {} THEN t = Blank
         ELSE \E d \in plans : d[3] = t /\ \A e \in plans :
                 e[1] < d[1] \/ (e[1] = d[1] /\ e[2] <= d[2])
  <2>. DEFINE S == {x \in DOMAIN entries : x[2] = u /\ meetings[x[1]].group = g}
              dated == {At(k) : k \in S}
  <2>1. WillDos(g, u) = {k \in S : At(k)[3] # Blank}
    BY DEF WillDos, EntriesOf, MeetingsOf, IInv, RefIntegrity
  <2>2. plans = {d \in dated : d[3] # Blank}
    <3>. HIDE DEF S, At
    <3>. QED BY <2>1
  <2>. QED BY <2>2 DEF IsLastWillDo
<1>2. \A k \in WillDos(g, u) :
         /\ At(k)[1] = meetings[k[1]].date /\ At(k)[2] = entries[k].upd
         /\ At(k)[3] = entries[k].text["will_do"]
         /\ At(k)[1] \in Nat /\ At(k)[2] \in Nat
  BY WillDoRows
<1>3. \A j, k \in WillDos(g, u) :
         ~Later(j, k) <=> At(j)[1] < At(k)[1] \/ (At(j)[1] = At(k)[1] /\ At(j)[2] <= At(k)[2])
  <2>. TAKE j, k \in WillDos(g, u)
  <2>1. Later(j, k) <=> At(j)[1] > At(k)[1] \/ (At(j)[1] = At(k)[1] /\ At(j)[2] > At(k)[2])
    BY <1>2 DEF Later
  <2>2. At(j)[1] \in Nat /\ At(k)[1] \in Nat /\ At(j)[2] \in Nat /\ At(k)[2] \in Nat
    BY <1>2
  <2>. HIDE DEF At
  <2>. QED BY <2>1, <2>2
<1>. HIDE DEF At
<1>. QED BY <1>1, <1>2, <1>3 DEF LastPlan

\* The query for all members reads, of each, the rows of the query for one.
LEMMA PriorRows ==
  ASSUME IInv, NEW g, NEW us, NEW u \in us
  PROVE  /\ WillDos(g, u) = {k \in Prior(g, us) : k[2] = u}
         /\ \A j, k \in WillDos(g, u) : Precedes(j, k) <=> Later(j, k)
         /\ \A j \in Prior(g, us), k \in WillDos(g, u) : Precedes(j, k) => j \in WillDos(g, u)
<1>1. WillDos(g, u) = {k \in Prior(g, us) : k[2] = u}
  BY DEF WillDos, Prior, EntriesOf, MeetingsOf, IInv, RefIntegrity
<1>. QED BY <1>1 DEF Precedes, Later

\* What both code paths read is a last plan.
LEMMA ReadsLastPlan ==
  ASSUME IInv, NEW g, NEW u
  PROVE  /\ \A t \in LatestWillDo(g, u) : LastPlan(g, u, t)
         /\ \A us : u \in us => \A f \in CarryOver(g, us) : LastPlan(g, u, f[u])
<1>1. \A t \in LatestWillDo(g, u) : LastPlan(g, u, t) BY DEF LatestWillDo, LastPlan
<1>2. ASSUME NEW us, u \in us, NEW f \in CarryOver(g, us) PROVE LastPlan(g, u, f[u])
  <2>1. CASE (\A k \in Prior(g, us) : k[2] # u) /\ f[u] = Blank
    BY <1>2, <2>1, PriorRows DEF LastPlan
  <2>2. ASSUME NEW k \in Prior(g, us), \A j \in Prior(g, us) : ~Precedes(j, k),
               k[2] = u, f[u] = entries[k].text["will_do"]
        PROVE  LastPlan(g, u, f[u])
    <3>1. k \in WillDos(g, u) BY <1>2, <2>2, PriorRows
    <3>2. \A j \in WillDos(g, u) : ~Later(j, k) BY <1>2, <2>2, <3>1, PriorRows
    <3>. QED BY <2>2, <3>1, <3>2 DEF LastPlan
  <2>. QED BY <1>2, <2>1, <2>2 DEF CarryOver
<1>. QED BY <1>1, <1>2

\* A meeting is deleted by a DELETE of it, or with its group.
LEMMA MeetingGone ==
  ASSUME RInv, [Next]_vars, NEW m \in DOMAIN meetings \ DOMAIN meetings'
  PROVE  \/ \E w \in Worker : req[w].op = "DeleteMeeting"
         \/ meetings[m].group \in deleted'
<1>0. IInv /\ TypeInv BY DEF RInv, IInv
<1>1. ASSUME NEW w \in Worker, DeleteGroupRows(w) PROVE meetings[m].group \in deleted'
  <2>1. Cascade({req[w].g}, req[w].seen, {}) BY <1>1 DEF DeleteGroupRows, db
  <2>2. /\ meetings' = Without(meetings, req[w].seen)
        /\ deleted' = deleted \cup ({req[w].g} \cap DOMAIN name)
                              \cup (req[w].seen \cap DOMAIN meetings) \cup ({} \cap DOMAIN role)
    BY <2>1 DEF Cascade
  <2>3. m \in req[w].seen BY <2>2 DEF Without
  <2>4. meetings[m].group = req[w].g BY <2>3 DEF RInv, SeenInGroup
  <2>5. meetings[m].group \in DOMAIN name BY <1>0 DEF IInv, RefIntegrity
  <2>. QED BY <2>2, <2>4, <2>5
<1>2. ASSUME NEW w \in Worker, DeleteMeetingRows(w) PROVE req[w].op = "DeleteMeeting"
  BY <1>0, <1>2, OpOfPc DEF DeleteMeetingRows, TypeInv, RequestsOK
<1>3. ASSUME DeleteUser PROVE meetings' = meetings
  <2>1. PICK u \in Deletable \cap DOMAIN role : Cascade({}, {}, {u}) BY <1>3 DEF DeleteUser
  <2>. QED BY <1>0, <2>1 DEF Cascade, Without, TypeInv, TablesOK, IsTable
<1>4. ASSUME NEW w \in Worker, GroupStep(w) PROVE DeleteGroupRows(w) \/ meetings' = meetings
  BY <1>4 DEF GroupStep, CreateGroup, GetGroup, UpdateGroup, CollectGroup, DeleteDependents,
              IsMember, PinSelect, PinInsert, PinReget, Unpin, GetUser, InsertMember,
              RemoveMember, CommitMember, db
<1>5. ASSUME NEW w \in Worker, MeetingStep(w)
      PROVE  DeleteMeetingRows(w) \/ DOMAIN meetings \subseteq DOMAIN meetings'
  <2>1. CASE CommitMeeting(w) BY <2>1 DEF CommitMeeting
  <2>2. CASE UpdateMeeting(w) BY <2>2 DEF UpdateMeeting
  <2>. QED BY <1>5, <2>1, <2>2 DEF MeetingStep, OpenMeetings, SelectLatestWillDo,
              GetGroupOfMeeting, InsertMeeting, ReadMembers, CollectCarryOver, GetMeeting,
              DeleteEntries, GetEntry, UpdateEntry, db
<1>6. ASSUME NEW w \in Worker, Call(w) \/ Abort(w) \/ StatementTimeout(w)
      PROVE  meetings' = meetings
  BY <1>0, <1>6, CallShape DEF Calls, StatementTimeout, Abort, db
<1>7. CASE SetRole \/ UNCHANGED vars BY <1>7 DEF SetRole, vars, db
<1>. QED BY <1>1, <1>2, <1>3, <1>4, <1>5, <1>6, <1>7 DEF Next, Serve

\* While no entry and no meeting is patched and no meeting deleted, the plans
\* that a user has in a group stay, unless the user or the group is deleted.
Quiet == \A w \in Worker : req[w].op \notin {"PatchEntry", "PatchMeeting", "DeleteMeeting"}

LEMMA PlanRowsStay ==
  ASSUME RInv, [Next]_vars, Quiet, NEW g, NEW u, g \notin deleted', u \notin deleted'
  PROVE  /\ WillDos(g, u)' = WillDos(g, u)
         /\ \A k \in WillDos(g, u) :
               meetings'[k[1]] = meetings[k[1]] /\ entries'[k] = entries[k]
<1>0. RInv /\ IInv /\ TypeInv /\ IdsStay /\ IInv'
  BY StepIds, RInvStep DEF RInv, IInv
<1>1. ASSUME NEW k \in DOMAIN entries \cap DOMAIN entries' PROVE entries'[k] = entries[k]
  <2>1. ASSUME NEW w \in Worker, UpdateEntry(w) PROVE req[w].op = "PatchEntry"
    BY <1>0, <2>1, OpOfPc DEF UpdateEntry, TypeInv, RequestsOK
  <2>. QED BY <1>0, <2>1, EntryChanges DEF Quiet
<1>2. ASSUME NEW m \in DOMAIN meetings \cap DOMAIN meetings' PROVE meetings'[m] = meetings[m]
  BY <1>0, FlagStays DEF Quiet
<1>3. ASSUME NEW k \in WillDos(g, u)
      PROVE  k \in DOMAIN entries' /\ k[1] \in DOMAIN meetings'
  <2>1. /\ k \in DOMAIN entries /\ k[1] \in DOMAIN meetings /\ k[2] = u /\ u \in DOMAIN role
        /\ meetings[k[1]].group = g
    BY <1>0, WillDoRows
  <2>2. k[1] \in DOMAIN meetings' BY <1>0, <2>1, MeetingGone DEF Quiet
  <2>3. u \in DOMAIN role' BY <1>0, <2>1 DEF IdsStay
  <2>. QED BY <1>0, <2>1, <2>2, <2>3, EntriesStay
<1>4. ASSUME NEW k \in WillDos(g, u) PROVE k \in WillDos(g, u)'
  <2>1. /\ k \in DOMAIN entries /\ k[1] \in DOMAIN meetings /\ k[2] = u
        /\ meetings[k[1]].group = g /\ entries[k].text["will_do"] # Blank
    BY <1>0, WillDoRows
  <2>2. entries'[k] = entries[k] /\ meetings'[k[1]] = meetings[k[1]]
    BY <1>1, <1>2, <1>3, <2>1
  <2>. QED BY <1>3, <2>1, <2>2 DEF WillDos, EntriesOf, MeetingsOf
<1>5. ASSUME NEW k \in WillDos(g, u)' PROVE k \in WillDos(g, u)
  <2>1. /\ k \in DOMAIN entries' /\ k[1] \in DOMAIN meetings' /\ k[2] = u
        /\ meetings'[k[1]].group = g /\ entries'[k].text["will_do"] # Blank
    BY DEF WillDos, EntriesOf, MeetingsOf
  <2>2. k \in DOMAIN entries
    <3>1. SUFFICES ASSUME k \notin DOMAIN entries PROVE FALSE OBVIOUS
    <3>2. \E t : entries'[k] = NewEntry(t) BY <1>0, <2>1, <3>1, EntryIsNew
    <3>3. \A t : NewEntry(t).text["will_do"] = Blank BY DataAssumption DEF NewEntry
    <3>. QED BY <2>1, <3>2, <3>3
  <2>3. k[1] \in DOMAIN meetings BY <1>0, <2>2 DEF IInv, RefIntegrity
  <2>. QED BY <1>1, <1>2, <2>1, <2>2, <2>3 DEF WillDos, EntriesOf, MeetingsOf
<1>6. WillDos(g, u)' = WillDos(g, u) BY <1>4, <1>5
<1>7. \A k \in WillDos(g, u) : k \in DOMAIN entries /\ k[1] \in DOMAIN meetings
  BY <1>0, WillDoRows
<1>. QED BY <1>1, <1>2, <1>3, <1>6, <1>7

LEMMA LastPlanStays ==
  ASSUME RInv, [Next]_vars, Quiet, NEW g, NEW u, NEW t, g \notin deleted', u \notin deleted',
         IsLastWillDo(g, u, t)
  PROVE  IsLastWillDo(g, u, t)'
<1>. DEFINE Row(k) == <<meetings[k[1]].date, entries[k].upd, entries[k].text["will_do"]>>
            S == {x \in DOMAIN entries : x[2] = u /\ meetings[x[1]].group = g}
            Q == {d \in {Row(k) : k \in S} : d[3] # Blank}
<1>1. RefIntegrity /\ RefIntegrity' BY RInvStep DEF RInv, IInv
<1>2. /\ WillDos(g, u)' = WillDos(g, u)
      /\ \A k \in WillDos(g, u) :
            meetings'[k[1]] = meetings[k[1]] /\ entries'[k] = entries[k]
  BY PlanRowsStay
<1>3. WillDos(g, u) = {k \in S : Row(k)[3] # Blank} /\ WillDos(g, u)' = {k \in S' : Row(k)'[3] # Blank}
  BY <1>1 DEF WillDos, EntriesOf, MeetingsOf, RefIntegrity
<1>4. \A k \in WillDos(g, u) : Row(k)' = Row(k) BY <1>2
<1>5. Q = {Row(k) : k \in WillDos(g, u)} /\ Q' = {Row(k)' : k \in WillDos(g, u)'}
  <2>. HIDE DEF S, Row
  <2>. QED BY <1>3
<1>6. Q' = Q
  <2>. HIDE DEF Q, Row
  <2>. QED BY <1>2, <1>4, <1>5
<1>7. /\ IsLastWillDo(g, u, t) <=>
            IF Q = {} THEN t = Blank
            ELSE \E d \in Q : d[3] = t /\ \A e \in Q :
                    e[1] < d[1] \/ (e[1] = d[1] /\ e[2] <= d[2])
      /\ IsLastWillDo(g, u, t)' <=>
            IF Q' = {} THEN t = Blank
            ELSE \E d \in Q' : d[3] = t /\ \A e \in Q' :
                    e[1] < d[1] \/ (e[1] = d[1] /\ e[2] <= d[2])
  BY Zenon DEF IsLastWillDo
<1>. HIDE DEF Q
<1>. QED BY <1>6, <1>7

Still == NeverTogether({"PostMember", "PostMeeting"}, {"PatchEntry", "PatchMeeting", "DeleteMeeting"})

LEMMA LastPlansStep ==
  ASSUME PInv, [Next]_vars, Still, NEW v \in Worker, LastPlans(v)
  PROVE  LastPlans(v)'
<1>0. RInv /\ IInv /\ TypeInv /\ IdsStay BY StepIds DEF PInv, RInv, IInv
<1>. SUFFICES ASSUME req'[v].pc \in {"commit_member", "commit_meeting"},
                     NEW u \in DOMAIN req'[v].carry,
                     NEW g \in {req'[v].g}, NEW t \in {req'[v].carry[u]},
                     {u, g} \cap deleted' = {}
              PROVE  IsLastWillDo(g, u, t)'
  BY DEF LastPlans
<1>1. CASE req'[v] = req[v]
  <2>1. req[v].op \in {"PostMember", "PostMeeting"}
    BY <1>0, <1>1, Holds, OpOfPc DEF InAddMember, InCreateMeeting
  <2>2. Quiet BY <2>1 DEF Still, NeverTogether, Quiet
  <2>3. IsLastWillDo(g, u, t) BY <1>0, <1>1 DEF LastPlans, IdsStay
  <2>. QED BY <1>0, <2>2, <2>3, LastPlanStays
<1>2. CASE Begins(v)
  BY <1>2 DEF Begins
<1>3. CASE Ends(v)
  BY <1>0, <1>3, EndsIdle
<1>4. CASE Proceeds(v)
  <2>1. /\ UNCHANGED db /\ req'[v].u = req[v].u /\ req'[v].g = req[v].g
        /\ ReadsToAdd(v) /\ ReadsToCreate(v)
    BY <1>4 DEF Proceeds, KeepsArguments
  <2>2. /\ req[v].pc \in {"insert_member", "open_meetings", "read_members"} =>
              DOMAIN req[v].carry = {}
    BY DEF PInv, InFlight, Lists
  <2>3. LastPlan(g, u, t)
    <3>1. CASE req'[v].pc = "commit_member"
      <4>1. PICK x \in LatestWillDo(g, req[v].u) : req'[v].carry = [y \in {req[v].u} |-> x]
        BY <2>1, <2>2, <3>1 DEF ReadsToAdd
      <4>2. u = req[v].u /\ t = x BY <4>1
      <4>. QED BY <1>0, <4>1, <4>2, ReadsLastPlan
    <3>2. CASE req'[v].pc = "commit_meeting"
      <4>1. req'[v].carry \in CarryOver(g, DOMAIN req[v].carry)
        BY <2>1, <2>2, <3>2 DEF ReadsToCreate
      <4>2. u \in DOMAIN req[v].carry BY <4>1 DEF CarryOver
      <4>. QED BY <1>0, <4>1, <4>2, ReadsLastPlan
    <3>. QED BY <3>1, <3>2
  <2>4. IsLastWillDo(g, u, t) BY <1>0, <2>3, LastPlanIsLast
  <2>. QED BY <2>1, <2>4 DEF IsLastWillDo, db
<1>. QED BY <1>0, <1>1, <1>2, <1>3, <1>4, Moment

LEMMA PromiseStep ==
  ASSUME PInv, PromiseInv, [Next]_vars, NEW k \in DOMAIN entries' \ DOMAIN entries
  PROVE  IsLastWillDo(meetings'[k[1]].group, k[2], entries'[k].text["promised"])
<1>0. RInv /\ NoResurrection BY DEF PInv, RInv, IInv
<1>1. PICK w \in Worker :
          /\ k[2] \in DOMAIN req[w].carry /\ entries'[k] = NewEntry(req[w].carry[k[2]])
          /\ \/ Joins(w) /\ k[1] \in req[w].seen /\ k[2] = req[w].u
             \/ Convenes(w) /\ k[1] = req[w].m
  BY <1>0, EntryIsNew
<1>2. /\ meetings'[k[1]].group = req[w].g
      /\ req[w].pc \in {"commit_member", "commit_meeting"}
      /\ k[2] \in DOMAIN role /\ req[w].g \in DOMAIN name
  <2>1. CASE Joins(w) /\ k[1] \in req[w].seen /\ k[2] = req[w].u
    <3>1. meetings[k[1]].group = req[w].g BY <1>0, <2>1, JoinsWhat
    <3>. QED BY <2>1, <3>1 DEF Joins
  <2>2. CASE Convenes(w) /\ k[1] = req[w].m
    <3>1. meetings'[k[1]] = NewMeeting(req[w]) BY <1>0, <2>2, ConvenesWhat
    <3>. QED BY <1>1, <2>2, <3>1 DEF Convenes, NewMeeting
  <2>. QED BY <1>1, <2>1, <2>2
<1>3. entries'[k].text["promised"] = req[w].carry[k[2]]
  BY <1>1, DataAssumption DEF NewEntry
<1>4. {k[2], req[w].g} \cap deleted = {} BY <1>0, <1>2 DEF NoResurrection
<1>5. IsLastWillDo(req[w].g, k[2], req[w].carry[k[2]])
  BY <1>1, <1>2, <1>4 DEF PromiseInv, LastPlans
<1>. QED BY <1>2, <1>3, <1>5

\* The promise of a new entry is the last will_do of its user in the group, as
\* long as no entry and no meeting is patched, and no meeting deleted, while a
\* member is added or a meeting created.
THEOREM PromiseIsKept ==
  Spec /\ []NeverTogether({"PostMember", "PostMeeting"},
                          {"PatchEntry", "PatchMeeting", "DeleteMeeting"})
  => PromiseIsLastWillDo
<1>1. Init => PromiseInv BY DEF Init, PromiseInv, LastPlans, Idle
<1>2. PInv /\ PromiseInv /\ [Next]_vars
      /\ NeverTogether({"PostMember", "PostMeeting"},
                       {"PatchEntry", "PatchMeeting", "DeleteMeeting"})
      => PromiseInv'
  BY LastPlansStep DEF PromiseInv, Still
<1>3. PInv /\ PromiseInv /\ [Next]_vars
      => [\A k \in DOMAIN entries' \ DOMAIN entries :
             IsLastWillDo(meetings'[k[1]].group, k[2], entries'[k].text["promised"])]_vars
  BY PromiseStep
<1>. QED BY <1>1, <1>2, <1>3, RequestsInOrder, PTL DEF Spec, PromiseIsLastWillDo

-----------------------------------------------------------------------------
(***************************************************************************)
(* PinIdempotent.                                                          *)
(***************************************************************************)
\* A pin leaves by a DELETE of it, or with its user or its group.
LEMMA PinGone ==
  ASSUME IInv, [Next]_vars, NEW p \in pins \ pins'
  PROVE  \/ \E w \in Worker : req[w].op = "DeletePin"
         \/ {p[1], p[2]} \cap deleted' # {}
<1>0. TypeInv /\ p[1] \in DOMAIN role /\ p[2] \in DOMAIN name BY DEF IInv, RefIntegrity
<1>1. ASSUME NEW gs, NEW ms, NEW us, Cascade(gs, ms, us)
      PROVE  {p[1], p[2]} \cap deleted' # {}
  <2>1. p[1] \in us \/ p[2] \in gs BY <1>1 DEF Cascade
  <2>2. deleted' = deleted \cup (gs \cap DOMAIN name) \cup (ms \cap DOMAIN meetings)
                           \cup (us \cap DOMAIN role)
    BY <1>1 DEF Cascade
  <2>3. p[1] \in deleted' \/ p[2] \in deleted' BY <1>0, <2>1, <2>2
  <2>. QED BY <2>3
<1>2. ASSUME NEW w \in Worker, Unpin(w), req[w].op # "DeletePin"
      PROVE  FALSE
  BY <1>0, <1>2 DEF Unpin, TypeInv, RequestsOK, RequestOK, LoadedOK, PcsOf, InAddMember,
                    InCreateMeeting, Request, GroupOps, MeetingOps
<1>3. ASSUME NEW w \in Worker, GroupStep(w)
      PROVE  Unpin(w) \/ pins \subseteq pins' \/ \E gs, ms, us : Cascade(gs, ms, us)
  BY <1>3 DEF GroupStep, CreateGroup, GetGroup, UpdateGroup, CollectGroup, DeleteDependents,
              DeleteGroupRows, IsMember, PinSelect, PinInsert, PinReget, GetUser, InsertMember,
              RemoveMember, CommitMember, db
<1>4. ASSUME NEW w \in Worker, MeetingStep(w)
      PROVE  pins' = pins \/ \E gs, ms, us : Cascade(gs, ms, us)
  BY <1>4 DEF MeetingStep, OpenMeetings, SelectLatestWillDo, GetGroupOfMeeting, InsertMeeting,
              ReadMembers, CollectCarryOver, CommitMeeting, GetMeeting, UpdateMeeting,
              DeleteEntries, DeleteMeetingRows, GetEntry, UpdateEntry, db
<1>5. ASSUME NEW w \in Worker, Call(w) \/ Abort(w) \/ StatementTimeout(w) PROVE pins' = pins
  BY <1>0, <1>5, CallShape DEF Calls, StatementTimeout, Abort, db
<1>6. ASSUME DeleteUser PROVE \E gs, ms, us : Cascade(gs, ms, us)
  BY <1>6 DEF DeleteUser
<1>7. CASE SetRole \/ UNCHANGED vars BY <1>7 DEF SetRole, vars, db
<1>. QED BY <1>1, <1>2, <1>3, <1>4, <1>5, <1>6, <1>7 DEF Next, Serve

PinsApart == NeverTogether({"PutPin"}, {"DeletePin"})

LEMMA PinThereStep ==
  ASSUME PInv, [Next]_vars, PinsApart, NEW v \in Worker, PinThere(v)
  PROVE  PinThere(v)'
<1>0. RInv /\ IInv /\ TypeInv /\ IdsStay BY StepIds DEF PInv, RInv, IInv
<1>1. CASE req'[v] = req[v]
  <2>. SUFFICES ASSUME req[v].pc = "pin_reget", {req[v].g, req[v].by} \cap deleted' = {}
                PROVE  <<req[v].by, req[v].g>> \in pins'
    BY <1>1 DEF PinThere
  <2>1. <<req[v].by, req[v].g>> \in pins BY <1>0 DEF PinThere, IdsStay
  <2>2. req[v].op = "PutPin" BY <1>0, Holds, OpOfPc
  <2>3. ~\E w \in Worker : req[w].op = "DeletePin"
    BY <2>2 DEF PinsApart, NeverTogether
  <2>. QED BY <1>0, <2>1, <2>3, PinGone
<1>2. CASE Begins(v)
  BY <1>2 DEF Begins, PinThere
<1>3. CASE Ends(v)
  BY <1>0, <1>3, EndsIdle DEF PinThere
<1>4. CASE Proceeds(v)
  <2>1. /\ pins' = pins /\ deleted' = deleted /\ req'[v].by = req[v].by /\ req'[v].g = req[v].g
    BY <1>4 DEF Proceeds, KeepsArguments, db
  <2>. SUFFICES ASSUME req'[v].pc = "pin_reget"
                PROVE  \/ <<req[v].by, req[v].g>> \in pins
                       \/ {req[v].g, req[v].by} \cap deleted # {}
    BY <2>1 DEF PinThere
  <2>2. \/ <<req[v].by, req[v].g>> \in pins
        \/ req[v].by \notin DOMAIN role
        \/ req[v].g \notin DOMAIN name
    BY <1>4 DEF Proceeds, ReadsElse
  <2>3. req'[v].op = "PutPin" BY RInvStep, OpOfPc DEF PInv, RInv, IInv, TypeInv, RequestsOK
  <2>4. req[v].op = "PutPin" BY <1>4, <2>3 DEF Proceeds, KeepsArguments
  <2>5. req[v].by \in DOMAIN role \cup deleted
    BY <2>4 DEF PInv, InFlight, Accepted
  <2>6. req[v].g \in DOMAIN name \cup deleted
    BY <1>4, <2>4 DEF PInv, InFlight, Accepted, Proceeds, ReadsElse
  <2>. QED BY <2>2, <2>5, <2>6
<1>. QED BY <1>0, <1>1, <1>2, <1>3, <1>4, Moment

LEMMA PinStep ==
  ASSUME "Abort" \notin Kinds, PInv, PinInv, [Next]_vars,
         NEW w \in Worker, req[w].op = "PutPin", req'[w].pc = "idle"
  PROVE  \/ req'[w].status = 204 /\ <<req[w].by, req[w].g>> \in pins'
         \/ req'[w].status \in {403, 404}
         \/ req'[w].status = 500 /\ {req[w].g, req[w].by} \cap deleted # {}
<1>0. /\ RInv /\ IInv /\ TypeInv /\ RequestOK(req[w]) /\ req[w] \in Request
      /\ req[w].pc \in PcsOf("PutPin")
  BY Holds DEF PInv, RInv, IInv, RequestOK, LoadedOK
<1>1. Acts(w)
  <2>1. req'[w] # req[w] BY <1>0 DEF PcsOf
  <2>2. ASSUME NEW x \in Worker \ {w}, Acts(x) PROVE FALSE
    BY <1>0, <2>1, <2>2, ActShape
  <2>3. CASE SetRole \/ DeleteUser \/ UNCHANGED vars
    BY <2>1, <2>3 DEF SetRole, DeleteUser, vars
  <2>. QED BY <2>2, <2>3 DEF Next, Acts
<1>2. \A code : Answer(w, code) => req'[w].status = code
  BY <1>0 DEF Answer, TypeInv, RequestsOK, Idle
<1>3. \A r, pc : ~(Step(w, r, pc) /\ "op" \in DOMAIN r /\ r.op = req[w].op)
  <2>1. req[w].pc # "idle" BY <1>0 DEF PcsOf
  <2>. QED BY <1>1, <2>1, NoAnswerYet
<1>4. "op" \in DOMAIN req[w] BY <1>0 DEF Request
<1>5. ~Call(w) /\ ~StatementTimeout(w) /\ ~Abort(w)
  BY <1>0, CallBegins DEF StatementTimeout, Abort, PcsOf
<1>6. CASE GetGroup(w)
  <2>1. GroupErrors(req[w].op) = GroupsPinErrors BY DEF GroupErrors
  <2>2. CASE Raise(w, GroupsPinErrors, "GroupNotFound")
    BY <1>2, <2>2 DEF Raise, GroupsPinErrors
  <2>. QED BY <1>3, <1>4, <1>6, <2>1, <2>2 DEF GetGroup
<1>7. CASE IsMember(w)
  <2>1. CASE Raise(w, GroupsPinErrors, "PermissionDenied")
    BY <1>2, <2>1 DEF Raise, GroupsPinErrors
  <2>. QED BY <1>3, <1>4, <1>7, <2>1 DEF IsMember
<1>8. CASE PinSelect(w)
  <2>1. pins' = pins BY <1>8 DEF PinSelect, db
  <2>. QED BY <1>2, <1>3, <1>4, <1>8, <2>1 DEF PinSelect
<1>9. CASE PinInsert(w)
  BY <1>2, <1>3, <1>4, <1>9 DEF PinInsert
<1>10. CASE PinReget(w)
  <2>1. pins' = pins BY <1>10 DEF PinReget, db
  <2>2. req[w].pc = "pin_reget" BY <1>10 DEF PinReget
  <2>3. \/ <<req[w].by, req[w].g>> \in pins
        \/ {req[w].g, req[w].by} \cap deleted # {}
    BY <2>2 DEF PinInv, PinThere
  <2>4. Raise(w, GroupsPinErrors, "IntegrityError") => req'[w].status = 500
    BY <1>2 DEF Raise, GroupsPinErrors
  <2>. QED BY <1>2, <1>10, <2>1, <2>3, <2>4 DEF PinReget
<1>11. CASE ~(GetGroup(w) \/ IsMember(w) \/ PinSelect(w) \/ PinInsert(w) \/ PinReget(w))
  <2>1. ~MeetingStep(w)
    BY <1>0 DEF MeetingStep, OpenMeetings, SelectLatestWillDo, GetGroupOfMeeting, InsertMeeting,
       ReadMembers, CollectCarryOver, CommitMeeting, GetMeeting, UpdateMeeting,
       DeleteEntries, DeleteMeetingRows, GetEntry, UpdateEntry, PcsOf
  <2>2. ~(CreateGroup(w) \/ UpdateGroup(w) \/ CollectGroup(w) \/ DeleteDependents(w)
          \/ DeleteGroupRows(w) \/ Unpin(w))
    BY <1>0 DEF CreateGroup, UpdateGroup, CollectGroup, DeleteDependents, DeleteGroupRows,
        Unpin, PcsOf
  <2>3. ~(GetUser(w) \/ InsertMember(w) \/ CommitMember(w) \/ RemoveMember(w))
    BY <1>0 DEF GetUser, InsertMember, CommitMember, RemoveMember, PcsOf
  <2>. QED BY <1>1, <1>5, <1>11, <2>1, <2>2, <2>3 DEF Acts, Serve, GroupStep
<1>. QED BY <1>6, <1>7, <1>8, <1>9, <1>10, <1>11

\* Whoever pins a group is told 204 and finds it pinned, or is told why not, as
\* long as no request is aborted and nobody unpins at the same time.
THEOREM PinsAreIdempotent ==
  "Abort" \notin Kinds =>
     (Spec /\ []NeverTogether({"PutPin"}, {"DeletePin"}) => PinIdempotent)
<1>. SUFFICES ASSUME "Abort" \notin Kinds
              PROVE  Spec /\ []NeverTogether({"PutPin"}, {"DeletePin"}) => PinIdempotent
  OBVIOUS
<1>1. Init => PinInv BY DEF Init, PinInv, PinThere, Idle
<1>2. PInv /\ PinInv /\ [Next]_vars /\ NeverTogether({"PutPin"}, {"DeletePin"}) => PinInv'
  BY PinThereStep DEF PinInv, PinsApart
<1>3. PInv /\ PinInv /\ [Next]_vars
      => [\A w \in Worker : req[w].op = "PutPin" /\ req'[w].pc = "idle" =>
             \/ req'[w].status = 204 /\ <<req[w].by, req[w].g>> \in pins'
             \/ req'[w].status \in {403, 404}
             \/ req'[w].status = 500 /\ {req[w].g, req[w].by} \cap deleted # {}]_vars
  BY PinStep
<1>. QED BY <1>1, <1>2, <1>3, RequestsInOrder, PTL DEF Spec, PinIdempotent
=============================================================================
