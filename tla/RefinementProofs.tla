-------------------------- MODULE RefinementProofs --------------------------
(***************************************************************************)
(* The service implements Standup: proofs for every value of the           *)
(* constants.                                                              *)
(***************************************************************************)
EXTENDS Refinement, SitdownProofs

-----------------------------------------------------------------------------
(***************************************************************************)
(* Three shapes of a step: a call, a statement that is not the last, and   *)
(* the answer.                                                             *)
(***************************************************************************)
Others(w) == RequestsOK' /\ \A v \in Worker \ {w} : req'[v] = req[v]

Calls(w) ==
    /\ UNCHANGED db
    /\ req[w].op = "none"
    /\ Answer(w, 403) \/ (req'[w].op # "none" /\ req'[w].status = 0)
    /\ req'[w].seen = {} /\ req'[w].pc \notin InAddMember

Continues(w) ==
    /\ UNCHANGED db
    /\ Visible(req'[w]) = Visible(req[w])
    /\ req'[w].g = req[w].g /\ req'[w].u = req[w].u
    /\ req'[w].seen = req[w].seen \/ req'[w].seen \subseteq MeetingsOf(req[w].g)
    /\ req'[w].pc \in InAddMember =>
          \/ req[w].pc \in InAddMember
          \/ <<req[w].u, req[w].g>> \notin members /\ ~PairLocked(w)

Ends(w) == \E code \in Statuses \ {0} : Answer(w, code)

\* A request as authentication makes it, with the fields a call sets.
Fresh(r) ==
    /\ {"op", "status", "seen", "pc", "g", "m", "u", "gname", "mbody", "ebody"} \subseteq DOMAIN r
    /\ r.op # "none" /\ r.status = 0 /\ r.seen = {}

LEMMA AuthenticatedFresh == \A op, by : op # "none" => Fresh(Authenticated(op, by))
BY DEF Fresh, Authenticated, Idle

LEMMA FreshCall ==
  ASSUME RequestsOK, NEW w \in Worker, NEW kind, Accepts(w, kind),
         NEW r, Fresh(r), NEW pc, pc \notin InAddMember, NEW errors,
         errors \in {GroupsCollectionErrors, GroupsDetailErrors, GroupsPinErrors,
                    GroupsMembersCollectionErrors, GroupsMembersDetailErrors,
                    MeetingsCollectionErrors, MeetingsDetailErrors, EntriesDetailErrors},
         \/ Step(w, r, pc)
         \/ ManagerOnly(w, r, pc, errors)
         \/ MeetingManagerOnly(w, r, pc, errors),
         UNCHANGED db
  PROVE  Calls(w)
<1>1. req \in [Worker -> Request] BY DEF RequestsOK
<1>4. req[w].op = "none"
  BY DEF RequestsOK, RequestOK, LoadedOK, PcsOf, Request, GroupOps, MeetingOps, Accepts,
         InAddMember, InCreateMeeting
<1>2. CASE Step(w, r, pc)
  <2>1. req'[w] = [r EXCEPT !.pc = pc] BY <1>1, <1>2 DEF Step
  <2>. QED BY <1>4, <2>1 DEF Fresh, Calls
<1>3. CASE Raise(w, errors, "PermissionDenied")
  <2>1. /\ "PermissionDenied" \in DOMAIN errors
        /\ errors["PermissionDenied"] = 403
    BY DEF GroupsCollectionErrors, GroupsDetailErrors, GroupsPinErrors,
           GroupsMembersCollectionErrors, GroupsMembersDetailErrors, MeetingsCollectionErrors,
           MeetingsDetailErrors, EntriesDetailErrors
  <2>2. Answer(w, 403) BY <1>3, <2>1 DEF Raise
  <2>3. req'[w] = [Idle EXCEPT !.status = 403] BY <1>1, <2>2 DEF Answer
  <2>. QED BY <1>4, <2>2, <2>3 DEF Idle, Calls, InAddMember
<1>. QED BY <1>2, <1>3 DEF ManagerOnly, MeetingManagerOnly

\* Calls write nothing; the worker begins a request, or answers 403 at once.
LEMMA CallShape ==
  ASSUME TypeInv, NEW w \in Worker, Call(w)
  PROVE  Calls(w)
<1>. USE DEF TypeInv
<1>0. "create_group" \notin InAddMember /\ "get_group" \notin InAddMember
      /\ "get_meeting" \notin InAddMember
  BY DEF InAddMember
<1>1. CASE PostGroup(w)
  <2>1. PICK by \in Callers \cap DOMAIN role, n \in Name :
          ManagerOnly(w, [Authenticated("PostGroup", by) EXCEPT !.gname = n],
                      "create_group", GroupsCollectionErrors)
    BY <1>1 DEF PostGroup
  <2>2. Fresh([Authenticated("PostGroup", by) EXCEPT !.gname = n])
    BY AuthenticatedFresh DEF Fresh
  <2>. QED BY <1>0, <1>1, <2>1, <2>2, FreshCall DEF PostGroup, Accepts
<1>2. CASE PatchGroup(w)
  <2>1. PICK by \in Callers \cap DOMAIN role, g \in Known(DOMAIN name) \cap Group,
             n \in Name \cup {None} :
          ManagerOnly(w, [Authenticated("PatchGroup", by) EXCEPT !.g = g, !.gname = n],
                      "get_group", GroupsDetailErrors)
    BY <1>2 DEF PatchGroup
  <2>2. Fresh([Authenticated("PatchGroup", by) EXCEPT !.g = g, !.gname = n])
    BY AuthenticatedFresh DEF Fresh
  <2>. QED BY <1>0, <1>2, <2>1, <2>2, FreshCall DEF PatchGroup, Accepts
<1>3. CASE DeleteGroup(w)
  <2>1. PICK by \in Callers \cap DOMAIN role, g \in Known(DOMAIN name) \cap Group :
          ManagerOnly(w, [Authenticated("DeleteGroup", by) EXCEPT !.g = g],
                      "get_group", GroupsDetailErrors)
    BY <1>3 DEF DeleteGroup
  <2>2. Fresh([Authenticated("DeleteGroup", by) EXCEPT !.g = g])
    BY AuthenticatedFresh DEF Fresh
  <2>. QED BY <1>0, <1>3, <2>1, <2>2, FreshCall DEF DeleteGroup, Accepts
<1>4. CASE PutPin(w)
  <2>1. PICK by \in Callers \cap DOMAIN role, g \in Known(DOMAIN name) \cap Group :
          Step(w, [Authenticated("PutPin", by) EXCEPT !.g = g], "get_group")
    BY <1>4 DEF PutPin
  <2>2. Fresh([Authenticated("PutPin", by) EXCEPT !.g = g])
    BY AuthenticatedFresh DEF Fresh
  <2>. QED BY <1>0, <1>4, <2>1, <2>2, FreshCall DEF PutPin, Accepts
<1>5. CASE DeletePin(w)
  <2>1. PICK by \in Callers \cap DOMAIN role, g \in Known(DOMAIN name) \cap Group :
          Step(w, [Authenticated("DeletePin", by) EXCEPT !.g = g], "get_group")
    BY <1>5 DEF DeletePin
  <2>2. Fresh([Authenticated("DeletePin", by) EXCEPT !.g = g])
    BY AuthenticatedFresh DEF Fresh
  <2>. QED BY <1>0, <1>5, <2>1, <2>2, FreshCall DEF DeletePin, Accepts
<1>6. CASE PostMember(w)
  <2>1. PICK by \in Callers \cap DOMAIN role, g \in Known(DOMAIN name) \cap Group,
             u \in Known(DOMAIN role) \cap User :
          ManagerOnly(w, [Authenticated("PostMember", by) EXCEPT !.g = g, !.u = u],
                      "get_group", GroupsMembersCollectionErrors)
    BY <1>6 DEF PostMember
  <2>2. Fresh([Authenticated("PostMember", by) EXCEPT !.g = g, !.u = u])
    BY AuthenticatedFresh DEF Fresh
  <2>. QED BY <1>0, <1>6, <2>1, <2>2, FreshCall DEF PostMember, Accepts
<1>7. CASE DeleteMember(w)
  <2>1. PICK by \in Callers \cap DOMAIN role, g \in Known(DOMAIN name) \cap Group,
             u \in Known(DOMAIN role) \cap User :
          ManagerOnly(w, [Authenticated("DeleteMember", by) EXCEPT !.g = g, !.u = u],
                      "get_group", GroupsMembersDetailErrors)
    BY <1>7 DEF DeleteMember
  <2>2. Fresh([Authenticated("DeleteMember", by) EXCEPT !.g = g, !.u = u])
    BY AuthenticatedFresh DEF Fresh
  <2>. QED BY <1>0, <1>7, <2>1, <2>2, FreshCall DEF DeleteMember, Accepts
<1>8. CASE PostMeeting(w)
  <2>1. PICK by \in Callers \cap DOMAIN role, g \in Known(DOMAIN name) \cap Group, d \in Date :
          MeetingManagerOnly(w, [Authenticated("PostMeeting", by) EXCEPT
                                   !.g = g, !.mbody = [date |-> d, completed |-> None]],
                             "get_group", MeetingsCollectionErrors)
    BY <1>8 DEF PostMeeting
  <2>2. Fresh([Authenticated("PostMeeting", by) EXCEPT
                 !.g = g, !.mbody = [date |-> d, completed |-> None]])
    BY AuthenticatedFresh DEF Fresh
  <2>. QED BY <1>0, <1>8, <2>1, <2>2, FreshCall DEF PostMeeting, Accepts
<1>9. CASE PatchMeeting(w)
  <2>1. PICK by \in Callers \cap DOMAIN role, m \in Known(DOMAIN meetings) \cap Meeting,
             body \in MeetingPatches :
          MeetingManagerOnly(w, [Authenticated("PatchMeeting", by) EXCEPT !.m = m, !.mbody = body],
                      "get_meeting", MeetingsDetailErrors)
    BY <1>9 DEF PatchMeeting
  <2>2. Fresh([Authenticated("PatchMeeting", by) EXCEPT !.m = m, !.mbody = body])
    BY AuthenticatedFresh DEF Fresh
  <2>. QED BY <1>0, <1>9, <2>1, <2>2, FreshCall DEF PatchMeeting, Accepts
<1>10. CASE DeleteMeeting(w)
  <2>1. PICK by \in Callers \cap DOMAIN role, m \in Known(DOMAIN meetings) \cap Meeting :
          MeetingManagerOnly(w, [Authenticated("DeleteMeeting", by) EXCEPT !.m = m],
                      "get_meeting", MeetingsDetailErrors)
    BY <1>10 DEF DeleteMeeting
  <2>2. Fresh([Authenticated("DeleteMeeting", by) EXCEPT !.m = m])
    BY AuthenticatedFresh DEF Fresh
  <2>. QED BY <1>0, <1>10, <2>1, <2>2, FreshCall DEF DeleteMeeting, Accepts
<1>11. CASE PatchEntry(w)
  <2>1. PICK by \in Callers \cap DOMAIN role, m \in Known(DOMAIN meetings) \cap Meeting,
             u \in Known(DOMAIN role) \cap User, body \in EntryPatches :
          Step(w, [Authenticated("PatchEntry", by) EXCEPT !.m = m, !.u = u, !.ebody = body],
                      "get_meeting")
    BY <1>11 DEF PatchEntry
  <2>2. Fresh([Authenticated("PatchEntry", by) EXCEPT !.m = m, !.u = u, !.ebody = body])
    BY AuthenticatedFresh DEF Fresh
  <2>. QED BY <1>0, <1>11, <2>1, <2>2, FreshCall DEF PatchEntry, Accepts
<1>. QED BY <1>1, <1>2, <1>3, <1>4, <1>5, <1>6, <1>7, <1>8, <1>9, <1>10, <1>11
         DEF Call, GroupCall, MeetingCall

\* Step stores r and nothing else.
LEMMA StepShape ==
  ASSUME RequestsOK, NEW w \in Worker, NEW r \in Request, NEW pc, Step(w, r, pc)
  PROVE  /\ Visible(req'[w]) = Visible(r) /\ req'[w].g = r.g /\ req'[w].u = r.u
         /\ req'[w].seen = r.seen /\ req'[w].pc = pc
<1>1. req'[w] = [r EXCEPT !.pc = pc] BY DEF Step, RequestsOK
<1>. QED BY <1>1 DEF Request, Visible

\* No error is answered 0.
LEMMA RaiseShape ==
  ASSUME NEW w \in Worker, NEW errors, NEW e, Raise(w, errors, e),
         errors \in {GroupsCollectionErrors, GroupsDetailErrors, GroupsPinErrors,
                     GroupsMembersCollectionErrors, GroupsMembersDetailErrors,
                     MeetingsCollectionErrors, MeetingsDetailErrors, EntriesDetailErrors}
  PROVE  \E code \in {403, 404, 409, 500} : Answer(w, code)
<1>. DEFINE code == IF e \in DOMAIN errors THEN errors[e] ELSE 500
<1>1. \A x \in DOMAIN errors : errors[x] \in {403, 404, 409}
  BY DEF GroupsCollectionErrors, GroupsDetailErrors, GroupsPinErrors,
         GroupsMembersCollectionErrors, GroupsMembersDetailErrors, MeetingsCollectionErrors,
         MeetingsDetailErrors, EntriesDetailErrors
<1>2. code \in {403, 404, 409, 500} BY <1>1
<1>3. Answer(w, code) BY DEF Raise
<1>. QED BY <1>2, <1>3

\* The request of a deletion, with the rows its first statement took.
Keeping(gs, ms, w) == [req[w] EXCEPT !.found = Dependents(gs, ms)]

LEMMA KeepingShape ==
  ASSUME TablesOK, NEW w \in Worker, RequestOK(req[w]), NEW gs, NEW ms
  PROVE  LET r == Keeping(gs, ms, w)
         IN /\ r \in Request /\ Visible(r) = Visible(req[w])
            /\ r.g = req[w].g /\ r.u = req[w].u /\ r.seen = req[w].seen
            /\ r.op = req[w].op /\ "op" \in DOMAIN r
<1>. DEFINE found == Dependents(gs, ms)
            r == [req[w] EXCEPT !.found = found]
<1>1. r \in Request BY FoundOK DEF RequestOK
<1>2. req[w] \in Request BY DEF RequestOK
<1>. HIDE DEF found
<1>3. /\ Visible(r) = Visible(req[w])
      /\ r.g = req[w].g /\ r.u = req[w].u /\ r.seen = req[w].seen
      /\ r.op = req[w].op /\ "op" \in DOMAIN r
  BY <1>2 DEF Request, Visible
<1>. QED BY <1>1, <1>3 DEF Keeping, found

LEMMA GroupStepShape ==
  ASSUME TypeInv, NEW w \in Worker, GroupStep(w), ~Ends(w)
  PROVE  Continues(w)
<1>. USE DEF TypeInv
<1>0. /\ req[w] \in Request /\ RequestsOK
      /\ \A code \in Statuses \ {0} : ~Answer(w, code)
  BY DEF RequestsOK, Ends
<1>00. \A errors \in {GroupsCollectionErrors, GroupsDetailErrors, GroupsPinErrors,
                     GroupsMembersCollectionErrors, GroupsMembersDetailErrors,
                     MeetingsCollectionErrors, MeetingsDetailErrors, EntriesDetailErrors} :
          \A e : ~Raise(w, errors, e)
  <2>1. \A code \in {403, 404, 409, 500} : ~Answer(w, code) BY <1>0 DEF Statuses
  <2>. QED BY <2>1, RaiseShape
<1>000. {200, 201, 204} \subseteq Statuses \ {0} BY DEF Statuses
<1>. USE <1>0, <1>00, <1>000
<1>1. CASE GetGroup(w)
  <2>1. GroupErrors(req[w].op) \in {GroupsDetailErrors, GroupsPinErrors,
                     GroupsMembersCollectionErrors, GroupsMembersDetailErrors}
    BY <1>1 DEF GetGroup, GroupErrors, GetGroupOps, GroupOps
  <2>2. Step(w, req[w], AfterGetGroup(req[w])) BY <1>1, <2>1 DEF GetGroup
  <2>3. AfterGetGroup(req[w]) \notin InAddMember
    BY <1>1 DEF AfterGetGroup, GetGroup, GetGroupOps, GroupOps, InAddMember
  <2>. QED BY <1>1, <2>2, <2>3, StepShape DEF GetGroup, Continues
<1>2. CASE CollectGroup(w)
  <2>. DEFINE s == MeetingsOf(req[w].g)
              r == [req[w] EXCEPT !.seen = s]
  <2>1. s \in SUBSET Meeting BY DEF MeetingsOf, TablesOK, IsTable
  <2>2. Step(w, r, "delete_dependents") BY <1>2 DEF CollectGroup
  <2>3. r \in Request /\ r.seen = s /\ Visible(r) = Visible(req[w]) /\ r.g = req[w].g
        /\ r.u = req[w].u
    <3>. HIDE DEF s
    <3>. QED BY <2>1 DEF Request, Visible
  <2>. HIDE DEF r
  <2>. QED BY <1>2, <2>2, <2>3, StepShape DEF CollectGroup, Continues, InAddMember
<1>3. CASE IsMember(w)
  BY <1>3, StepShape DEF IsMember, Continues, InAddMember
<1>4. CASE PinSelect(w)
  BY <1>4, StepShape DEF PinSelect, Continues, InAddMember
<1>5. CASE PinInsert(w)
  <2>1. Step(w, req[w], "pin_reget") /\ UNCHANGED db
    BY <1>5 DEF PinInsert, db
  <2>. QED BY <2>1, StepShape DEF Continues, InAddMember
<1>6. CASE GetUser(w)
  <2>. DEFINE t == role[req[w].u]
              r == [req[w] EXCEPT !.trole = t]
  <2>1. req[w].u \in DOMAIN role /\ Step(w, r, "insert_member") BY <1>6 DEF GetUser
  <2>2. t \in Roles BY <2>1 DEF TablesOK, IsTable
  <2>3. r \in Request /\ r.seen = req[w].seen /\ Visible(r) = Visible(req[w]) /\ r.g = req[w].g
        /\ r.u = req[w].u
    <3>. HIDE DEF t
    <3>. QED BY <2>2 DEF Request, Visible
  <2>. HIDE DEF r
  <2>. QED BY <1>6, <2>1, <2>3, StepShape DEF GetUser, Continues, InAddMember
<1>7. CASE InsertMember(w)
  <2>1. <<req[w].u, req[w].g>> \notin members /\ ~PairLocked(w) /\ UNCHANGED db
        /\ \E pc : Step(w, req[w], pc)
    BY <1>7 DEF InsertMember
  <2>. QED BY <2>1, StepShape DEF Continues
<1>8. CASE DeleteDependents(w)
  <2>1. Step(w, Keeping({req[w].g}, req[w].seen, w), "delete_group")
    BY <1>8 DEF DeleteDependents, Keeping
  <2>2. RequestOK(req[w]) BY DEF RequestsOK
  <2>. QED BY <1>8, <2>1, <2>2, KeepingShape, StepShape
           DEF DeleteDependents, Continues, InAddMember
<1>. QED BY <1>1, <1>2, <1>3, <1>4, <1>5, <1>6, <1>7, <1>8
         DEF GroupStep, CreateGroup, UpdateGroup, DeleteGroupRows, PinReget, Unpin,
             CommitMember, RemoveMember

\* A step that stores a request of the same group and user keeps what Continues
\* says, when it says so of the meetings it has read and of its next statement.
LEMMA StoreShape ==
  ASSUME RequestsOK, NEW w \in Worker, NEW r \in Request, NEW pc, Step(w, r, pc),
         Visible(r) = Visible(req[w]), r.g = req[w].g, r.u = req[w].u,
         r.seen = req[w].seen \/ r.seen \subseteq MeetingsOf(req[w].g),
         pc \in InAddMember => req[w].pc \in InAddMember,
         UNCHANGED db
  PROVE  Continues(w)
BY StepShape DEF Continues

LEMMA MeetingStepShape ==
  ASSUME TypeInv, NEW w \in Worker, MeetingStep(w), ~Ends(w)
  PROVE  Continues(w)
<1>. USE DEF TypeInv
<1>0. /\ req[w] \in Request /\ RequestsOK
      /\ \A code \in Statuses \ {0} : ~Answer(w, code)
  BY DEF RequestsOK, Ends
<1>00. \A errors \in {GroupsCollectionErrors, GroupsDetailErrors, GroupsPinErrors,
                     GroupsMembersCollectionErrors, GroupsMembersDetailErrors,
                     MeetingsCollectionErrors, MeetingsDetailErrors, EntriesDetailErrors} :
          \A e : ~Raise(w, errors, e)
  <2>1. \A code \in {403, 404, 409, 500} : ~Answer(w, code) BY <1>0 DEF Statuses
  <2>. QED BY <2>1, RaiseShape
<1>000. {200, 201, 204} \subseteq Statuses \ {0} BY DEF Statuses
<1>. USE <1>0, <1>00, <1>000
<1>1. CASE OpenMeetings(w)
  <2>. DEFINE s == {m \in MeetingsOf(req[w].g) : ~meetings[m].completed}
              r == [req[w] EXCEPT !.seen = s]
              pc == IF s = {} THEN "commit_member" ELSE "latest_will_do"
  <2>1. s \in SUBSET Meeting /\ s \subseteq MeetingsOf(req[w].g)
    BY DEF MeetingsOf, TablesOK, IsTable
  <2>2. Step(w, r, pc) /\ req[w].pc \in InAddMember BY <1>1 DEF OpenMeetings, InAddMember
  <2>3. r \in Request /\ r.seen = s /\ Visible(r) = Visible(req[w]) /\ r.g = req[w].g
        /\ r.u = req[w].u
    <3>. HIDE DEF s
    <3>. QED BY <2>1 DEF Request, Visible
  <2>. HIDE DEF r, pc, s
  <2>. QED BY <1>1, <2>1, <2>2, <2>3, StoreShape DEF OpenMeetings
<1>2. CASE SelectLatestWillDo(w)
  <2>1. PICK t \in LatestWillDo(req[w].g, req[w].u) :
           Step(w, [req[w] EXCEPT !.carry = [u \in {req[w].u} |-> t]], "commit_member")
    BY <1>2 DEF SelectLatestWillDo
  <2>. DEFINE f == [u \in {req[w].u} |-> t]
  <2>2. req[w].u \in User
    <3>1. RequestOK(req[w]) /\ req[w].pc \in InAddMember
      BY <1>2 DEF RequestsOK, SelectLatestWillDo, InAddMember
    <3>2. req[w].op = "PostMember" BY <3>1, OpOfPc
    <3>. QED BY <3>1, <3>2 DEF RequestOK, ArgumentsOK
  <2>3. f \in PartialFn(User, Text)
    <3>1. f \in [{req[w].u} -> Text] BY LatestWillDoType
    <3>. QED BY <2>2, <3>1, CarryType
  <2>. DEFINE r == [req[w] EXCEPT !.carry = f]
  <2>4. Step(w, r, "commit_member") BY <2>1
  <2>5. r \in Request /\ r.seen = req[w].seen /\ Visible(r) = Visible(req[w])
        /\ r.g = req[w].g /\ r.u = req[w].u
    <3>. HIDE DEF f
    <3>. QED BY <2>3 DEF Request, Visible
  <2>. HIDE DEF r
  <2>. QED BY <1>2, <2>4, <2>5, StoreShape DEF SelectLatestWillDo, InAddMember
<1>3. CASE GetGroupOfMeeting(w)
  BY <1>3, StoreShape DEF GetGroupOfMeeting, InAddMember
<1>4. CASE InsertMeeting(w)
  <2>1. PICK m \in Meeting : Step(w, [req[w] EXCEPT !.m = m], "read_members")
    BY <1>4 DEF InsertMeeting
  <2>. DEFINE r == [req[w] EXCEPT !.m = m]
  <2>2. Step(w, r, "read_members") BY <2>1
  <2>0. req[w].op = "PostMeeting" BY <1>4, OpOfPc DEF InsertMeeting, RequestsOK
  <2>3. r \in Request /\ r.seen = req[w].seen /\ Visible(r) = Visible(req[w])
        /\ r.g = req[w].g /\ r.u = req[w].u
    BY <2>0 DEF Request, Visible
  <2>. HIDE DEF r
  <2>. QED BY <1>4, <2>2, <2>3, StoreShape DEF InsertMeeting, InAddMember
<1>5. CASE ReadMembers(w)
  <2>. DEFINE us == {u \in DOMAIN role : <<u, req[w].g>> \in members /\ role[u] # "GUEST"}
              f == [u \in us |-> Blank]
              r == [req[w] EXCEPT !.carry = f]
              pc == IF us = {} THEN "commit_meeting" ELSE "carry_over"
  <2>1. f \in PartialFn(User, Text)
    <3>1. us \in SUBSET User BY DEF TablesOK, IsTable
    <3>2. f \in [us -> Text] BY DataAssumption
    <3>. HIDE DEF us, f
    <3>. QED BY <3>1, <3>2, CarryType
  <2>2. Step(w, r, pc) BY <1>5 DEF ReadMembers
  <2>3. r \in Request /\ r.seen = req[w].seen /\ Visible(r) = Visible(req[w])
        /\ r.g = req[w].g /\ r.u = req[w].u
    <3>. HIDE DEF f
    <3>. QED BY <2>1 DEF Request, Visible
  <2>4. pc \notin InAddMember BY DEF InAddMember
  <2>. HIDE DEF r, pc
  <2>. QED BY <1>5, <2>2, <2>3, <2>4, StoreShape DEF ReadMembers
<1>6. CASE CollectCarryOver(w)
  <2>1. PICK f \in CarryOver(req[w].g, DOMAIN req[w].carry) :
          Step(w, [req[w] EXCEPT !.carry = f], "commit_meeting")
    BY <1>6 DEF CollectCarryOver
  <2>2. f \in PartialFn(User, Text)
    <3>1. req[w].carry \in PartialFn(User, Text) BY DEF Request
    <3>2. DOMAIN req[w].carry \in SUBSET User BY <3>1 DEF PartialFn
    <3>3. f \in [DOMAIN req[w].carry -> Text] BY DEF CarryOver
    <3>. QED BY <3>2, <3>3, CarryType
  <2>. DEFINE r == [req[w] EXCEPT !.carry = f]
  <2>3. Step(w, r, "commit_meeting") BY <2>1
  <2>4. r \in Request /\ r.seen = req[w].seen /\ Visible(r) = Visible(req[w])
        /\ r.g = req[w].g /\ r.u = req[w].u
    BY <2>2 DEF Request, Visible
  <2>. HIDE DEF r
  <2>. QED BY <1>6, <2>3, <2>4, StoreShape DEF CollectCarryOver, InAddMember
<1>7. CASE GetMeeting(w)
  <2>1. MeetingErrors(req[w].op) \in {MeetingsDetailErrors, EntriesDetailErrors}
    BY DEF MeetingErrors
  <2>2. CASE req[w].m \in DOMAIN meetings /\ Step(w, [req[w] EXCEPT !.mrow = meetings[req[w].m]],
                                                  "update_meeting")
    <3>. DEFINE row == meetings[req[w].m]
                r == [req[w] EXCEPT !.mrow = row]
    <3>1. row \in MeetingRow BY <2>2 DEF TablesOK, IsTable
    <3>2. Step(w, r, "update_meeting") BY <2>2
    <3>3. r \in Request /\ r.seen = req[w].seen /\ Visible(r) = Visible(req[w])
          /\ r.g = req[w].g /\ r.u = req[w].u
      <4>. HIDE DEF row
      <4>. QED BY <3>1 DEF Request, Visible
    <3>. HIDE DEF r
    <3>. QED BY <1>7, <3>2, <3>3, StoreShape DEF GetMeeting, InAddMember
  <2>3. CASE Step(w, req[w], "delete_entries") \/ Step(w, req[w], "get_entry")
    BY <1>7, <2>3, StoreShape DEF GetMeeting, InAddMember
  <2>. QED BY <1>7, <2>1, <2>2, <2>3 DEF GetMeeting
<1>8. CASE GetEntry(w)
  <2>. DEFINE row == entries[<<req[w].m, req[w].u>>]
              r == [req[w] EXCEPT !.erow = row]
  <2>1. <<req[w].m, req[w].u>> \in DOMAIN entries /\ Step(w, r, "update_entry")
    BY <1>8 DEF GetEntry
  <2>2. row \in EntryRow BY <2>1 DEF TablesOK, IsTable
  <2>3. r \in Request /\ r.seen = req[w].seen /\ Visible(r) = Visible(req[w])
        /\ r.g = req[w].g /\ r.u = req[w].u
    <3>. HIDE DEF row
    <3>. QED BY <2>2 DEF Request, Visible
  <2>. HIDE DEF r
  <2>. QED BY <1>8, <2>1, <2>3, StoreShape DEF GetEntry, InAddMember
<1>9. CASE DeleteEntries(w)
  <2>1. Step(w, Keeping({}, {req[w].m}, w), "delete_meeting")
    BY <1>9 DEF DeleteEntries, Keeping
  <2>2. RequestOK(req[w]) BY DEF RequestsOK
  <2>. QED BY <1>9, <2>1, <2>2, KeepingShape, StoreShape DEF DeleteEntries, InAddMember
<1>. QED BY <1>1, <1>2, <1>3, <1>4, <1>5, <1>6, <1>7, <1>8, <1>9
         DEF MeetingStep, CommitMeeting, UpdateMeeting, DeleteMeetingRows, UpdateEntry

-----------------------------------------------------------------------------
(***************************************************************************)
(* RInv is inductive.                                                      *)
(***************************************************************************)
\* What worker w does when it takes a step.
Acts(w) == Call(w) \/ Serve(w) \/ Abort(w)

\* The other requests stay, and w calls, goes on or ends.
LEMMA ActShape ==
  ASSUME TypeInv, NEW w \in Worker, Acts(w)
  PROVE  /\ \A v \in Worker \ {w} : req'[v] = req[v]
         /\ Calls(w) \/ Continues(w) \/ Ends(w)
<1>1. CASE Call(w)
  BY <1>1, CallShape, GroupCallOK, MeetingCallOK DEF Call, Moves
<1>2. CASE GroupStep(w)
  BY <1>2, GroupStepOK, GroupStepShape DEF Moves
<1>3. CASE MeetingStep(w)
  BY <1>3, MeetingStepOK, InsertMeetingOK, MeetingStepShape DEF Moves
<1>4. CASE StatementTimeout(w) \/ Abort(w)
  BY <1>4, DeathOK DEF TypeInv, Moves, Ends, Statuses, StatementTimeout, Abort
<1>. QED BY <1>1, <1>2, <1>3, <1>4 DEF Acts, Serve

\* A pair becomes a membership only by the COMMIT of the transaction that has
\* inserted it.
LEMMA MembersGrow ==
  ASSUME TypeInv, NEW w \in Worker, Acts(w), NEW p \in members' \ members
  PROVE  req[w].pc \in InAddMember /\ p = <<req[w].u, req[w].g>>
<1>1. CASE CommitMember(w)
  BY <1>1 DEF CommitMember, InAddMember
<1>2. CASE GroupStep(w) /\ ~CommitMember(w)
  BY <1>2 DEF GroupStep, CreateGroup, GetGroup, UpdateGroup, CollectGroup, DeleteDependents,
              DeleteGroupRows, Cascade, IsMember, PinSelect, PinInsert, PinReget, Unpin,
              GetUser, InsertMember, RemoveMember, db
<1>3. CASE MeetingStep(w)
  BY <1>3 DEF MeetingStep, OpenMeetings, SelectLatestWillDo, GetGroupOfMeeting, InsertMeeting,
              ReadMembers, CollectCarryOver, CommitMeeting, GetMeeting, UpdateMeeting,
              DeleteEntries, DeleteMeetingRows, Cascade, GetEntry, UpdateEntry, db
<1>4. CASE Call(w) \/ StatementTimeout(w) \/ Abort(w)
  BY <1>4, CallShape DEF Calls, StatementTimeout, Abort, db
<1>. QED BY <1>1, <1>2, <1>3, <1>4 DEF Acts, Serve

\* No meeting and no id is forgotten.
Kept ==
    /\ DOMAIN meetings \subseteq DOMAIN meetings' \cup deleted'
    /\ deleted \subseteq deleted'

\* Meetings leave the table for deleted, stay in their group and do not return.
LEMMA MeetingsStay ==
  ASSUME IInv, [Next]_vars, NEW m \in DOMAIN meetings \cup deleted
  PROVE  /\ m \in DOMAIN meetings' \cup deleted'
         /\ m \in DOMAIN meetings' =>
               m \in DOMAIN meetings /\ meetings'[m].group = meetings[m].group
<1>1. NoResurrection' BY IInvStep DEF IInv
<1>2. ASSUME NEW gs, NEW ms, NEW us, Cascade(gs, ms, us) PROVE Kept
  <2>1. /\ meetings' = Without(meetings, ms)
        /\ deleted' = deleted \cup (gs \cap DOMAIN name) \cup (ms \cap DOMAIN meetings)
                              \cup (us \cap DOMAIN role)
    BY <1>2 DEF Cascade
  <2>2. DOMAIN meetings' = DOMAIN meetings \ ms BY <2>1 DEF Without
  <2>. QED BY <2>1, <2>2 DEF Kept
<1>3. ASSUME NEW w \in Worker, GroupStep(w) PROVE Kept
  <2>1. CASE DeleteGroupRows(w) BY <1>2, <2>1 DEF DeleteGroupRows, db, Kept
  <2>. QED BY <1>3, <2>1 DEF GroupStep, CreateGroup, GetGroup, UpdateGroup, CollectGroup,
              DeleteDependents, IsMember, PinSelect, PinInsert, PinReget, Unpin, GetUser,
              InsertMember, RemoveMember, CommitMember, db, Kept
<1>4. ASSUME NEW w \in Worker, MeetingStep(w) PROVE Kept
  <2>1. CASE DeleteMeetingRows(w) BY <1>2, <2>1 DEF DeleteMeetingRows, db, Kept
  <2>2. CASE CommitMeeting(w)
    <3>1. UNCHANGED deleted /\ DOMAIN meetings \subseteq DOMAIN meetings'
      BY <2>2 DEF CommitMeeting
    <3>. QED BY <3>1 DEF Kept
  <2>3. CASE UpdateMeeting(w)
    <3>1. UNCHANGED deleted /\ DOMAIN meetings' = DOMAIN meetings
      BY <2>3 DEF UpdateMeeting
    <3>. QED BY <3>1 DEF Kept
  <2>. QED BY <1>4, <2>1, <2>2, <2>3 DEF MeetingStep, OpenMeetings, SelectLatestWillDo,
              GetGroupOfMeeting, InsertMeeting, ReadMembers, CollectCarryOver, GetMeeting,
              DeleteEntries, GetEntry, UpdateEntry, db, Kept
<1>5. ASSUME NEW w \in Worker, Call(w) \/ StatementTimeout(w) \/ Abort(w) PROVE Kept
  BY <1>5, CallShape DEF Calls, StatementTimeout, Abort, db, IInv, Kept
<1>6. ASSUME DeleteUser PROVE Kept
  <2>1. PICK u \in Deletable \cap DOMAIN role : Cascade({}, {}, {u}) BY <1>6 DEF DeleteUser
  <2>. QED BY <1>2, <2>1
<1>7. ASSUME SetRole \/ UNCHANGED vars PROVE Kept
  BY <1>7 DEF SetRole, vars, db, Kept
<1>8. Kept
  BY <1>3, <1>4, <1>5, <1>6, <1>7 DEF Next, Serve
<1>9. ASSUME m \in DOMAIN meetings' PROVE m \in DOMAIN meetings
  BY <1>1, <1>8, <1>9 DEF NoResurrection, Kept
<1>10. ASSUME m \in DOMAIN meetings, m \in DOMAIN meetings'
      PROVE  meetings'[m].group = meetings[m].group
  <2>1. CASE \E w \in Worker : UpdateMeeting(w)
    BY <1>10, <2>1, UpdateMeetingRow
  <2>2. ASSUME NEW w \in Worker, UpdateEntry(w) PROVE meetings' = meetings
    BY <2>2 DEF UpdateEntry
  <2>. QED BY <1>10, <2>1, <2>2, StepKinds, DeletesOnly
<1>. QED BY <1>8, <1>9, <1>10 DEF Kept

LEMMA RInvInit == Init => RInv
BY IInvInit DEF Init, RInv, PairsReserved, SeenInGroup, Idle, InAddMember

LEMMA PairsReservedStep ==
  ASSUME IInv, PairsReserved, [Next]_vars
  PROVE  PairsReserved'
<1>1. ASSUME NEW w \in Worker, Acts(w) PROVE PairsReserved'
  <2>1. /\ \A v \in Worker \ {w} : req'[v] = req[v]
        /\ Calls(w) \/ Continues(w) \/ Ends(w)
    BY <1>1, ActShape DEF IInv
  <2>2. \A p \in members' \ members : req[w].pc \in InAddMember /\ p = <<req[w].u, req[w].g>>
    BY <1>1, MembersGrow DEF IInv
  <2>3. CASE Continues(w)
    BY <2>1, <2>3 DEF Continues, PairsReserved, PairLocked, db
  <2>4. CASE Calls(w) \/ Ends(w)
    <3>1. req'[w].pc \notin InAddMember
      BY <2>4 DEF Calls, Ends, Answer, Idle, InAddMember, IInv, TypeInv, RequestsOK
    <3>. QED BY <2>1, <2>2, <3>1 DEF PairsReserved, PairLocked
  <2>. QED BY <2>1, <2>3, <2>4
<1>2. CASE SetRole \/ DeleteUser
  <2>1. req' = req /\ members' \subseteq members
    BY <1>2 DEF SetRole, DeleteUser, Cascade
  <2>. QED BY <2>1 DEF PairsReserved, PairLocked
<1>3. CASE UNCHANGED vars
  BY <1>3 DEF vars, db, PairsReserved, PairLocked
<1>. QED BY <1>1, <1>2, <1>3 DEF Next, Acts

LEMMA SeenInGroupStep ==
  ASSUME IInv, SeenInGroup, [Next]_vars
  PROVE  SeenInGroup'
<1>1. ASSUME NEW v \in Worker, req'[v].g = req[v].g, req'[v].seen = req[v].seen,
             NEW m \in req'[v].seen
      PROVE  /\ m \in DOMAIN meetings' \cup deleted'
             /\ m \in DOMAIN meetings' => meetings'[m].group = req'[v].g
  <2>1. m \in DOMAIN meetings \cup deleted BY <1>1 DEF SeenInGroup
  <2>. QED BY <1>1, <2>1, MeetingsStay DEF SeenInGroup
<1>2. ASSUME NEW w \in Worker, Acts(w),
             NEW m \in req'[w].seen
      PROVE  /\ m \in DOMAIN meetings' \cup deleted'
             /\ m \in DOMAIN meetings' => meetings'[m].group = req'[w].g
  <2>1. CASE Calls(w) \/ Ends(w)
    <3>1. req'[w].seen = {}
      BY <2>1 DEF Calls, Ends, Answer, Idle, IInv, TypeInv, RequestsOK
    <3>. QED BY <1>2, <3>1
  <2>2. CASE Continues(w)
    BY <1>1, <1>2, <2>2 DEF Continues, MeetingsOf, db
  <2>. QED BY <1>2, <2>1, <2>2, ActShape DEF IInv
<1>3. ASSUME NEW w \in Worker, Acts(w) PROVE SeenInGroup'
  <2>1. \A v \in Worker \ {w} : req'[v] = req[v] BY <1>3, ActShape DEF IInv
  <2>. QED BY <1>1, <1>2, <1>3, <2>1 DEF SeenInGroup
<1>4. CASE SetRole \/ DeleteUser \/ UNCHANGED vars
  <2>1. req' = req BY <1>4 DEF SetRole, DeleteUser, vars
  <2>. QED BY <1>1, <2>1 DEF SeenInGroup
<1>. QED BY <1>3, <1>4 DEF Next, Acts

LEMMA RInvStep == RInv /\ [Next]_vars => RInv'
BY IInvStep, PairsReservedStep, SeenInGroupStep DEF RInv

\* The inductive invariant behind Atomic holds in every state of every run.
THEOREM RefinementInvariant == Spec => []RInv
<1>. QED BY RInvInit, RInvStep, PTL DEF Spec

\* No two transactions that add a member have inserted the same pair, nor one
\* that is a membership: the unique index, kept by the wait for its lock.
THEOREM PairsStayReserved == Spec => []PairsReserved
<1>1. RInv => PairsReserved BY DEF RInv
<1>. QED BY <1>1, RefinementInvariant, PTL

-----------------------------------------------------------------------------
(***************************************************************************)
(* Every step of the service is a step of Standup, or a stutter.           *)
(***************************************************************************)
Stutter == UNCHANGED <<db, visible>>

\* What is seen of the request of a worker.
LEMMA ReplyOf ==
  ASSUME NEW w \in Worker
  PROVE  /\ visible[w].op = req[w].op /\ visible[w].by = req[w].by
         /\ visible[w].g = req[w].g /\ visible[w].u = req[w].u
         /\ req[w].op # "PostMeeting" => visible[w].m = req[w].m
         /\ visible[w].gname = req[w].gname /\ visible[w].mbody = req[w].mbody
         /\ visible[w].ebody = req[w].ebody
BY DEF visible, Visible

\* What a step of one worker does to what is seen of the requests.
LEMMA VisibleOf ==
  ASSUME NEW w \in Worker, \A v \in Worker \ {w} : req'[v] = req[v]
  PROVE  visible'[w] = Visible(req'[w]) /\ Overlapping!Only(w)
<1>1. visible' = [v \in Worker |-> Visible(req'[v])] BY DEF visible, Visible
<1>2. \A v \in Worker \ {w} : Visible(req'[v]) = Visible(req[v]) OBVIOUS
<1>. QED BY <1>1, <1>2 DEF visible, Overlapping!Only

LEMMA Answered1 ==
  ASSUME TypeInv, NEW w \in Worker, NEW code, Answer(w, code)
  PROVE  Overlapping!Done(w, code)
<1>1. req'[w] = [Idle EXCEPT !.status = code] /\ \A v \in Worker \ {w} : req'[v] = req[v]
  BY DEF Answer, TypeInv, RequestsOK
<1>2. Visible(req'[w]) = Overlapping!Free(code)
  BY <1>1 DEF Visible, Idle, Overlapping!Free
<1>. QED BY <1>1, <1>2, VisibleOf DEF Overlapping!Done

\* An answer that refuses, and has written nothing.
LEMMA Silent ==
  ASSUME TypeInv, NEW w \in Worker, NEW code, Answer(w, code), UNCHANGED db,
         code \in Overlapping!Refusals(req[w].op)
  PROVE  Overlapping!aNext
<1>1. Overlapping!Done(w, code) /\ code \in Overlapping!Refusals(visible[w].op)
  BY Answered1, ReplyOf
<1>2. UNCHANGED Overlapping!db BY DEF db, Overlapping!db
<1>. QED BY <1>1, <1>2 DEF Overlapping!aNext, Overlapping!Refuse

\* The exceptions, by the status they end with.
NotFound == {"GroupNotFound", "UserNotFound", "MemberNotFound", "MeetingNotFound",
             "EntryNotFound"}
Denied == {"PermissionDenied", "MeetingCompleted"}
Unforeseen == {"IntegrityError", "DatabaseError"}

Controllers ==
    {GroupsCollectionErrors, GroupsDetailErrors, GroupsPinErrors,
     GroupsMembersCollectionErrors, GroupsMembersDetailErrors, MeetingsCollectionErrors,
     MeetingsDetailErrors, EntriesDetailErrors}

LEMMA RaisedCode ==
  ASSUME NEW w \in Worker, NEW errors \in Controllers, NEW e, Raise(w, errors, e)
  PROVE  \E code : /\ Answer(w, code)
                   /\ e \in NotFound => code \in {404, 500}
                   /\ e \in Denied => code \in {403, 500}
                   /\ e = "MemberAlreadyExists" => code \in {409, 500}
                   /\ e \in Unforeseen => code = 500
<1>. DEFINE code == IF e \in DOMAIN errors THEN errors[e] ELSE 500
<1>1. /\ e \in NotFound \cap DOMAIN errors => errors[e] = 404
      /\ e \in Denied \cap DOMAIN errors => errors[e] = 403
      /\ e = "MemberAlreadyExists" /\ e \in DOMAIN errors => errors[e] = 409
      /\ e \in Unforeseen => e \notin DOMAIN errors
  BY DEF Controllers, NotFound, Denied, Unforeseen,
         GroupsCollectionErrors, GroupsDetailErrors, GroupsPinErrors,
         GroupsMembersCollectionErrors, GroupsMembersDetailErrors, MeetingsCollectionErrors,
         MeetingsDetailErrors, EntriesDetailErrors
<1>2. Answer(w, code) BY DEF Raise
<1>. QED BY <1>1, <1>2

\* What may be refused whom, and with what.
LEMMA RefusalsOf ==
  ASSUME NEW op \in GroupOps \cup MeetingOps
  PROVE  /\ 500 \in Overlapping!Refusals(op)
         /\ op # "PostGroup" => 404 \in Overlapping!Refusals(op)
         /\ op \in {"PutPin", "DeletePin", "PatchEntry"} => 403 \in Overlapping!Refusals(op)
         /\ op = "PostMember" => 409 \in Overlapping!Refusals(op)
BY DEF Overlapping!Refusals, GroupOps, MeetingOps

LEMMA Refused ==
  ASSUME TypeInv, NEW w \in Worker, NEW errors \in Controllers, NEW e, Raise(w, errors, e),
         UNCHANGED db, req[w].op \in GroupOps \cup MeetingOps,
         \/ e \in Unforeseen
         \/ e \in NotFound /\ req[w].op # "PostGroup"
         \/ e \in Denied /\ req[w].op \in {"PutPin", "DeletePin", "PatchEntry"}
         \/ e = "MemberAlreadyExists" /\ req[w].op = "PostMember"
  PROVE  Overlapping!aNext
<1>1. PICK code : /\ Answer(w, code)
                  /\ e \in NotFound => code \in {404, 500}
                  /\ e \in Denied => code \in {403, 500}
                  /\ e = "MemberAlreadyExists" => code \in {409, 500}
                  /\ e \in Unforeseen => code = 500
  BY RaisedCode
<1>2. code \in Overlapping!Refusals(req[w].op) BY <1>1, RefusalsOf
<1>. QED BY <1>1, <1>2, Silent

\* A call begins a request, or refuses it at once.
LEMMA CallRefines ==
  ASSUME TypeInv, NEW w \in Worker, Call(w)
  PROVE  Overlapping!aNext
<1>1. Calls(w) /\ Moves(w)
  BY CallShape, GroupCallOK, MeetingCallOK DEF Call
<1>2. UNCHANGED db /\ UNCHANGED Overlapping!db BY <1>1 DEF Calls, db, Overlapping!db
<1>3. CASE Answer(w, 403)
  <2>1. 403 \in Overlapping!Refusals(req[w].op)
    BY <1>1 DEF Calls, Overlapping!Refusals
  <2>. QED BY <1>2, <1>3, <2>1, Silent
<1>4. CASE req'[w].op # "none" /\ req'[w].status = 0
  <2>. DEFINE q == req'[w]
  <2>1. RequestOK(q) /\ q \in Request BY <1>1 DEF Moves, RequestsOK, RequestOK
  <2>2. q.op \in GroupOps \cup MeetingOps /\ q.by \in User
    BY <1>4, <2>1 DEF RequestOK, ArgumentsOK, Request
  <2>3. Visible(q) \in Overlapping!Asked
    <3>1. q.op \in Overlapping!Ops
      BY <2>2 DEF GroupOps, MeetingOps, Overlapping!Ops
    <3>2. /\ q.g \in Group \cup {None} /\ q.m \in Meeting \cup {None}
          /\ q.u \in User \cup {None} /\ q.gname \in Name \cup {None}
          /\ q.mbody \in MeetingBody \cup {None} /\ q.ebody \in EntryBody \cup {None}
      BY <2>1 DEF Request
    <3>3. q.status = 0 /\ q.by \in User BY <1>4, <2>2
    <3>. HIDE DEF q
    <3>. QED BY <3>1, <3>2, <3>3 DEF Visible, Overlapping!Asked, MeetingBody, EntryBody,
                                  Overlapping!MeetingBody, Overlapping!EntryBody
  <2>4. visible'[w] \in Overlapping!Asked /\ Overlapping!Only(w)
    BY <1>1, <2>3, VisibleOf DEF Moves
  <2>5. visible[w].op = "none" BY <1>1, ReplyOf DEF Calls
  <2>. QED BY <1>2, <2>4, <2>5 DEF Overlapping!aNext, Overlapping!Begin
<1>. QED BY <1>1, <1>3, <1>4 DEF Calls

LEMMA ContinueRefines ==
  ASSUME NEW w \in Worker, Continues(w), \A v \in Worker \ {w} : req'[v] = req[v]
  PROVE  Stutter
<1>1. \A v \in Worker : Visible(req'[v]) = Visible(req[v]) BY DEF Continues
<1>2. visible' = [v \in Worker |-> Visible(req'[v])] BY DEF visible, Visible
<1>3. visible' = visible BY <1>1, <1>2 DEF visible
<1>. QED BY <1>3 DEF Continues, Stutter

\* What the worker's request holds, for the lemmas that follow.
LEMMA Holds ==
  ASSUME RInv, NEW w \in Worker
  PROVE  /\ TypeInv /\ TablesOK /\ RequestOK(req[w]) /\ ArgumentsOK(req[w])
         /\ LoadedOK(req[w], req[w].pc) /\ req[w] \in Request
BY DEF RInv, IInv, TypeInv, RequestsOK, RequestOK

\* A step of the kinds that follow is a promised effect of w.
LEMMA EffectIsNext ==
  ASSUME NEW w \in Worker, Overlapping!Effect(w)
  PROVE  Overlapping!aNext
BY DEF Overlapping!aNext

LEMMA CreateGroupRefines ==
  ASSUME RInv, NEW w \in Worker, CreateGroup(w)
  PROVE  Overlapping!aNext
<1>1. req[w].op = "PostGroup" BY Holds, OpOfPc DEF CreateGroup
<1>2. Overlapping!Done(w, 201) BY Holds, Answered1 DEF CreateGroup
<1>3. Overlapping!NewGroup(req[w].gname) BY DEF CreateGroup, Overlapping!NewGroup
<1>. QED BY <1>1, <1>2, <1>3, ReplyOf, EffectIsNext DEF Overlapping!Effect

LEMMA UpdateGroupRefines ==
  ASSUME RInv, NEW w \in Worker, UpdateGroup(w)
  PROVE  Overlapping!aNext
<1>1. req[w].gname \in Name /\ req[w].gname # None
  BY Holds, DataAssumption DEF LoadedOK, UpdateGroup
<1>0. req[w].op = "PatchGroup" BY Holds, OpOfPc DEF UpdateGroup
<1>2. CASE req[w].g \in DOMAIN name /\ Answer(w, 200)
           /\ name' = [name EXCEPT ![req[w].g] = req[w].gname]
  <2>1. Overlapping!Done(w, 200) BY <1>2, Holds, Answered1
  <2>2. Overlapping!RenameGroup(req[w].g, req[w].gname)
    BY <1>1, <1>2 DEF UpdateGroup, Overlapping!RenameGroup
  <2>. QED BY <1>0, <2>1, <2>2, ReplyOf, EffectIsNext DEF Overlapping!Effect
<1>3. CASE Raise(w, GroupsDetailErrors, "DatabaseError") /\ UNCHANGED name
  BY <1>0, <1>3, Holds, Refused DEF UpdateGroup, db, Controllers, Unforeseen, GroupOps
<1>. QED BY <1>2, <1>3 DEF UpdateGroup

\* Deleting nothing from a table leaves it.
LEMMA WithoutNothing ==
  ASSUME TablesOK
  PROVE  Without(role, {}) = role /\ Without(name, {}) = name
BY DEF Without, TablesOK, IsTable

LEMMA DeleteGroupRefines ==
  ASSUME RInv, NEW w \in Worker, DeleteGroupRows(w)
  PROVE  Overlapping!aNext
<1>. DEFINE g == req[w].g
            ms == MeetingsOf(g)
<1>0. req[w].op = "DeleteGroup" BY Holds, OpOfPc DEF DeleteGroupRows
<1>1. g \in Group BY <1>0, Holds DEF ArgumentsOK, GetGroupOps, GroupOps
<1>2. CASE ms \subseteq req[w].seen /\ Cascade({g}, req[w].seen, {}) /\ Answer(w, 204)
  <2>1. req[w].seen \cap DOMAIN meetings = ms
    BY <1>2 DEF RInv, SeenInGroup, MeetingsOf
  <2>2. Overlapping!MeetingsOf(g) = ms BY DEF MeetingsOf, Overlapping!MeetingsOf
  <2>3. /\ entries' = Without(entries, {k \in DOMAIN entries : k[1] \in req[w].seen \/ k[2] \in {}})
        /\ meetings' = Without(meetings, req[w].seen)
        /\ members' = {p \in members : p[1] \notin {} /\ p[2] \notin {g}}
        /\ pins' = {p \in pins : p[1] \notin {} /\ p[2] \notin {g}}
        /\ name' = Without(name, {g})
        /\ role' = Without(role, {})
        /\ deleted' = deleted \cup ({g} \cap DOMAIN name) \cup (req[w].seen \cap DOMAIN meetings)
                              \cup ({} \cap DOMAIN role)
        /\ clock' = clock
    BY <1>2 DEF Cascade
  <2>. HIDE DEF g, ms
  <2>4. {k \in DOMAIN entries : k[1] \in req[w].seen \/ k[2] \in {}} = EntriesOf(ms)
    BY <2>1 DEF EntriesOf, RInv, IInv, RefIntegrity
  <2>5. entries' = Overlapping!Without(entries, Overlapping!EntriesOf(ms))
    BY <2>3, <2>4 DEF Without, Overlapping!Without, EntriesOf, Overlapping!EntriesOf
  <2>6. meetings' = Overlapping!Without(meetings, ms)
    <3>1. DOMAIN meetings \ req[w].seen = DOMAIN meetings \ ms BY <2>1
    <3>. QED BY <2>3, <3>1 DEF Without, Overlapping!Without
  <2>7. name' = Overlapping!Without(name, {g}) BY <2>3 DEF Without, Overlapping!Without
  <2>8. role' = role BY <2>3, Holds, WithoutNothing
  <2>9. members' = {p \in members : p[2] # g} /\ pins' = {p \in pins : p[2] # g} BY <2>3
  <2>10. deleted' = deleted \cup ms \cup ({g} \cap DOMAIN name) BY <2>1, <2>3
  <2>11. Overlapping!Done(w, 204) BY <1>2, Holds, Answered1
  <2>12. Overlapping!DropGroup(g)
    BY <1>1, <2>2, <2>3, <2>5, <2>6, <2>7, <2>8, <2>9, <2>10 DEF Overlapping!DropGroup
  <2>13. visible[w].g = g BY ReplyOf DEF g
  <2>. QED BY <1>0, <2>11, <2>12, <2>13, ReplyOf, EffectIsNext DEF Overlapping!Effect
<1>3. CASE Raise(w, GroupsDetailErrors, "IntegrityError") /\ UNCHANGED db
  BY <1>0, <1>3, Holds, Refused DEF Controllers, Unforeseen, GroupOps
<1>. QED BY <1>2, <1>3 DEF DeleteGroupRows

\* Pinning what is pinned already changes nothing and is a pin all the same.
LEMMA PinRefines ==
  ASSUME RInv, NEW w \in Worker, PinSelect(w) \/ PinInsert(w) \/ PinReget(w), Answer(w, 204)
  PROVE  Overlapping!aNext
<1>0. req[w].op = "PutPin" BY Holds, OpOfPc DEF PinSelect, PinInsert, PinReget
<1>1. /\ req[w].by \in DOMAIN role /\ req[w].g \in DOMAIN name
      /\ pins' = pins \cup {<<req[w].by, req[w].g>>}
      /\ UNCHANGED <<role, name, members, meetings, entries, clock, deleted>>
  <2>1. CASE <<req[w].by, req[w].g>> \in pins /\ UNCHANGED db
    BY <2>1 DEF RInv, IInv, RefIntegrity, db
  <2>2. ~Answer(w, 500)
    BY Holds DEF Answer, TypeInv, RequestsOK, Idle
  <2>3. ~Raise(w, GroupsPinErrors, "IntegrityError")
    BY <2>2 DEF Raise, GroupsPinErrors
  <2>4. ~\E pc : Step(w, req[w], pc)
    <3>2. req'[w].op = "none" BY Holds DEF Answer, TypeInv, RequestsOK, Idle
    <3>3. ASSUME NEW pc, Step(w, req[w], pc) PROVE req'[w].op = req[w].op
      BY <3>3, Holds DEF Step, TypeInv, RequestsOK, Request
    <3>. QED BY <1>0, <3>2, <3>3
  <2>. QED BY <2>1, <2>3, <2>4 DEF PinSelect, PinInsert, PinReget, db
<1>2. Overlapping!Done(w, 204) BY Holds, Answered1
<1>3. Overlapping!Pin(req[w].by, req[w].g) BY <1>1 DEF Overlapping!Pin
<1>. QED BY <1>0, <1>2, <1>3, ReplyOf, EffectIsNext DEF Overlapping!Effect

LEMMA UnpinRefines ==
  ASSUME RInv, NEW w \in Worker, Unpin(w)
  PROVE  Overlapping!aNext
<1>1. req[w].op = "DeletePin"
  BY Holds DEF Unpin, LoadedOK, PcsOf, InAddMember, InCreateMeeting, Request, GroupOps,
               MeetingOps
<1>2. Overlapping!Done(w, 204) BY Holds, Answered1 DEF Unpin
<1>3. Overlapping!Unpinned(req[w].by, req[w].g) BY DEF Unpin, Overlapping!Unpinned
<1>. QED BY <1>1, <1>2, <1>3, ReplyOf, EffectIsNext DEF Overlapping!Effect

LEMMA JoinIntro ==
  ASSUME NEW u \in DOMAIN role, NEW g \in DOMAIN name, NEW t \in Text,
         NEW ms \in SUBSET Overlapping!MeetingsOf(g), <<u, g>> \notin members,
         members' = members \cup {<<u, g>>},
         entries' = Overlapping!InsertMissing([k \in ms \X {u} |-> Overlapping!NewEntry(t)]),
         UNCHANGED <<role, name, pins, meetings, clock, deleted>>
  PROVE  Overlapping!Join(u, g)
<1>. DEFINE new == [k \in ms \X {u} |-> Overlapping!NewEntry(t)]
<1>1. entries' = Overlapping!InsertMissing(new) OBVIOUS
<1>2. \E s \in SUBSET Overlapping!MeetingsOf(g) :
         entries' = Overlapping!InsertMissing([k \in s \X {u} |-> Overlapping!NewEntry(t)])
  BY <1>1
<1>. QED BY <1>2 DEF Overlapping!Join

LEMMA CommitMemberRefines ==
  ASSUME RInv, NEW w \in Worker, CommitMember(w)
  PROVE  Overlapping!aNext
<1>. DEFINE r == req[w]
            ms == IF DOMAIN r.carry = {} THEN {} ELSE r.seen
            t == IF DOMAIN r.carry = {} THEN Blank ELSE r.carry[r.u]
            new == NewEntries(r.seen, r.carry)
            refers == r.u \in DOMAIN role /\ r.g \in DOMAIN name /\ r.seen \subseteq DOMAIN meetings
<1>0. r.op = "PostMember" BY Holds, OpOfPc DEF CommitMember, InAddMember
<1>1. /\ r.carry \in PartialFn(User, Text) /\ DOMAIN r.carry \subseteq {r.u}
      /\ <<r.u, r.g>> \notin members
      /\ \A m \in r.seen : m \in DOMAIN meetings => meetings[m].group = r.g
  <2>2. r.pc \in InAddMember BY DEF CommitMember, InAddMember
  <2>. QED BY <1>0, <2>2, Holds DEF ArgumentsOK, Request, RInv, PairsReserved, SeenInGroup
<1>2. CASE refers /\ members' = members \cup {<<r.u, r.g>>} /\ entries' = InsertMissing(new)
           /\ Answer(w, 201)
  <2>1. t \in Text BY <1>1, DataAssumption DEF PartialFn
  <2>2. ms \in SUBSET Overlapping!MeetingsOf(r.g)
    BY <1>1, <1>2 DEF Overlapping!MeetingsOf
  <2>3. new = [k \in ms \X {r.u} |-> Overlapping!NewEntry(t)]
    <3>1. CASE DOMAIN r.carry = {}
      <4>1. r.seen \X DOMAIN r.carry = ms \X {r.u} BY <3>1
      <4>. QED BY <3>1, <4>1 DEF NewEntries
    <3>2. CASE DOMAIN r.carry = {r.u}
      <4>1. \A k \in ms \X {r.u} : r.carry[k[2]] = t BY <3>2
      <4>2. r.seen \X DOMAIN r.carry = ms \X {r.u} BY <3>2
      <4>. HIDE DEF ms, t
      <4>. QED BY <4>1, <4>2 DEF NewEntries, NewEntry, Overlapping!NewEntry
    <3>. QED BY <1>1, <3>1, <3>2
  <2>4. entries' = Overlapping!InsertMissing([k \in ms \X {r.u} |-> Overlapping!NewEntry(t)])
    BY <1>2, <2>3 DEF InsertMissing, Overlapping!InsertMissing
  <2>5. Overlapping!Done(w, 201) BY <1>2, Holds, Answered1
  <2>. HIDE DEF ms, t, new
  <2>6. Overlapping!Join(r.u, r.g)
    BY <1>1, <1>2, <2>1, <2>2, <2>4, JoinIntro DEF CommitMember
  <2>. QED BY <1>0, <2>5, <2>6, ReplyOf, EffectIsNext DEF Overlapping!Effect
<1>3. CASE Raise(w, GroupsMembersCollectionErrors, "MemberAlreadyExists")
           /\ UNCHANGED <<members, entries>>
  BY <1>0, <1>3, Holds, Refused DEF CommitMember, db, Controllers, GroupOps
<1>. QED BY <1>2, <1>3 DEF CommitMember

LEMMA RemoveMemberRefines ==
  ASSUME RInv, NEW w \in Worker, RemoveMember(w)
  PROVE  Overlapping!aNext
<1>0. req[w].op = "DeleteMember"
  BY Holds DEF RemoveMember, LoadedOK, PcsOf, InAddMember, InCreateMeeting, Request, GroupOps,
               MeetingOps
<1>1. CASE /\ <<req[w].u, req[w].g>> \in members /\ Answer(w, 204)
           /\ members' = members \ {<<req[w].u, req[w].g>>}
  <2>1. Overlapping!Done(w, 204) BY <1>1, Holds, Answered1
  <2>2. Overlapping!Leave(req[w].u, req[w].g)
    BY <1>1 DEF RemoveMember, Overlapping!Leave
  <2>. QED BY <1>0, <2>1, <2>2, ReplyOf, EffectIsNext DEF Overlapping!Effect
<1>2. CASE Raise(w, GroupsMembersDetailErrors, "MemberNotFound") /\ UNCHANGED members
  BY <1>0, <1>2, Holds, Refused DEF RemoveMember, db, Controllers, NotFound, GroupOps
<1>. QED BY <1>1, <1>2 DEF RemoveMember

LEMMA ConveneIntro ==
  ASSUME NEW m \in Meeting \ (DOMAIN meetings \cup deleted),
         NEW g \in DOMAIN name, NEW d, NEW us \in SUBSET DOMAIN role,
         NEW promise \in [us -> Text],
         meetings' = [k \in DOMAIN meetings \cup {m} |->
                         IF k = m THEN [group |-> g, date |-> d, completed |-> FALSE]
                                  ELSE meetings[k]],
         entries' = [k \in DOMAIN entries \cup ({m} \X us) |->
                        IF k[1] = m THEN Overlapping!NewEntry(promise[k[2]]) ELSE entries[k]],
         UNCHANGED <<role, name, members, pins, clock, deleted>>
  PROVE  Overlapping!Convene(g, d)
<1>. DEFINE P(x, s, p) ==
              /\ FALSE => /\ s = Overlapping!Regulars(g)
                          /\ \A u \in s : Overlapping!IsPlan(p[u], g, u)
              /\ meetings' = [k \in DOMAIN meetings \cup {x} |->
                                IF k = x THEN [group |-> g, date |-> d, completed |-> FALSE]
                                         ELSE meetings[k]]
              /\ entries' = [k \in DOMAIN entries \cup ({x} \X s) |->
                                IF k[1] = x THEN Overlapping!NewEntry(p[k[2]]) ELSE entries[k]]
<1>1. P(m, us, promise) OBVIOUS
<1>2. \E x \in Meeting \ (DOMAIN meetings \cup deleted), s \in SUBSET DOMAIN role :
      \E p \in [s -> Text] : P(x, s, p)
  <2>. HIDE DEF P
  <2>1. WITNESS m \in Meeting \ (DOMAIN meetings \cup deleted), us \in SUBSET DOMAIN role
  <2>2. WITNESS promise \in [us -> Text]
  <2>. QED BY <1>1
<1>. QED BY <1>2 DEF Overlapping!Convene

LEMMA CommitMeetingRefines ==
  ASSUME RInv, NEW w \in Worker, CommitMeeting(w)
  PROVE  Overlapping!aNext
<1>. DEFINE r == req[w]
            m == r.m
            us == DOMAIN r.carry
            row == [group |-> r.g, date |-> r.mbody.date, completed |-> FALSE]
            new == NewEntries({m}, r.carry)
<1>0. r.op = "PostMeeting" /\ r.pc \in InCreateMeeting
  BY Holds, OpOfPc DEF CommitMeeting, InCreateMeeting
<1>1. /\ m \in Meeting \ (DOMAIN meetings \cup deleted)
      /\ r.carry \in [us -> Text]
      /\ \A k \in DOMAIN entries : k[1] # m
  <2>. QED BY <1>0, Holds DEF ArgumentsOK, LoadedOK, Request, PartialFn, RInv, IInv, DrawnIdsFresh,
                              RefIntegrity
<1>2. CASE /\ r.g \in DOMAIN name /\ us \subseteq DOMAIN role /\ Answer(w, 201)
           /\ meetings' = [k \in DOMAIN meetings \cup {m} |-> IF k = m THEN row ELSE meetings[k]]
           /\ entries' = InsertMissing(new)
  <2>1. Overlapping!Done(w, 201) BY <1>2, Holds, Answered1
  <2>2. entries' = [k \in DOMAIN entries \cup ({m} \X us) |->
                      IF k[1] = m THEN Overlapping!NewEntry(r.carry[k[2]]) ELSE entries[k]]
    <3>1. DOMAIN new = {m} \X us /\ \A k \in DOMAIN new : new[k] = Overlapping!NewEntry(r.carry[k[2]])
      BY DEF NewEntries, NewEntry, Overlapping!NewEntry
    <3>2. \A k \in {m} \X us : k[1] = m OBVIOUS
    <3>. HIDE DEF new, m, us
    <3>. QED BY <1>1, <1>2, <3>1, <3>2 DEF InsertMissing
  <2>3. UNCHANGED <<role, name, members, pins, clock, deleted>> BY DEF CommitMeeting
  <2>4. Overlapping!Convene(r.g, r.mbody.date)
    <3>. DEFINE g == r.g
                d == r.mbody.date
                f == r.carry
    <3>1. /\ meetings' = [k \in DOMAIN meetings \cup {m} |->
                             IF k = m THEN [group |-> g, date |-> d, completed |-> FALSE]
                                      ELSE meetings[k]]
          /\ entries' = [k \in DOMAIN entries \cup ({m} \X us) |->
                            IF k[1] = m THEN Overlapping!NewEntry(f[k[2]]) ELSE entries[k]]
      BY <1>2, <2>2
    <3>2. g \in DOMAIN name /\ us \in SUBSET DOMAIN role /\ f \in [us -> Text]
          /\ m \in Meeting \ (DOMAIN meetings \cup deleted)
      BY <1>1, <1>2
    <3>. HIDE DEF m, us, f
    <3>3. ASSUME NEW h, h = g, NEW e, e = d PROVE Overlapping!Convene(h, e)
      <4>. HIDE DEF g, d
      <4>. QED BY <2>3, <3>1, <3>2, <3>3, ConveneIntro
    <3>. QED BY <3>3
  <2>. QED BY <1>0, <2>1, <2>4, ReplyOf, EffectIsNext DEF Overlapping!Effect
<1>3. CASE Raise(w, MeetingsCollectionErrors, "IntegrityError") /\ UNCHANGED <<meetings, entries>>
  BY <1>0, <1>3, Holds, Refused DEF CommitMeeting, db, Controllers, Unforeseen, MeetingOps
<1>. QED BY <1>2, <1>3 DEF CommitMeeting

LEMMA UpdateMeetingRefines ==
  ASSUME RInv, NEW w \in Worker, UpdateMeeting(w)
  PROVE  Overlapping!aNext
<1>. DEFINE r == req[w]
            fields == {f \in {"date", "completed"} : r.mbody[f] # None}
            obj == [f \in DOMAIN r.mrow |-> IF f \in fields THEN r.mbody[f] ELSE r.mrow[f]]
<1>0. r.op = "PatchMeeting" BY Holds, OpOfPc DEF UpdateMeeting
<1>1. CASE /\ r.m \in DOMAIN meetings /\ Answer(w, 200)
           /\ meetings' = [meetings EXCEPT ![r.m] = SaveFields(@, obj, fields)]
  <2>. DEFINE old == meetings[r.m]
              d == IF r.mbody.date = None THEN old.date ELSE r.mbody.date
              c == IF r.mbody.completed = None THEN old.completed ELSE r.mbody.completed
              row == SaveFields(old, obj, fields)
  <2>1. old \in MeetingRow BY <1>1, Holds DEF TablesOK, IsTable
  <2>2. r.mrow \in MeetingRow /\ r.mbody \in MeetingBody
    BY Holds, OpOfPc DEF UpdateMeeting, LoadedOK, ArgumentsOK
  <2>3. d \in Date /\ c \in BOOLEAN
    BY <2>1, <2>2 DEF MeetingRow, MeetingBody
  <2>4. row = [old EXCEPT !.date = d, !.completed = c]
    <3>1. DOMAIN old = {"group", "date", "completed"} /\ DOMAIN r.mrow = DOMAIN old
      BY <2>1, <2>2 DEF MeetingRow
    <3>2. \A f \in fields : obj[f] = r.mbody[f] BY <3>1
    <3>3. /\ "group" \notin fields
          /\ "date" \in fields <=> r.mbody.date # None
          /\ "completed" \in fields <=> r.mbody.completed # None
      OBVIOUS
    <3>. HIDE DEF fields, obj
    <3>4. DOMAIN row = DOMAIN old
          /\ \A f \in DOMAIN old : row[f] = IF f \in fields THEN r.mbody[f] ELSE old[f]
      BY <3>2 DEF SaveFields
    <3>5. row.group = old.group /\ row.date = d /\ row.completed = c
      BY <3>1, <3>3, <3>4
    <3>6. row = [f \in DOMAIN old |-> row[f]] BY DEF SaveFields
    <3>. HIDE DEF row, old, d, c
    <3>. QED BY <2>1, <3>1, <3>4, <3>5, <3>6 DEF MeetingRow
  <2>5. meetings' = [meetings EXCEPT ![r.m].date = d, ![r.m].completed = c]
    <3>1. meetings' = [meetings EXCEPT ![r.m] = row] BY <1>1
    <3>. HIDE DEF row, d, c, fields
    <3>. QED BY <1>1, <2>1, <2>4, <3>1 DEF MeetingRow
  <2>6. Overlapping!Done(w, 200) BY <1>1, Holds, Answered1
  <2>7. Overlapping!Reschedule(r.m, r.mbody)
    <3>. HIDE DEF row, fields, obj
    <3>. QED BY <1>1, <2>5 DEF UpdateMeeting, Overlapping!Reschedule
  <2>. QED BY <1>0, <2>6, <2>7, ReplyOf, EffectIsNext DEF Overlapping!Effect
<1>2. CASE Raise(w, MeetingsDetailErrors, "DatabaseError") /\ UNCHANGED meetings
  BY <1>0, <1>2, Holds, Refused DEF UpdateMeeting, db, Controllers, Unforeseen, MeetingOps
<1>. QED BY <1>1, <1>2 DEF UpdateMeeting

LEMMA DeleteMeetingRefines ==
  ASSUME RInv, NEW w \in Worker, DeleteMeetingRows(w)
  PROVE  Overlapping!aNext
<1>. DEFINE m == req[w].m
<1>0. req[w].op = "DeleteMeeting" BY Holds, OpOfPc DEF DeleteMeetingRows
<1>1. CASE Cascade({}, {m}, {}) /\ Answer(w, 204)
  <2>. HIDE DEF m
  <2>1. /\ entries' = Without(entries, {k \in DOMAIN entries : k[1] \in {m} \/ k[2] \in {}})
        /\ meetings' = Without(meetings, {m})
        /\ members' = {p \in members : p[1] \notin {} /\ p[2] \notin {}}
        /\ pins' = {p \in pins : p[1] \notin {} /\ p[2] \notin {}}
        /\ name' = Without(name, {})
        /\ role' = Without(role, {})
        /\ deleted' = deleted \cup ({} \cap DOMAIN name) \cup ({m} \cap DOMAIN meetings)
                              \cup ({} \cap DOMAIN role)
        /\ clock' = clock
    BY <1>1 DEF Cascade
  <2>2. {k \in DOMAIN entries : k[1] \in {m} \/ k[2] \in {}} = EntriesOf({m})
    BY DEF EntriesOf
  <2>3. /\ entries' = Overlapping!Without(entries, Overlapping!EntriesOf({m}))
        /\ meetings' = Overlapping!Without(meetings, {m})
    BY <2>1, <2>2 DEF Without, Overlapping!Without, EntriesOf, Overlapping!EntriesOf
  <2>4. role' = role /\ name' = name BY <2>1, Holds, WithoutNothing
  <2>5. members' = members /\ pins' = pins BY <2>1
  <2>6. deleted' = deleted \cup ({m} \cap DOMAIN meetings) BY <2>1
  <2>7. Overlapping!Done(w, 204) BY <1>1, Holds, Answered1
  <2>8. Overlapping!DropMeeting(m)
    BY <2>1, <2>3, <2>4, <2>5, <2>6 DEF Overlapping!DropMeeting
  <2>9. visible[w].m = m BY <1>0, ReplyOf DEF m
  <2>. QED BY <1>0, <2>7, <2>8, <2>9, ReplyOf, EffectIsNext DEF Overlapping!Effect
<1>2. CASE Raise(w, MeetingsDetailErrors, "IntegrityError") /\ UNCHANGED db
  BY <1>0, <1>2, Holds, Refused DEF Controllers, Unforeseen, MeetingOps
<1>. QED BY <1>1, <1>2 DEF DeleteMeetingRows

LEMMA UpdateEntryRefines ==
  ASSUME RInv, NEW w \in Worker, UpdateEntry(w)
  PROVE  Overlapping!aNext
<1>. DEFINE r == req[w]
            k == <<r.m, r.u>>
            body == r.ebody
            fields == {f \in Field : body[f] # None}
            obj == [f \in Field |-> IF f \in fields THEN body[f] ELSE r.erow.text[f]]
            row == [text |-> SaveFields(entries[k].text, obj, fields), upd |-> clock + 1]
<1>0. /\ r.op = "PatchEntry"
      /\ \E f \in Field : body[f] # None
  BY Holds, OpOfPc DEF UpdateEntry, LoadedOK
<1>1. CASE k \in DOMAIN entries /\ Answer(w, 200) /\ clock' = clock + 1
           /\ entries' = [entries EXCEPT ![k] =
                            [text |-> SaveFields(@.text, obj, fields), upd |-> clock + 1]]
  <2>. DEFINE old == entries[k].text
              text == [f \in Field |-> IF body[f] = None THEN old[f] ELSE body[f]]
  <2>2. old \in [Field -> Text] BY <1>1, Holds DEF TablesOK, IsTable, EntryRow
  <2>3. SaveFields(old, obj, fields) = text
    <3>1. DOMAIN old = Field BY <2>2
    <3>. HIDE DEF old
    <3>. QED BY <3>1 DEF SaveFields
  <2>4. entries' = [entries EXCEPT ![k] = [text |-> text, upd |-> clock + 1]]
    <3>1. entries' = [entries EXCEPT ![k] = row] BY <1>1
    <3>. HIDE DEF text, k
    <3>. QED BY <2>3, <3>1
  <2>5. entries' = [entries EXCEPT ![k] =
              [text |-> [f \in Field |-> IF body[f] = None THEN @.text[f] ELSE body[f]],
               upd |-> clock + 1]]
    BY <2>4
  <2>6. Overlapping!Done(w, 200) BY <1>1, Holds, Answered1
  <2>7. Overlapping!Write(k, body)
    <3>. HIDE DEF k, body, text, row, fields, obj
    <3>. QED BY <1>0, <1>1, <2>5 DEF UpdateEntry, Overlapping!Write
  <2>8. visible[w].m = r.m /\ visible[w].u = r.u /\ visible[w].ebody = body
    BY <1>0, ReplyOf
  <2>. QED BY <1>0, <2>6, <2>7, <2>8, ReplyOf, EffectIsNext DEF Overlapping!Effect
<1>2. CASE Raise(w, EntriesDetailErrors, "DatabaseError") /\ UNCHANGED <<entries, clock>>
  BY <1>0, <1>2, Holds, Refused DEF UpdateEntry, db, Controllers, Unforeseen, MeetingOps
<1>. QED BY <1>1, <1>2 DEF UpdateEntry

\* A statement that stores a request does not end it.
LEMMA StepGoesOn ==
  ASSUME TypeInv, NEW w \in Worker, NEW r, NEW pc, Step(w, r, pc),
         r.op = req[w].op, "op" \in DOMAIN r, req[w].op # "none"
  PROVE  ~Ends(w)
<1>1. req'[w].op = req[w].op BY DEF Step, TypeInv, RequestsOK
<1>2. Ends(w) => req'[w].op = "none" BY DEF Ends, Answer, TypeInv, RequestsOK, Idle
<1>. QED BY <1>1, <1>2

\* The request of a worker that executes a statement is of some kind.
LEMMA Serving ==
  ASSUME TypeInv, NEW w \in Worker, req[w].pc # "idle"
  PROVE  req[w].op # "none" /\ "op" \in DOMAIN req[w]
BY DEF TypeInv, RequestsOK, RequestOK, LoadedOK, PcsOf, Request

\* The statements of the groups app that only read.
LEMMA GroupReadRefines ==
  ASSUME RInv, NEW w \in Worker, Ends(w),
         \/ GetGroup(w) \/ CollectGroup(w) \/ DeleteDependents(w) \/ IsMember(w) \/ GetUser(w)
         \/ InsertMember(w)
  PROVE  Overlapping!aNext
<1>. USE Holds
<1>1. UNCHANGED db
  BY DEF GetGroup, CollectGroup, DeleteDependents, IsMember, GetUser, InsertMember
<1>2. req[w].op # "none" /\ "op" \in DOMAIN req[w]
  BY Serving DEF GetGroup, CollectGroup, DeleteDependents, IsMember, GetUser, InsertMember
<1>3. \A pc : ~Step(w, req[w], pc) BY <1>2, StepGoesOn
<1>4. CASE GetGroup(w)
  <2>1. req[w].op \in GetGroupOps BY <1>4 DEF GetGroup
  <2>2. GroupErrors(req[w].op) \in Controllers
    BY <2>1 DEF GroupErrors, GetGroupOps, GroupOps, Controllers
  <2>3. CASE Raise(w, GroupErrors(req[w].op), "GroupNotFound")
    BY <1>1, <2>1, <2>2, <2>3, Refused DEF NotFound, GetGroupOps
  <2>4. CASE /\ req[w].g \in DOMAIN name /\ req[w].op = "PatchGroup" /\ req[w].gname = None
             /\ Answer(w, 200)
    <3>1. Overlapping!Done(w, 200) BY <2>4, Answered1
    <3>2. Overlapping!RenameGroup(req[w].g, req[w].gname)
      BY <1>1, <2>4 DEF Overlapping!RenameGroup, db, TablesOK, IsTable
    <3>. QED BY <2>4, <3>1, <3>2, ReplyOf, EffectIsNext DEF Overlapping!Effect
  <2>. QED BY <1>3, <1>4, <2>3, <2>4 DEF GetGroup
<1>5. CASE CollectGroup(w)
  <2>. DEFINE r == [req[w] EXCEPT !.seen = MeetingsOf(req[w].g)]
  <2>1. r.op = req[w].op /\ "op" \in DOMAIN r BY DEF Request
  <2>2. Step(w, r, "delete_dependents") BY <1>5 DEF CollectGroup
  <2>. HIDE DEF r
  <2>. QED BY <1>2, <2>1, <2>2, StepGoesOn
<1>9. CASE DeleteDependents(w)
  <2>1. Step(w, Keeping({req[w].g}, req[w].seen, w), "delete_group")
    BY <1>9 DEF DeleteDependents, Keeping
  <2>. QED BY <1>2, <2>1, KeepingShape, StepGoesOn
<1>6. CASE IsMember(w)
  <2>1. req[w].op \in {"PutPin", "DeletePin"} BY <1>6, OpOfPc DEF IsMember
  <2>. QED BY <1>1, <1>3, <1>6, <2>1, Refused DEF IsMember, Controllers, Denied, GroupOps
<1>7. CASE GetUser(w)
  <2>. DEFINE r == [req[w] EXCEPT !.trole = role[req[w].u]]
  <2>1. r.op = req[w].op /\ "op" \in DOMAIN r BY DEF Request
  <2>2. ~Step(w, r, "insert_member")
    <3>. HIDE DEF r
    <3>. QED BY <1>2, <2>1, StepGoesOn
  <2>3. req[w].op = "PostMember" BY <1>7, OpOfPc DEF GetUser
  <2>. QED BY <1>1, <1>7, <2>2, <2>3, Refused DEF GetUser, Controllers, NotFound, GroupOps
<1>8. CASE InsertMember(w)
  <2>1. req[w].op = "PostMember" BY <1>8, OpOfPc DEF InsertMember
  <2>. QED BY <1>1, <1>3, <1>8, <2>1, Refused DEF InsertMember, Controllers, GroupOps
<1>. QED BY <1>4, <1>5, <1>6, <1>7, <1>8, <1>9

LEMMA PinStepRefines ==
  ASSUME RInv, NEW w \in Worker, Ends(w), PinSelect(w) \/ PinInsert(w) \/ PinReget(w)
  PROVE  Overlapping!aNext
<1>. USE Holds
<1>1. req[w].op # "none" /\ "op" \in DOMAIN req[w]
  BY Serving DEF PinSelect, PinInsert, PinReget
<1>2. \A pc : ~Step(w, req[w], pc) BY <1>1, StepGoesOn
<1>3. CASE Answer(w, 204) BY <1>3, PinRefines
<1>4. CASE PinReget(w) /\ Raise(w, GroupsPinErrors, "IntegrityError")
  <2>1. req[w].op = "PutPin" BY <1>4, OpOfPc DEF PinReget
  <2>. QED BY <1>4, <2>1, Refused DEF PinReget, Controllers, Unforeseen, GroupOps
<1>. QED BY <1>2, <1>3, <1>4 DEF PinSelect, PinInsert, PinReget

LEMMA GroupStepRefines ==
  ASSUME RInv, NEW w \in Worker, GroupStep(w)
  PROVE  Overlapping!aNext \/ Stutter
<1>1. CASE ~Ends(w)
  BY <1>1, Holds, GroupStepOK, GroupStepShape, ContinueRefines DEF Moves
<1>2. CASE Ends(w)
  BY <1>2, GroupReadRefines, PinStepRefines, CreateGroupRefines, UpdateGroupRefines,
     DeleteGroupRefines, UnpinRefines, CommitMemberRefines, RemoveMemberRefines DEF GroupStep
<1>. QED BY <1>1, <1>2

\* The statements of the meetings app that only read.
LEMMA MeetingReadRefines ==
  ASSUME RInv, NEW w \in Worker, Ends(w),
         \/ OpenMeetings(w) \/ SelectLatestWillDo(w) \/ GetGroupOfMeeting(w) \/ InsertMeeting(w)
         \/ ReadMembers(w) \/ CollectCarryOver(w) \/ GetMeeting(w) \/ DeleteEntries(w)
         \/ GetEntry(w)
  PROVE  Overlapping!aNext
<1>. USE Holds
<1>1. UNCHANGED db
  BY DEF OpenMeetings, SelectLatestWillDo, GetGroupOfMeeting, InsertMeeting, ReadMembers,
         CollectCarryOver, GetMeeting, DeleteEntries, GetEntry
<1>2. req[w].op # "none" /\ "op" \in DOMAIN req[w]
  BY Serving DEF OpenMeetings, SelectLatestWillDo, GetGroupOfMeeting, InsertMeeting, ReadMembers,
                 CollectCarryOver, GetMeeting, DeleteEntries, GetEntry
<1>3. \A pc : ~Step(w, req[w], pc) BY <1>2, StepGoesOn
<1>4. \A x, pc : /\ ~Step(w, [req[w] EXCEPT !.seen = x], pc)
                 /\ ~Step(w, [req[w] EXCEPT !.carry = x], pc)
                 /\ ~Step(w, [req[w] EXCEPT !.m = x], pc)
                 /\ ~Step(w, [req[w] EXCEPT !.mrow = x], pc)
                 /\ ~Step(w, [req[w] EXCEPT !.erow = x], pc)
  <2>1. ASSUME NEW r, r.op = req[w].op, "op" \in DOMAIN r PROVE \A pc : ~Step(w, r, pc)
    BY <1>2, <2>1, StepGoesOn
  <2>. QED BY <2>1 DEF Request
<1>5. CASE OpenMeetings(w)
  BY <1>4, <1>5 DEF OpenMeetings
<1>6. CASE SelectLatestWillDo(w)
  BY <1>4, <1>6 DEF SelectLatestWillDo
<1>7. CASE GetGroupOfMeeting(w)
  BY <1>1, <1>3, <1>7, Refused DEF GetGroupOfMeeting, Controllers, NotFound, MeetingOps
<1>8. CASE InsertMeeting(w)
  BY <1>4, <1>8 DEF InsertMeeting
<1>9. CASE ReadMembers(w)
  BY <1>4, <1>9 DEF ReadMembers
<1>10. CASE CollectCarryOver(w)
  BY <1>4, <1>10 DEF CollectCarryOver
<1>11. CASE GetMeeting(w)
  <2>1. req[w].op \in {"PatchMeeting", "DeleteMeeting", "PatchEntry"}
    BY <1>11 DEF GetMeeting, LoadedOK, PcsOf, Request, GroupOps, MeetingOps, InAddMember,
                 InCreateMeeting
  <2>2. MeetingErrors(req[w].op) \in Controllers /\ EntriesDetailErrors \in Controllers
    BY DEF MeetingErrors, Controllers
  <2>3. ~Step(w, [req[w] EXCEPT !.mrow = meetings[req[w].m]], "update_meeting") BY <1>4
  <2>4. CASE /\ req[w].m \in DOMAIN meetings /\ req[w].op = "PatchMeeting"
             /\ req[w].mbody = [date |-> None, completed |-> None] /\ Answer(w, 200)
    <3>1. Overlapping!Done(w, 200) BY <2>4, Answered1
    <3>2. meetings[req[w].m] \in MeetingRow BY <2>4 DEF TablesOK, IsTable
    <3>3. [meetings EXCEPT ![req[w].m].date = @, ![req[w].m].completed = @] = meetings
      BY <2>4, <3>2 DEF TablesOK, IsTable, MeetingRow
    <3>4. Overlapping!Reschedule(req[w].m, req[w].mbody)
      BY <1>1, <2>4, <3>3 DEF Overlapping!Reschedule, db
    <3>5. visible[w].m = req[w].m BY <2>4, ReplyOf
    <3>. QED BY <2>4, <3>1, <3>4, <3>5, ReplyOf, EffectIsNext DEF Overlapping!Effect
  <2>5. CASE Raise(w, MeetingErrors(req[w].op), "MeetingNotFound")
    BY <1>1, <2>1, <2>2, <2>5, Refused DEF NotFound, MeetingOps
  <2>6. CASE /\ req[w].op = "PatchEntry"
             /\ \E e \in EntryDenied(req[w]) : Raise(w, EntriesDetailErrors, e)
    BY <1>1, <2>2, <2>6, Refused DEF EntryDenied, Denied, MeetingOps
  <2>. QED BY <1>3, <1>11, <2>3, <2>4, <2>5, <2>6 DEF GetMeeting
<1>12. CASE GetEntry(w)
  <2>1. ~Step(w, [req[w] EXCEPT !.erow = entries[<<req[w].m, req[w].u>>]], "update_entry")
    BY <1>4
  <2>2. req[w].op = "PatchEntry" BY <1>12, OpOfPc DEF GetEntry
  <2>3. CASE /\ <<req[w].m, req[w].u>> \in DOMAIN entries
             /\ \A f \in Field : req[w].ebody[f] = None
             /\ Answer(w, 200)
    <3>1. Overlapping!Done(w, 200) BY <2>3, Answered1
    <3>2. Overlapping!Write(<<req[w].m, req[w].u>>, req[w].ebody)
      BY <1>1, <2>3 DEF Overlapping!Write, db
    <3>3. visible[w].m = req[w].m /\ visible[w].u = req[w].u BY <2>2, ReplyOf
    <3>. QED BY <2>2, <3>1, <3>2, <3>3, ReplyOf, EffectIsNext DEF Overlapping!Effect
  <2>4. CASE Raise(w, EntriesDetailErrors, "EntryNotFound")
    BY <1>1, <2>2, <2>4, Refused DEF Controllers, NotFound, MeetingOps
  <2>. QED BY <1>12, <2>1, <2>3, <2>4 DEF GetEntry
<1>13. CASE DeleteEntries(w)
  <2>1. Step(w, Keeping({}, {req[w].m}, w), "delete_meeting")
    BY <1>13 DEF DeleteEntries, Keeping
  <2>. QED BY <1>2, <2>1, KeepingShape, StepGoesOn
<1>. QED BY <1>5, <1>6, <1>7, <1>8, <1>9, <1>10, <1>11, <1>12, <1>13

LEMMA MeetingStepRefines ==
  ASSUME RInv, NEW w \in Worker, MeetingStep(w)
  PROVE  Overlapping!aNext \/ Stutter
<1>1. CASE ~Ends(w)
  <2>1. \A v \in Worker \ {w} : req'[v] = req[v]
    BY Holds, MeetingStepOK, InsertMeetingOK DEF Moves
  <2>. QED BY <1>1, <2>1, Holds, MeetingStepShape, ContinueRefines
<1>2. CASE Ends(w)
  BY <1>2, MeetingReadRefines, CommitMeetingRefines, UpdateMeetingRefines, DeleteMeetingRefines,
     UpdateEntryRefines DEF MeetingStep
<1>. QED BY <1>1, <1>2

LEMMA AdminRefines ==
  ASSUME RInv, SetRole \/ DeleteUser
  PROVE  Overlapping!aNext
<1>1. visible' = visible BY DEF visible, Visible, SetRole, DeleteUser
<1>2. CASE SetRole
  <2>1. PICK e \in RoleEdits : e[1] \in DOMAIN role /\ role' = [role EXCEPT ![e[1]] = e[2]]
    BY <1>2 DEF SetRole
  <2>2. e[2] \in Roles BY AdminAssumption
  <2>3. Overlapping!ChangeRole
    BY <1>1, <1>2, <2>1, <2>2 DEF SetRole, Overlapping!ChangeRole, Roles, Overlapping!Roles
  <2>. QED BY <2>3 DEF Overlapping!aNext
<1>3. CASE DeleteUser
  <2>1. PICK u \in Deletable \cap DOMAIN role : Cascade({}, {}, {u}) BY <1>3 DEF DeleteUser
  <2>2. /\ entries' = Without(entries, {k \in DOMAIN entries : k[1] \in {} \/ k[2] \in {u}})
        /\ meetings' = Without(meetings, {})
        /\ members' = {p \in members : p[1] \notin {u} /\ p[2] \notin {}}
        /\ pins' = {p \in pins : p[1] \notin {u} /\ p[2] \notin {}}
        /\ name' = Without(name, {})
        /\ role' = Without(role, {u})
        /\ deleted' = deleted \cup ({} \cap DOMAIN name) \cup ({} \cap DOMAIN meetings)
                              \cup ({u} \cap DOMAIN role)
        /\ clock' = clock
    BY <2>1 DEF Cascade
  <2>3. meetings' = meetings /\ name' = name
    <3>1. TablesOK BY DEF RInv, IInv, TypeInv
    <3>. QED BY <2>2, <3>1 DEF Without, TablesOK, IsTable
  <2>4. {k \in DOMAIN entries : k[1] \in {} \/ k[2] \in {u}} = {k \in DOMAIN entries : k[2] = u}
    OBVIOUS
  <2>5. /\ entries' = Overlapping!Without(entries, {k \in DOMAIN entries : k[2] = u})
        /\ role' = Overlapping!Without(role, {u})
    BY <2>2, <2>4 DEF Without, Overlapping!Without
  <2>6. members' = {p \in members : p[1] # u} /\ pins' = {p \in pins : p[1] # u}
    BY <2>2
  <2>7. deleted' = deleted \cup {u} BY <2>2
  <2>8. Overlapping!DropUser
    BY <1>1, <2>2, <2>3, <2>5, <2>6, <2>7 DEF Overlapping!DropUser
  <2>. QED BY <2>8 DEF Overlapping!aNext
<1>. QED BY <1>2, <1>3

LEMMA NextRefines ==
  ASSUME RInv, [Next]_vars
  PROVE  Overlapping!aNext \/ Stutter
<1>1. ASSUME NEW w \in Worker, Call(w) PROVE Overlapping!aNext
  BY <1>1, CallRefines, Holds
<1>2. ASSUME NEW w \in Worker, Serve(w) \/ Abort(w) PROVE Overlapping!aNext \/ Stutter
  <2>1. CASE StatementTimeout(w) \/ Abort(w)
    <3>1. req[w].op \in GroupOps \cup MeetingOps
      BY <2>1, Holds, Serving DEF StatementTimeout, Abort, Request
    <3>. QED BY <2>1, <3>1, Holds, RefusalsOf, Silent DEF StatementTimeout, Abort
  <2>. QED BY <1>2, <2>1, GroupStepRefines, MeetingStepRefines DEF Serve
<1>3. UNCHANGED vars => Stutter BY DEF vars, Stutter, visible, Visible
<1>. QED BY <1>1, <1>2, <1>3, AdminRefines DEF Next

\* Whatever overlaps, crashes or times out, each request is answered the status
\* of its kind, with what its kind does to the rows it names done whole at that
\* moment, or refused with nothing done: the service implements Standup, for every
\* number of workers, users, groups and meetings.
THEOREM ImplementsStandup == Spec => Atomic
<1>1. Init => Overlapping!aInit
  <2>1. Visible(Idle) = Overlapping!Free(0) BY DEF Visible, Idle, Overlapping!Free
  <2>2. Init => visible = [w \in Worker |-> Overlapping!Free(0)]
    BY <2>1 DEF Init, visible
  <2>. QED BY <2>2 DEF Init, RowsInit, Overlapping!aInit, Overlapping!RowsInit
<1>2. RInv /\ [Next]_vars => [Overlapping!aNext]_(Overlapping!aVars)
  BY NextRefines DEF Stutter, Overlapping!aVars, Overlapping!db, db
<1>. QED BY <1>1, <1>2, RefinementInvariant, PTL DEF Spec, Atomic, Overlapping!aSpec
=============================================================================
