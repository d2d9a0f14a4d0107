-------------------------- MODULE AuthorityProofs --------------------------
(***************************************************************************)
(* No request commits what the role it was authenticated with forbids:     *)
(* proof of Authority, for every value of the constants.                   *)
(***************************************************************************)
EXTENDS SitdownProofs

\* The requests whose use cases do not begin with a check of the role.
OpenToAll == {"PutPin", "DeletePin", "PatchEntry"}

\* What the checks a request has passed leave true of it: whoever is no MANAGER
\* pins, unpins or PATCHes an entry, and has reached the entry only as the
\* MEMBER it belongs to.
Cleared(r) ==
    \/ r.op = "none" \/ r.role = "MANAGER"
    \/ /\ r.op \in OpenToAll
       /\ r.pc \in {"get_entry", "update_entry"} => r.role = "MEMBER" /\ r.u = r.by

AuthInv == IInv /\ \A w \in Worker : Cleared(req[w])

-----------------------------------------------------------------------------
(***************************************************************************)
(* AuthInv is inductive.                                                   *)
(***************************************************************************)
\* An answer clears everything.
LEMMA AnswerCleared ==
  ASSUME RequestsOK, NEW w \in Worker, NEW code, Answer(w, code)
  PROVE  Cleared(req'[w])
BY DEF RequestsOK, Answer, Idle, Cleared

LEMMA RaiseCleared ==
  ASSUME RequestsOK, NEW w \in Worker, NEW errors, NEW e, Raise(w, errors, e)
  PROVE  Cleared(req'[w])
BY AnswerCleared DEF Raise

\* A request as a call makes it: its fields, and its kind.
Made(r, op) ==
    /\ {"op", "by", "role", "u", "pc"} \subseteq DOMAIN r
    /\ r.op = op

LEMMA AuthenticatedMade == \A op, by : Made(Authenticated(op, by), op)
BY DEF Made, Authenticated, Idle

\* A MANAGER-only call.
LEMMA ManagerCleared ==
  ASSUME RequestsOK, NEW w \in Worker, NEW r, NEW op, Made(r, op), NEW pc, NEW errors,
         ManagerOnly(w, r, pc, errors) \/ MeetingManagerOnly(w, r, pc, errors)
  PROVE  Cleared(req'[w])
<1>1. CASE r.role = "MANAGER" /\ Step(w, r, pc)
  <2>1. req'[w] = [r EXCEPT !.pc = pc] BY <1>1 DEF RequestsOK, Step
  <2>. QED BY <1>1, <2>1 DEF Made, Cleared
<1>2. CASE Raise(w, errors, "PermissionDenied") BY <1>2, RaiseCleared
<1>. QED BY <1>1, <1>2 DEF ManagerOnly, MeetingManagerOnly

\* A call that is open to all and has an entry yet to reach.
LEMMA OpenCallCleared ==
  ASSUME RequestsOK, NEW w \in Worker, NEW r, NEW op \in OpenToAll, Made(r, op),
         NEW pc \in {"get_group", "get_meeting"}, Step(w, r, pc)
  PROVE  Cleared(req'[w])
<1>1. req'[w] = [r EXCEPT !.pc = pc] BY DEF RequestsOK, Step
<1>. QED BY <1>1 DEF Made, Cleared

LEMMA CallCleared ==
  ASSUME RequestsOK, NEW w \in Worker, Call(w)
  PROVE  Cleared(req'[w])
<1>1. CASE PostGroup(w)
  <2>1. PICK by, n : ManagerOnly(w, [Authenticated("PostGroup", by) EXCEPT !.gname = n],
                                 "create_group", GroupsCollectionErrors)
    BY <1>1 DEF PostGroup
  <2>2. Made([Authenticated("PostGroup", by) EXCEPT !.gname = n], "PostGroup")
    BY AuthenticatedMade DEF Made
  <2>. QED BY <2>1, <2>2, ManagerCleared
<1>2. CASE PatchGroup(w)
  <2>1. PICK by, g, n :
           ManagerOnly(w, [Authenticated("PatchGroup", by) EXCEPT !.g = g, !.gname = n],
                       "get_group", GroupsDetailErrors)
    BY <1>2 DEF PatchGroup
  <2>2. Made([Authenticated("PatchGroup", by) EXCEPT !.g = g, !.gname = n], "PatchGroup")
    BY AuthenticatedMade DEF Made
  <2>. QED BY <2>1, <2>2, ManagerCleared
<1>3. CASE DeleteGroup(w)
  <2>1. PICK by, g : ManagerOnly(w, [Authenticated("DeleteGroup", by) EXCEPT !.g = g],
                                 "get_group", GroupsDetailErrors)
    BY <1>3 DEF DeleteGroup
  <2>2. Made([Authenticated("DeleteGroup", by) EXCEPT !.g = g], "DeleteGroup")
    BY AuthenticatedMade DEF Made
  <2>. QED BY <2>1, <2>2, ManagerCleared
<1>4. CASE PutPin(w)
  <2>1. PICK by, g : Step(w, [Authenticated("PutPin", by) EXCEPT !.g = g], "get_group")
    BY <1>4 DEF PutPin
  <2>2. Made([Authenticated("PutPin", by) EXCEPT !.g = g], "PutPin")
    BY AuthenticatedMade DEF Made
  <2>. QED BY <2>1, <2>2, OpenCallCleared DEF OpenToAll
<1>5. CASE DeletePin(w)
  <2>1. PICK by, g : Step(w, [Authenticated("DeletePin", by) EXCEPT !.g = g], "get_group")
    BY <1>5 DEF DeletePin
  <2>2. Made([Authenticated("DeletePin", by) EXCEPT !.g = g], "DeletePin")
    BY AuthenticatedMade DEF Made
  <2>. QED BY <2>1, <2>2, OpenCallCleared DEF OpenToAll
<1>6. CASE PostMember(w)
  <2>1. PICK by, g, u :
           ManagerOnly(w, [Authenticated("PostMember", by) EXCEPT !.g = g, !.u = u],
                       "get_group", GroupsMembersCollectionErrors)
    BY <1>6 DEF PostMember
  <2>2. Made([Authenticated("PostMember", by) EXCEPT !.g = g, !.u = u], "PostMember")
    BY AuthenticatedMade DEF Made
  <2>. QED BY <2>1, <2>2, ManagerCleared
<1>7. CASE DeleteMember(w)
  <2>1. PICK by, g, u :
           ManagerOnly(w, [Authenticated("DeleteMember", by) EXCEPT !.g = g, !.u = u],
                       "get_group", GroupsMembersDetailErrors)
    BY <1>7 DEF DeleteMember
  <2>2. Made([Authenticated("DeleteMember", by) EXCEPT !.g = g, !.u = u], "DeleteMember")
    BY AuthenticatedMade DEF Made
  <2>. QED BY <2>1, <2>2, ManagerCleared
<1>8. CASE PostMeeting(w)
  <2>1. PICK by, g, d :
           MeetingManagerOnly(w, [Authenticated("PostMeeting", by) EXCEPT !.g = g,
                                    !.mbody = [date |-> d, completed |-> None]],
                              "get_group", MeetingsCollectionErrors)
    BY <1>8 DEF PostMeeting
  <2>2. Made([Authenticated("PostMeeting", by) EXCEPT !.g = g,
                 !.mbody = [date |-> d, completed |-> None]], "PostMeeting")
    BY AuthenticatedMade DEF Made
  <2>. QED BY <2>1, <2>2, ManagerCleared
<1>9. CASE PatchMeeting(w)
  <2>1. PICK by, m, body :
           MeetingManagerOnly(w, [Authenticated("PatchMeeting", by) EXCEPT !.m = m,
                                    !.mbody = body],
                              "get_meeting", MeetingsDetailErrors)
    BY <1>9 DEF PatchMeeting
  <2>2. Made([Authenticated("PatchMeeting", by) EXCEPT !.m = m, !.mbody = body],
             "PatchMeeting")
    BY AuthenticatedMade DEF Made
  <2>. QED BY <2>1, <2>2, ManagerCleared
<1>10. CASE DeleteMeeting(w)
  <2>1. PICK by, m :
           MeetingManagerOnly(w, [Authenticated("DeleteMeeting", by) EXCEPT !.m = m],
                              "get_meeting", MeetingsDetailErrors)
    BY <1>10 DEF DeleteMeeting
  <2>2. Made([Authenticated("DeleteMeeting", by) EXCEPT !.m = m], "DeleteMeeting")
    BY AuthenticatedMade DEF Made
  <2>. QED BY <2>1, <2>2, ManagerCleared
<1>11. CASE PatchEntry(w)
  <2>1. PICK by, m, u, body :
           Step(w, [Authenticated("PatchEntry", by) EXCEPT !.m = m, !.u = u, !.ebody = body],
                "get_meeting")
    BY <1>11 DEF PatchEntry
  <2>2. Made([Authenticated("PatchEntry", by) EXCEPT !.m = m, !.u = u, !.ebody = body],
             "PatchEntry")
    BY AuthenticatedMade DEF Made
  <2>. QED BY <2>1, <2>2, OpenCallCleared DEF OpenToAll
<1>. QED BY <1>1, <1>2, <1>3, <1>4, <1>5, <1>6, <1>7, <1>8, <1>9, <1>10, <1>11
         DEF Call, GroupCall, MeetingCall

\* A statement that is not the last keeps the caller, the role, the kind and the
\* target of the request, and is cleared unless it reaches an entry.
Same(r, q) ==
    /\ {"op", "by", "role", "u", "pc"} \subseteq DOMAIN r
    /\ r.op = q.op /\ r.by = q.by /\ r.role = q.role /\ r.u = q.u

LEMMA StoreCleared ==
  ASSUME RequestsOK, NEW w \in Worker, Cleared(req[w]), NEW r, Same(r, req[w]), NEW pc,
         Step(w, r, pc),
         pc \in {"get_entry", "update_entry"} =>
            \/ req[w].pc = "get_entry"
            \/ req[w].role = "MANAGER"
            \/ req[w].role = "MEMBER" /\ req[w].u = req[w].by
  PROVE  Cleared(req'[w])
<1>1. req'[w] = [r EXCEPT !.pc = pc] BY DEF RequestsOK, Step
<1>2. LET q == req'[w] IN q.op = r.op /\ q.by = r.by /\ q.role = r.role /\ q.u = r.u /\ q.pc = pc
  BY <1>1 DEF Same
<1>. QED BY <1>2 DEF Same, Cleared

LEMMA GroupStepCleared ==
  ASSUME RequestsOK, NEW w \in Worker, Cleared(req[w]), GroupStep(w)
  PROVE  Cleared(req'[w])
<1>. USE AnswerCleared, RaiseCleared
<1>0. Same(req[w], req[w]) BY DEF RequestsOK, Request, Same
<1>1. CASE GetGroup(w)
  <2>1. AfterGetGroup(req[w]) \notin {"get_entry", "update_entry"}
    BY <1>1 DEF AfterGetGroup, GetGroup, GetGroupOps, GroupOps
  <2>. QED BY <1>0, <1>1, <2>1, StoreCleared DEF GetGroup
<1>2. CASE CollectGroup(w)
  <2>1. PICK s : Step(w, [req[w] EXCEPT !.seen = s], "delete_dependents")
    BY <1>2 DEF CollectGroup
  <2>2. Same([req[w] EXCEPT !.seen = s], req[w]) BY <1>0 DEF Same
  <2>. QED BY <2>1, <2>2, StoreCleared
<1>6. CASE DeleteDependents(w)
  <2>1. PICK found : Step(w, [req[w] EXCEPT !.found = found], "delete_group")
    BY <1>6 DEF DeleteDependents
  <2>2. Same([req[w] EXCEPT !.found = found], req[w]) BY <1>0 DEF Same
  <2>. QED BY <2>1, <2>2, StoreCleared
<1>3. CASE GetUser(w)
  <2>1. ASSUME NEW t, Step(w, [req[w] EXCEPT !.trole = t], "insert_member")
        PROVE  Cleared(req'[w])
    <3>1. Same([req[w] EXCEPT !.trole = t], req[w]) BY <1>0 DEF Same
    <3>. QED BY <2>1, <3>1, StoreCleared
  <2>. QED BY <1>3, <2>1 DEF GetUser
<1>4. CASE IsMember(w) \/ PinSelect(w) \/ PinInsert(w) \/ InsertMember(w)
  <2>1. \/ \E pc \in {"pin_select", "unpin", "pin_insert", "pin_reget", "commit_member",
                      "open_meetings"} : Step(w, req[w], pc)
        \/ \E code : Answer(w, code)
        \/ \E errors, e : Raise(w, errors, e)
    BY <1>4 DEF IsMember, PinSelect, PinInsert, InsertMember
  <2>. QED BY <1>0, <2>1, StoreCleared
<1>5. CASE CreateGroup(w) \/ UpdateGroup(w) \/ DeleteGroupRows(w) \/ PinReget(w) \/ Unpin(w)
           \/ CommitMember(w) \/ RemoveMember(w)
  <2>1. (\E code : Answer(w, code)) \/ (\E errors, e : Raise(w, errors, e))
    BY <1>5 DEF CreateGroup, UpdateGroup, DeleteGroupRows, PinReget, Unpin, CommitMember,
                RemoveMember
  <2>. QED BY <2>1
<1>. QED BY <1>1, <1>2, <1>3, <1>4, <1>5, <1>6 DEF GroupStep

LEMMA MeetingStepCleared ==
  ASSUME RequestsOK, NEW w \in Worker, Cleared(req[w]), MeetingStep(w)
  PROVE  Cleared(req'[w])
<1>. USE AnswerCleared, RaiseCleared
<1>0. Same(req[w], req[w]) BY DEF RequestsOK, Request, Same
<1>1. CASE OpenMeetings(w)
  <2>. DEFINE open == {m \in MeetingsOf(req[w].g) : ~meetings[m].completed}
              pc == IF open = {} THEN "commit_member" ELSE "latest_will_do"
              r == [req[w] EXCEPT !.seen = open]
  <2>1. Step(w, r, pc) BY <1>1 DEF OpenMeetings
  <2>2. pc \notin {"get_entry", "update_entry"} OBVIOUS
  <2>3. Same(r, req[w]) BY <1>0 DEF Same
  <2>. HIDE DEF r, pc
  <2>. QED BY <2>1, <2>2, <2>3, StoreCleared
<1>2. CASE SelectLatestWillDo(w)
  <2>1. PICK f : Step(w, [req[w] EXCEPT !.carry = f], "commit_member")
    BY <1>2 DEF SelectLatestWillDo
  <2>2. Same([req[w] EXCEPT !.carry = f], req[w]) BY <1>0 DEF Same
  <2>. QED BY <2>1, <2>2, StoreCleared
<1>3. CASE InsertMeeting(w)
  <2>1. PICK m : Step(w, [req[w] EXCEPT !.m = m], "read_members")
    BY <1>3 DEF InsertMeeting
  <2>2. Same([req[w] EXCEPT !.m = m], req[w]) BY <1>0 DEF Same
  <2>. QED BY <2>1, <2>2, StoreCleared
<1>4. CASE ReadMembers(w)
  <2>. DEFINE us == {u \in DOMAIN role : <<u, req[w].g>> \in members /\ role[u] # "GUEST"}
              pc == IF us = {} THEN "commit_meeting" ELSE "carry_over"
              r == [req[w] EXCEPT !.carry = [u \in us |-> Blank]]
  <2>1. Step(w, r, pc) BY <1>4 DEF ReadMembers
  <2>2. pc \notin {"get_entry", "update_entry"} OBVIOUS
  <2>3. Same(r, req[w]) BY <1>0 DEF Same
  <2>. HIDE DEF r, pc
  <2>. QED BY <2>1, <2>2, <2>3, StoreCleared
<1>5. CASE CollectCarryOver(w)
  <2>1. PICK f : Step(w, [req[w] EXCEPT !.carry = f], "commit_meeting")
    BY <1>5 DEF CollectCarryOver
  <2>2. Same([req[w] EXCEPT !.carry = f], req[w]) BY <1>0 DEF Same
  <2>. QED BY <2>1, <2>2, StoreCleared
<1>6. CASE GetGroupOfMeeting(w)
  BY <1>0, <1>6, StoreCleared DEF GetGroupOfMeeting
<1>7. CASE GetMeeting(w)
  <2>1. CASE Step(w, [req[w] EXCEPT !.mrow = meetings[req[w].m]], "update_meeting")
    <3>1. Same([req[w] EXCEPT !.mrow = meetings[req[w].m]], req[w]) BY <1>0 DEF Same
    <3>. QED BY <2>1, <3>1, StoreCleared
  <2>2. CASE Step(w, req[w], "delete_entries") BY <1>0, <2>2, StoreCleared
  <2>3. CASE EntryDenied(req[w]) = {} /\ Step(w, req[w], "get_entry")
    BY <1>0, <2>3, StoreCleared DEF EntryDenied
  <2>. QED BY <1>7, <2>1, <2>2, <2>3 DEF GetMeeting
<1>8. CASE GetEntry(w)
  <2>1. CASE Step(w, [req[w] EXCEPT !.erow = entries[<<req[w].m, req[w].u>>]], "update_entry")
    <3>1. Same([req[w] EXCEPT !.erow = entries[<<req[w].m, req[w].u>>]], req[w])
      BY <1>0 DEF Same
    <3>. QED BY <1>8, <2>1, <3>1, StoreCleared DEF GetEntry
  <2>. QED BY <1>8, <2>1 DEF GetEntry
<1>9. CASE CommitMeeting(w) \/ UpdateMeeting(w) \/ DeleteMeetingRows(w) \/ UpdateEntry(w)
  <2>1. (\E code : Answer(w, code)) \/ (\E errors, e : Raise(w, errors, e))
    BY <1>9 DEF CommitMeeting, UpdateMeeting, DeleteMeetingRows, UpdateEntry
  <2>. QED BY <2>1
<1>10. CASE DeleteEntries(w)
  <2>1. PICK found : Step(w, [req[w] EXCEPT !.found = found], "delete_meeting")
    BY <1>10 DEF DeleteEntries
  <2>2. Same([req[w] EXCEPT !.found = found], req[w]) BY <1>0 DEF Same
  <2>. QED BY <2>1, <2>2, StoreCleared
<1>. QED BY <1>1, <1>2, <1>3, <1>4, <1>5, <1>6, <1>7, <1>8, <1>9, <1>10 DEF MeetingStep

\* What worker w does when it takes a step; the other requests stay.
Acts(w) == Call(w) \/ Serve(w) \/ Abort(w)

LEMMA OthersStay ==
  ASSUME TypeInv, NEW w \in Worker, Acts(w)
  PROVE  \A v \in Worker \ {w} : req'[v] = req[v]
BY GroupCallOK, MeetingCallOK, GroupStepOK, MeetingStepOK, InsertMeetingOK, DeathOK
   DEF Acts, Call, Serve, Moves, TypeInv

LEMMA AuthInvInit == Init => AuthInv
BY IInvInit DEF AuthInv, Init, Idle, Cleared

LEMMA AuthInvStep == AuthInv /\ [Next]_vars => AuthInv'
<1>. SUFFICES ASSUME AuthInv, [Next]_vars PROVE AuthInv'
  OBVIOUS
<1>1. IInv' BY IInvStep DEF AuthInv
<1>2. ASSUME NEW w \in Worker, Acts(w) PROVE \A v \in Worker : Cleared(req'[v])
  <2>1. Cleared(req'[w])
    BY <1>2, CallCleared, GroupStepCleared, MeetingStepCleared, AnswerCleared
       DEF Acts, Serve, StatementTimeout, Abort, AuthInv, IInv, TypeInv
  <2>. QED BY <1>2, <2>1, OthersStay DEF AuthInv, IInv
<1>3. CASE req' = req BY <1>1, <1>3 DEF AuthInv
<1>. QED BY <1>1, <1>2, <1>3 DEF AuthInv, Next, Acts, SetRole, DeleteUser, vars

\* A request holds the write it was cleared for until its answer.
THEOREM RequestsStayCleared == Spec => []AuthInv
<1>. QED BY AuthInvInit, AuthInvStep, PTL DEF Spec

-----------------------------------------------------------------------------
(***************************************************************************)
(* What the statements that are open to all write.                         *)
(***************************************************************************)
LEMMA PinsOnly ==
  ASSUME IInv, NEW w \in Worker, PinInsert(w) \/ Unpin(w)
  PROVE  Allowed(req[w])
<1>. DEFINE p == <<req[w].by, req[w].g>>
<1>1. \A q \in (pins \cup pins') \ (pins \cap pins') : q = p
  BY DEF PinInsert, Unpin
<1>2. UNCHANGED <<role, name, members, meetings, entries, deleted>>
  BY DEF PinInsert, Unpin
<1>. QED BY <1>1, <1>2 DEF Allowed

LEMMA OwnEntryOnly ==
  ASSUME AuthInv, NEW w \in Worker, UpdateEntry(w)
  PROVE  Allowed(req[w])
<1>. DEFINE r == req[w]
            k == <<r.m, r.u>>
<1>1. r.pc = "update_entry" /\ RequestOK(r)
  BY DEF UpdateEntry, AuthInv, IInv, TypeInv, RequestsOK
<1>2. r.op = "PatchEntry" BY <1>1, OpOfPc
<1>3. r.role = "MANAGER" \/ (r.role = "MEMBER" /\ r.u = r.by)
  BY <1>1, <1>2 DEF AuthInv, Cleared
<1>4. UNCHANGED <<role, name, members, pins, meetings, deleted>> BY DEF UpdateEntry
<1>5. UNCHANGED entries \/ \E row : entries' = [entries EXCEPT ![k] = row]
  BY DEF UpdateEntry
<1>6. /\ DOMAIN entries' = DOMAIN entries
      /\ \A j \in DOMAIN entries : entries'[j] # entries[j] => j = k
  BY <1>5
<1>. QED BY <1>3, <1>4, <1>6 DEF Allowed

\* The statements that write, of the requests that are not open to all.
LEMMA ManagersWrite ==
  ASSUME AuthInv, NEW w \in Worker,
         \/ CreateGroup(w) \/ UpdateGroup(w) \/ DeleteGroupRows(w) \/ CommitMember(w)
         \/ RemoveMember(w) \/ CommitMeeting(w) \/ UpdateMeeting(w) \/ DeleteMeetingRows(w)
  PROVE  Allowed(req[w])
<1>1. RequestOK(req[w]) BY DEF AuthInv, IInv, TypeInv, RequestsOK
<1>2. req[w].pc \in PcsOf(req[w].op) /\ req[w].op \in GroupOps \cup MeetingOps \cup {"none"}
  BY <1>1 DEF RequestOK, LoadedOK, Request
<1>3. req[w].pc \in {"create_group", "update_group", "delete_group", "commit_member",
                     "remove_member", "commit_meeting", "update_meeting", "delete_meeting"}
  BY DEF CreateGroup, UpdateGroup, DeleteGroupRows, CommitMember, RemoveMember, CommitMeeting,
         UpdateMeeting, DeleteMeetingRows
<1>4. req[w].op \notin OpenToAll \cup {"none"}
  BY <1>2, <1>3 DEF PcsOf, OpenToAll, InAddMember, InCreateMeeting
<1>5. req[w].role = "MANAGER" BY <1>4 DEF AuthInv, Cleared
<1>. QED BY <1>5 DEF Allowed

LEMMA ActAllowed ==
  ASSUME AuthInv, NEW w \in Worker, Acts(w), db' # db
  PROVE  Allowed(req[w])
<1>1. ~Call(w) /\ ~Abort(w) /\ ~StatementTimeout(w)
  BY DEF Call, GroupCall, MeetingCall, PostGroup, PatchGroup, DeleteGroup, PutPin, DeletePin,
         PostMember, DeleteMember, PostMeeting, PatchMeeting, DeleteMeeting, PatchEntry, Abort,
         StatementTimeout
<1>2. CASE GroupStep(w)
  BY <1>2, PinsOnly, ManagersWrite
     DEF GroupStep, GetGroup, CollectGroup, DeleteDependents, IsMember, PinSelect, PinReget,
         GetUser, InsertMember, AuthInv
<1>3. CASE MeetingStep(w)
  BY <1>3, OwnEntryOnly, ManagersWrite
     DEF MeetingStep, OpenMeetings, SelectLatestWillDo, GetGroupOfMeeting, InsertMeeting,
         ReadMembers, CollectCarryOver, GetMeeting, DeleteEntries, GetEntry
<1>. QED BY <1>1, <1>2, <1>3 DEF Acts, Serve

\* Every commit of a request is one its caller's role, as read when the request
\* was authenticated, allows, although the check is several statements before.
THEOREM AuthorityKept == Spec => Authority
<1>. DEFINE A == req' # req =>
                    \E w \in Worker : req'[w] # req[w] /\ (db' # db => Allowed(req[w]))
<1>1. ASSUME AuthInv, [Next]_vars, req' # req
      PROVE  \E w \in Worker : req'[w] # req[w] /\ (db' # db => Allowed(req[w]))
  <2>1. PICK w \in Worker : Acts(w)
    BY <1>1 DEF Next, Acts, SetRole, DeleteUser, vars
  <2>2. req'[w] # req[w]
    <3>1. \A v \in Worker \ {w} : req'[v] = req[v] BY <1>1, <2>1, OthersStay DEF AuthInv, IInv
    <3>2. req \in [Worker -> Request] /\ req' \in [Worker -> Request]
      BY <1>1, IInvStep DEF AuthInv, IInv, TypeInv, RequestsOK
    <3>. QED BY <1>1, <3>1, <3>2
  <2>. QED BY <1>1, <2>1, <2>2, ActAllowed
<1>2. AuthInv /\ [Next]_vars => A BY <1>1
<1>. QED BY <1>2, RequestsStayCleared, PTL DEF Spec, Authority
=============================================================================
