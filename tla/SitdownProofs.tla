--------------------------- MODULE SitdownProofs ---------------------------
(***************************************************************************)
(* Proofs about Sitdown, for every value of its constants.                 *)
(***************************************************************************)
EXTENDS Sitdown, TLAPS

-----------------------------------------------------------------------------
(***************************************************************************)
(* Requests: what Answer, Raise and Step leave in req.                     *)
(***************************************************************************)
\* What every step of worker w but InsertMeeting does to the requests: the
\* others stay, and w is inside a meeting's transaction only if it was before,
\* for the same meeting.
Moves(w) ==
    /\ RequestsOK'
    /\ \A v \in Worker \ {w} : req'[v] = req[v]
    /\ req'[w].pc \in InCreateMeeting =>
          req[w].pc \in InCreateMeeting /\ req'[w].m = req[w].m

\* A controller answers statuses only.
Answers(errors) == \A x \in DOMAIN errors : errors[x] \in Statuses

\* The free worker is in order.
LEMMA IdleOK == RequestOK(Idle) /\ DOMAIN Idle.carry = {} /\ Idle.op = "none"
<1>1. Idle.carry \in PartialFn(User, Text)
  BY DEF Idle, PartialFn
<1>2. Idle \in Request
  BY <1>1 DEF Idle, Request, Pcs, Roles, Statuses
<1>3. ArgumentsOK(Idle) BY DEF Idle, ArgumentsOK, GetGroupOps, GroupOps
<1>4. LoadedOK(Idle, Idle.pc) BY DEF Idle, LoadedOK, PcsOf, InCreateMeeting
<1>. QED BY <1>2, <1>3, <1>4 DEF RequestOK, Idle

LEMMA AnswerOK ==
  ASSUME RequestsOK, NEW w \in Worker, NEW code \in Statuses, Answer(w, code)
  PROVE  Moves(w)
<1>. DEFINE a == [Idle EXCEPT !.status = code]
<1>1. a \in Request BY IdleOK DEF RequestOK, Request
<1>2. a.op = "none" /\ a.pc = "idle" BY DEF Idle
<1>3. RequestOK(a)
  BY <1>1, <1>2 DEF RequestOK, ArgumentsOK, LoadedOK, PcsOf, InCreateMeeting,
                    GetGroupOps, GroupOps
<1>4. /\ req'[w] = a
      /\ \A v \in Worker \ {w} : req'[v] = req[v]
      /\ req' \in [Worker -> Request]
  BY <1>1 DEF Answer, RequestsOK
<1>. QED BY <1>2, <1>3, <1>4 DEF RequestsOK, Moves, InCreateMeeting

LEMMA RaiseOK ==
  ASSUME RequestsOK, NEW w \in Worker, NEW errors, NEW e, Answers(errors),
         Raise(w, errors, e)
  PROVE  Moves(w)
<1>. DEFINE code == IF e \in DOMAIN errors THEN errors[e] ELSE 500
<1>1. code \in Statuses BY DEF Statuses, Answers
<1>. QED BY <1>1, AnswerOK DEF Raise

LEMMA ErrorsAnswer ==
  /\ Answers(GroupsCollectionErrors)
  /\ Answers(GroupsDetailErrors)
  /\ Answers(GroupsPinErrors)
  /\ Answers(GroupsMembersCollectionErrors)
  /\ Answers(GroupsMembersDetailErrors)
  /\ Answers(MeetingsCollectionErrors)
  /\ Answers(MeetingsDetailErrors)
  /\ Answers(EntriesDetailErrors)
BY DEF GroupsCollectionErrors, GroupsDetailErrors, GroupsPinErrors,
   GroupsMembersCollectionErrors, GroupsMembersDetailErrors, MeetingsCollectionErrors,
   MeetingsDetailErrors, EntriesDetailErrors, Statuses, Answers

\* Setting the pc of a request that is in order for that statement.
LEMMA PcOK ==
  ASSUME NEW r \in Request, ArgumentsOK(r), NEW pc \in Pcs, LoadedOK(r, pc)
  PROVE  /\ RequestOK([r EXCEPT !.pc = pc])
         /\ [r EXCEPT !.pc = pc].pc = pc
         /\ [r EXCEPT !.pc = pc].m = r.m
<1>. DEFINE q == [r EXCEPT !.pc = pc]
<1>1. q \in Request BY DEF Request
<1>2. /\ q.op = r.op /\ q.by = r.by /\ q.g = r.g /\ q.m = r.m /\ q.u = r.u
      /\ q.gname = r.gname /\ q.mbody = r.mbody /\ q.ebody = r.ebody
      /\ q.mrow = r.mrow /\ q.erow = r.erow /\ q.carry = r.carry /\ q.pc = pc
  BY DEF Request
<1>. HIDE DEF q
<1>3. ArgumentsOK(q) BY <1>2 DEF ArgumentsOK
<1>4. LoadedOK(q, pc) BY <1>2 DEF LoadedOK
<1>5. RequestOK(q) /\ q.pc = pc /\ q.m = r.m BY <1>1, <1>2, <1>3, <1>4 DEF RequestOK
<1>. QED BY <1>5 DEF q

LEMMA StepOK ==
  ASSUME RequestsOK, NEW w \in Worker, NEW r \in Request, NEW pc \in Pcs,
         ArgumentsOK(r), LoadedOK(r, pc), Step(w, r, pc)
  PROVE  /\ RequestsOK'
         /\ req'[w].pc = pc /\ req'[w].m = r.m
         /\ \A v \in Worker \ {w} : req'[v] = req[v]
<1>. DEFINE q == [r EXCEPT !.pc = pc]
<1>1. RequestOK(q) /\ q.pc = pc /\ q.m = r.m BY PcOK
<1>2. q \in Request BY <1>1 DEF RequestOK
<1>3. /\ req'[w] = q
      /\ \A v \in Worker \ {w} : req'[v] = req[v]
      /\ req' \in [Worker -> Request]
  BY <1>2 DEF Step, RequestsOK
<1>. QED BY <1>1, <1>3 DEF RequestsOK

\* The common case: the request is as it was but for its pc.
LEMMA GoOnOK ==
  ASSUME RequestsOK, NEW w \in Worker, NEW pc \in Pcs, pc \in PcsOf(req[w].op),
         pc \notin {"update_meeting", "update_entry"} \cup InCreateMeeting,
         pc = "update_group" => req[w].gname \in Name,
         Step(w, req[w], pc)
  PROVE  Moves(w)
<1>1. RequestOK(req[w]) BY DEF RequestsOK
<1>2. LoadedOK(req[w], pc) BY DEF LoadedOK
<1>. QED BY <1>1, <1>2, StepOK DEF RequestOK, Moves

\* A request as authentication makes it.
LEMMA AuthenticatedOK ==
  ASSUME TablesOK, NEW op \in GroupOps \cup MeetingOps, NEW by \in Callers \cap DOMAIN role
  PROVE  /\ Authenticated(op, by) \in Request
         /\ by \in User
         /\ Authenticated(op, by).op = op
         /\ Authenticated(op, by).by = by
         /\ DOMAIN Authenticated(op, by).carry = {}
<1>1. by \in User /\ role[by] \in Roles
  BY DEF TablesOK, IsTable
<1>2. Idle \in Request /\ DOMAIN Idle.carry = {}
  BY IdleOK DEF RequestOK
<1>. DEFINE a == Authenticated(op, by)
<1>3. a \in Request BY <1>1, <1>2, ZenonT(40) DEF Authenticated, Request
<1>4. a.op = op /\ a.by = by /\ a.carry = Idle.carry
  BY <1>2 DEF Authenticated, Request
<1>. QED BY <1>1, <1>2, <1>3, <1>4

\* The call of a use case for managers.
LEMMA ManagerOnlyOK ==
  ASSUME RequestsOK, NEW w \in Worker, NEW r \in Request, NEW pc, NEW errors,
         pc \in {"create_group", "get_group", "get_meeting"}, pc \in PcsOf(r.op),
         ArgumentsOK(r), Answers(errors),
         ManagerOnly(w, r, pc, errors) \/ MeetingManagerOnly(w, r, pc, errors)
  PROVE  Moves(w)
<1>1. LoadedOK(r, pc) /\ pc \in Pcs /\ pc \notin InCreateMeeting
  BY DEF LoadedOK, Pcs, InCreateMeeting
<1>2. CASE Step(w, r, pc)
  BY <1>1, <1>2, StepOK DEF Moves
<1>3. CASE Raise(w, errors, "PermissionDenied")
  BY <1>3, RaiseOK
<1>. QED BY <1>2, <1>3 DEF ManagerOnly, MeetingManagerOnly

-----------------------------------------------------------------------------
(***************************************************************************)
(* Calls: the request authentication makes, with what the client sent.     *)
(***************************************************************************)
LEMMA GroupCallOK ==
  ASSUME TypeInv, NEW w \in Worker, GroupCall(w)
  PROVE  Moves(w)
<1>. USE DEF TypeInv
<1>1. CASE PostGroup(w)
  <2>1. PICK by \in Callers \cap DOMAIN role, n \in Name :
          ManagerOnly(w, [Authenticated("PostGroup", by) EXCEPT !.gname = n],
                      "create_group", GroupsCollectionErrors)
    BY <1>1 DEF PostGroup
  <2>. DEFINE a == Authenticated("PostGroup", by)
              r == [a EXCEPT !.gname = n]
  <2>2. a \in Request /\ by \in User /\ a.op = "PostGroup" /\ a.by = by /\ DOMAIN a.carry = {}
    BY AuthenticatedOK DEF GroupOps, MeetingOps
  <2>3. n \in Name \cup {None}
    OBVIOUS
  <2>4. r \in Request
    <3>. HIDE DEF a
    <3>. QED BY <2>2, <2>3 DEF Request
  <2>5. /\ r.op = "PostGroup" /\ r.by = by /\ DOMAIN r.carry = {}
        /\ r.gname = n
    <3>. HIDE DEF a
    <3>. QED BY <2>2 DEF Request
  <2>6. ManagerOnly(w, r, "create_group", GroupsCollectionErrors)
    BY <2>1
  <2>. HIDE DEF r
  <2>7. ArgumentsOK(r) /\ "create_group" \in PcsOf(r.op)
    BY <2>2, <2>3, <2>5 DEF ArgumentsOK, PcsOf, GetGroupOps, GroupOps
  <2>. QED BY <2>4, <2>6, <2>7, ManagerOnlyOK, ErrorsAnswer
<1>2. CASE PatchGroup(w)
  <2>1. PICK by \in Callers \cap DOMAIN role, g \in Known(DOMAIN name) \cap Group,
             n \in Name \cup {None} :
          ManagerOnly(w, [Authenticated("PatchGroup", by) EXCEPT !.g = g, !.gname = n],
                      "get_group", GroupsDetailErrors)
    BY <1>2 DEF PatchGroup
  <2>. DEFINE a == Authenticated("PatchGroup", by)
              r == [a EXCEPT !.g = g, !.gname = n]
  <2>2. a \in Request /\ by \in User /\ a.op = "PatchGroup" /\ a.by = by /\ DOMAIN a.carry = {}
    BY AuthenticatedOK DEF GroupOps, MeetingOps
  <2>3. g \in Group /\ n \in Name \cup {None}
    OBVIOUS
  <2>4. r \in Request
    <3>. HIDE DEF a
    <3>. QED BY <2>2, <2>3, ZenonT(40) DEF Request
  <2>5. /\ r.op = "PatchGroup" /\ r.by = by /\ DOMAIN r.carry = {}
        /\ r.g = g
        /\ r.gname = n
    <3>. HIDE DEF a
    <3>. QED BY <2>2 DEF Request
  <2>6. ManagerOnly(w, r, "get_group", GroupsDetailErrors)
    BY <2>1
  <2>. HIDE DEF r
  <2>7. ArgumentsOK(r) /\ "get_group" \in PcsOf(r.op)
    BY <2>2, <2>3, <2>5 DEF ArgumentsOK, PcsOf, GetGroupOps, GroupOps
  <2>. QED BY <2>4, <2>6, <2>7, ManagerOnlyOK, ErrorsAnswer
<1>3. CASE DeleteGroup(w)
  <2>1. PICK by \in Callers \cap DOMAIN role, g \in Known(DOMAIN name) \cap Group :
          ManagerOnly(w, [Authenticated("DeleteGroup", by) EXCEPT !.g = g],
                      "get_group", GroupsDetailErrors)
    BY <1>3 DEF DeleteGroup
  <2>. DEFINE a == Authenticated("DeleteGroup", by)
              r == [a EXCEPT !.g = g]
  <2>2. a \in Request /\ by \in User /\ a.op = "DeleteGroup" /\ a.by = by /\ DOMAIN a.carry = {}
    BY AuthenticatedOK DEF GroupOps, MeetingOps
  <2>3. g \in Group
    OBVIOUS
  <2>4. r \in Request
    <3>. HIDE DEF a
    <3>. QED BY <2>2, <2>3 DEF Request
  <2>5. /\ r.op = "DeleteGroup" /\ r.by = by /\ DOMAIN r.carry = {}
        /\ r.g = g
    <3>. HIDE DEF a
    <3>. QED BY <2>2 DEF Request
  <2>6. ManagerOnly(w, r, "get_group", GroupsDetailErrors)
    BY <2>1
  <2>. HIDE DEF r
  <2>7. ArgumentsOK(r) /\ "get_group" \in PcsOf(r.op)
    BY <2>2, <2>3, <2>5 DEF ArgumentsOK, PcsOf, GetGroupOps, GroupOps
  <2>. QED BY <2>4, <2>6, <2>7, ManagerOnlyOK, ErrorsAnswer
<1>4. CASE PutPin(w)
  <2>1. PICK by \in Callers \cap DOMAIN role, g \in Known(DOMAIN name) \cap Group :
          Step(w, [Authenticated("PutPin", by) EXCEPT !.g = g], "get_group")
    BY <1>4 DEF PutPin
  <2>. DEFINE a == Authenticated("PutPin", by)
              r == [a EXCEPT !.g = g]
  <2>2. a \in Request /\ by \in User /\ a.op = "PutPin" /\ a.by = by /\ DOMAIN a.carry = {}
    BY AuthenticatedOK DEF GroupOps, MeetingOps
  <2>3. g \in Group
    OBVIOUS
  <2>4. r \in Request
    <3>. HIDE DEF a
    <3>. QED BY <2>2, <2>3 DEF Request
  <2>5. /\ r.op = "PutPin" /\ r.by = by /\ DOMAIN r.carry = {}
        /\ r.g = g
    <3>. HIDE DEF a
    <3>. QED BY <2>2 DEF Request
  <2>6. Step(w, r, "get_group")
    BY <2>1
  <2>. HIDE DEF r
  <2>7. ArgumentsOK(r) /\ "get_group" \in PcsOf(r.op)
    BY <2>2, <2>3, <2>5 DEF ArgumentsOK, PcsOf, GetGroupOps, GroupOps
  <2>8. LoadedOK(r, "get_group") /\ "get_group" \in Pcs
    BY <2>7 DEF LoadedOK, Pcs, InCreateMeeting
  <2>. QED BY <2>4, <2>6, <2>7, <2>8, StepOK DEF Moves, InCreateMeeting
<1>5. CASE DeletePin(w)
  <2>1. PICK by \in Callers \cap DOMAIN role, g \in Known(DOMAIN name) \cap Group :
          Step(w, [Authenticated("DeletePin", by) EXCEPT !.g = g], "get_group")
    BY <1>5 DEF DeletePin
  <2>. DEFINE a == Authenticated("DeletePin", by)
              r == [a EXCEPT !.g = g]
  <2>2. a \in Request /\ by \in User /\ a.op = "DeletePin" /\ a.by = by /\ DOMAIN a.carry = {}
    BY AuthenticatedOK DEF GroupOps, MeetingOps
  <2>3. g \in Group
    OBVIOUS
  <2>4. r \in Request
    <3>. HIDE DEF a
    <3>. QED BY <2>2, <2>3 DEF Request
  <2>5. /\ r.op = "DeletePin" /\ r.by = by /\ DOMAIN r.carry = {}
        /\ r.g = g
    <3>. HIDE DEF a
    <3>. QED BY <2>2 DEF Request
  <2>6. Step(w, r, "get_group")
    BY <2>1
  <2>. HIDE DEF r
  <2>7. ArgumentsOK(r) /\ "get_group" \in PcsOf(r.op)
    BY <2>2, <2>3, <2>5 DEF ArgumentsOK, PcsOf, GetGroupOps, GroupOps
  <2>8. LoadedOK(r, "get_group") /\ "get_group" \in Pcs
    BY <2>7 DEF LoadedOK, Pcs, InCreateMeeting
  <2>. QED BY <2>4, <2>6, <2>7, <2>8, StepOK DEF Moves, InCreateMeeting
<1>6. CASE PostMember(w)
  <2>1. PICK by \in Callers \cap DOMAIN role, g \in Known(DOMAIN name) \cap Group,
             u \in Known(DOMAIN role) \cap User :
          ManagerOnly(w, [Authenticated("PostMember", by) EXCEPT !.g = g, !.u = u],
                      "get_group", GroupsMembersCollectionErrors)
    BY <1>6 DEF PostMember
  <2>. DEFINE a == Authenticated("PostMember", by)
              r == [a EXCEPT !.g = g, !.u = u]
  <2>2. a \in Request /\ by \in User /\ a.op = "PostMember" /\ a.by = by /\ DOMAIN a.carry = {}
    BY AuthenticatedOK DEF GroupOps, MeetingOps
  <2>3. g \in Group /\ u \in User
    OBVIOUS
  <2>4. r \in Request
    <3>. HIDE DEF a
    <3>. QED BY <2>2, <2>3 DEF Request
  <2>5. /\ r.op = "PostMember" /\ r.by = by /\ DOMAIN r.carry = {}
        /\ r.g = g
        /\ r.u = u
    <3>. HIDE DEF a
    <3>. QED BY <2>2 DEF Request
  <2>6. ManagerOnly(w, r, "get_group", GroupsMembersCollectionErrors)
    BY <2>1
  <2>. HIDE DEF r
  <2>7. ArgumentsOK(r) /\ "get_group" \in PcsOf(r.op)
    BY <2>2, <2>3, <2>5 DEF ArgumentsOK, PcsOf, GetGroupOps, GroupOps
  <2>. QED BY <2>4, <2>6, <2>7, ManagerOnlyOK, ErrorsAnswer
<1>7. CASE DeleteMember(w)
  <2>1. PICK by \in Callers \cap DOMAIN role, g \in Known(DOMAIN name) \cap Group,
             u \in Known(DOMAIN role) \cap User :
          ManagerOnly(w, [Authenticated("DeleteMember", by) EXCEPT !.g = g, !.u = u],
                      "get_group", GroupsMembersDetailErrors)
    BY <1>7 DEF DeleteMember
  <2>. DEFINE a == Authenticated("DeleteMember", by)
              r == [a EXCEPT !.g = g, !.u = u]
  <2>2. a \in Request /\ by \in User /\ a.op = "DeleteMember" /\ a.by = by /\ DOMAIN a.carry = {}
    BY AuthenticatedOK DEF GroupOps, MeetingOps
  <2>3. g \in Group /\ u \in User
    OBVIOUS
  <2>4. r \in Request
    <3>. HIDE DEF a
    <3>. QED BY <2>2, <2>3 DEF Request
  <2>5. /\ r.op = "DeleteMember" /\ r.by = by /\ DOMAIN r.carry = {}
        /\ r.g = g
        /\ r.u = u
    <3>. HIDE DEF a
    <3>. QED BY <2>2 DEF Request
  <2>6. ManagerOnly(w, r, "get_group", GroupsMembersDetailErrors)
    BY <2>1
  <2>. HIDE DEF r
  <2>7. ArgumentsOK(r) /\ "get_group" \in PcsOf(r.op)
    BY <2>2, <2>3, <2>5 DEF ArgumentsOK, PcsOf, GetGroupOps, GroupOps
  <2>. QED BY <2>4, <2>6, <2>7, ManagerOnlyOK, ErrorsAnswer
<1>. QED BY <1>1, <1>2, <1>3, <1>4, <1>5, <1>6, <1>7 DEF GroupCall

LEMMA MeetingCallOK ==
  ASSUME TypeInv, NEW w \in Worker, MeetingCall(w)
  PROVE  Moves(w)
<1>. USE DEF TypeInv
<1>1. CASE PostMeeting(w)
  <2>1. PICK by \in Callers \cap DOMAIN role, g \in Known(DOMAIN name) \cap Group,
             d \in Date :
          MeetingManagerOnly(w, [Authenticated("PostMeeting", by) EXCEPT !.g = g, !.mbody = [date |-> d, completed |-> None]],
                      "get_group", MeetingsCollectionErrors)
    BY <1>1 DEF PostMeeting
  <2>. DEFINE a == Authenticated("PostMeeting", by)
              r == [a EXCEPT !.g = g, !.mbody = [date |-> d, completed |-> None]]
  <2>2. a \in Request /\ by \in User /\ a.op = "PostMeeting" /\ a.by = by /\ DOMAIN a.carry = {}
    BY AuthenticatedOK DEF GroupOps, MeetingOps
  <2>3. g \in Group /\ [date |-> d, completed |-> None] \in MeetingBody
    BY  DEF MeetingBody
  <2>4. r \in Request
    <3>. HIDE DEF a
    <3>. QED BY <2>2, <2>3 DEF Request
  <2>5. /\ r.op = "PostMeeting" /\ r.by = by /\ DOMAIN r.carry = {}
        /\ r.g = g
        /\ r.mbody = [date |-> d, completed |-> None]
    <3>. HIDE DEF a
    <3>. QED BY <2>2 DEF Request
  <2>6. MeetingManagerOnly(w, r, "get_group", MeetingsCollectionErrors)
    BY <2>1
  <2>. HIDE DEF r
  <2>7. ArgumentsOK(r) /\ "get_group" \in PcsOf(r.op)
    BY <2>2, <2>3, <2>5 DEF ArgumentsOK, PcsOf, GetGroupOps, GroupOps
  <2>. QED BY <2>4, <2>6, <2>7, ManagerOnlyOK, ErrorsAnswer
<1>2. CASE PatchMeeting(w)
  <2>1. PICK by \in Callers \cap DOMAIN role, m \in Known(DOMAIN meetings) \cap Meeting,
             body \in MeetingPatches :
          MeetingManagerOnly(w, [Authenticated("PatchMeeting", by) EXCEPT !.m = m, !.mbody = body],
                      "get_meeting", MeetingsDetailErrors)
    BY <1>2 DEF PatchMeeting
  <2>. DEFINE a == Authenticated("PatchMeeting", by)
              r == [a EXCEPT !.m = m, !.mbody = body]
  <2>2. a \in Request /\ by \in User /\ a.op = "PatchMeeting" /\ a.by = by /\ DOMAIN a.carry = {}
    BY AuthenticatedOK DEF GroupOps, MeetingOps
  <2>3. m \in Meeting /\ body \in MeetingBody
    BY ClientAssumption
  <2>4. r \in Request
    <3>. HIDE DEF a
    <3>. QED BY <2>2, <2>3 DEF Request
  <2>5. /\ r.op = "PatchMeeting" /\ r.by = by /\ DOMAIN r.carry = {}
        /\ r.m = m
        /\ r.mbody = body
    <3>. HIDE DEF a
    <3>. QED BY <2>2 DEF Request
  <2>6. MeetingManagerOnly(w, r, "get_meeting", MeetingsDetailErrors)
    BY <2>1
  <2>. HIDE DEF r
  <2>7. ArgumentsOK(r) /\ "get_meeting" \in PcsOf(r.op)
    BY <2>2, <2>3, <2>5 DEF ArgumentsOK, PcsOf, GetGroupOps, GroupOps
  <2>. QED BY <2>4, <2>6, <2>7, ManagerOnlyOK, ErrorsAnswer
<1>3. CASE DeleteMeeting(w)
  <2>1. PICK by \in Callers \cap DOMAIN role, m \in Known(DOMAIN meetings) \cap Meeting :
          MeetingManagerOnly(w, [Authenticated("DeleteMeeting", by) EXCEPT !.m = m],
                      "get_meeting", MeetingsDetailErrors)
    BY <1>3 DEF DeleteMeeting
  <2>. DEFINE a == Authenticated("DeleteMeeting", by)
              r == [a EXCEPT !.m = m]
  <2>2. a \in Request /\ by \in User /\ a.op = "DeleteMeeting" /\ a.by = by /\ DOMAIN a.carry = {}
    BY AuthenticatedOK DEF GroupOps, MeetingOps
  <2>3. m \in Meeting
    OBVIOUS
  <2>4. r \in Request
    <3>. HIDE DEF a
    <3>. QED BY <2>2, <2>3 DEF Request
  <2>5. /\ r.op = "DeleteMeeting" /\ r.by = by /\ DOMAIN r.carry = {}
        /\ r.m = m
    <3>. HIDE DEF a
    <3>. QED BY <2>2 DEF Request
  <2>6. MeetingManagerOnly(w, r, "get_meeting", MeetingsDetailErrors)
    BY <2>1
  <2>. HIDE DEF r
  <2>7. ArgumentsOK(r) /\ "get_meeting" \in PcsOf(r.op)
    BY <2>2, <2>3, <2>5 DEF ArgumentsOK, PcsOf, GetGroupOps, GroupOps
  <2>. QED BY <2>4, <2>6, <2>7, ManagerOnlyOK, ErrorsAnswer
<1>4. CASE PatchEntry(w)
  <2>1. PICK by \in Callers \cap DOMAIN role, m \in Known(DOMAIN meetings) \cap Meeting,
             u \in Known(DOMAIN role) \cap User, body \in EntryPatches :
          Step(w, [Authenticated("PatchEntry", by) EXCEPT !.m = m, !.u = u, !.ebody = body], "get_meeting")
    BY <1>4 DEF PatchEntry
  <2>. DEFINE a == Authenticated("PatchEntry", by)
              r == [a EXCEPT !.m = m, !.u = u, !.ebody = body]
  <2>2. a \in Request /\ by \in User /\ a.op = "PatchEntry" /\ a.by = by /\ DOMAIN a.carry = {}
    BY AuthenticatedOK DEF GroupOps, MeetingOps
  <2>3. m \in Meeting /\ u \in User /\ body \in EntryBody
    BY ClientAssumption
  <2>4. r \in Request
    <3>. HIDE DEF a
    <3>. QED BY <2>2, <2>3 DEF Request
  <2>5. /\ r.op = "PatchEntry" /\ r.by = by /\ DOMAIN r.carry = {}
        /\ r.m = m
        /\ r.u = u
        /\ r.ebody = body
    <3>. HIDE DEF a
    <3>. QED BY <2>2 DEF Request
  <2>6. Step(w, r, "get_meeting")
    BY <2>1
  <2>. HIDE DEF r
  <2>7. ArgumentsOK(r) /\ "get_meeting" \in PcsOf(r.op)
    BY <2>2, <2>3, <2>5 DEF ArgumentsOK, PcsOf, GetGroupOps, GroupOps
  <2>8. LoadedOK(r, "get_meeting") /\ "get_meeting" \in Pcs
    BY <2>7 DEF LoadedOK, Pcs, InCreateMeeting
  <2>. QED BY <2>4, <2>6, <2>7, <2>8, StepOK DEF Moves, InCreateMeeting
<1>. QED BY <1>1, <1>2, <1>3, <1>4 DEF MeetingCall

-----------------------------------------------------------------------------
(***************************************************************************)
(* Statements.                                                             *)
(***************************************************************************)
\* Which request a statement belongs to.
LEMMA OpOfPc ==
  ASSUME NEW r, RequestOK(r)
  PROVE  /\ r.pc = "is_member" => r.op \in {"PutPin", "DeletePin"}
         /\ r.pc \in {"pin_select", "pin_insert", "pin_reget"} => r.op = "PutPin"
         /\ r.pc \in {"get_user", "insert_member"} \cup InAddMember => r.op = "PostMember"
         /\ r.pc = "create_group" => r.op = "PostGroup"
         /\ r.pc = "update_group" => r.op = "PatchGroup"
         /\ r.pc \in {"collect_group", "delete_dependents", "delete_group"} => r.op = "DeleteGroup"
         /\ r.pc \in {"insert_meeting"} \cup InCreateMeeting => r.op = "PostMeeting"
         /\ r.pc = "update_meeting" => r.op = "PatchMeeting"
         /\ r.pc \in {"delete_entries", "delete_meeting"} => r.op = "DeleteMeeting"
         /\ r.pc \in {"get_entry", "update_entry"} => r.op = "PatchEntry"
<1>1. r.op \in GroupOps \cup MeetingOps \cup {"none"} /\ r.pc \in PcsOf(r.op)
  BY DEF RequestOK, Request, LoadedOK
<1>. QED BY <1>1 DEF PcsOf, GroupOps, MeetingOps, InAddMember, InCreateMeeting

\* What a deletion finds, kept in its request.
LEMMA FoundOK ==
  ASSUME TablesOK, NEW gs, NEW ms, NEW q \in Request, ArgumentsOK(q)
  PROVE  LET r == [q EXCEPT !.found = Dependents(gs, ms)]
         IN r \in Request /\ ArgumentsOK(r) /\ r.op = q.op /\ r.m = q.m
<1>. DEFINE found == Dependents(gs, ms)
            r == [q EXCEPT !.found = found]
<1>1. found \in [members : SUBSET Pair, pins : SUBSET Pair, entries : SUBSET Key]
  <2>1. EntriesOf(ms) \subseteq Key BY DEF TablesOK, IsTable, EntriesOf
  <2>. QED BY <2>1 DEF TablesOK, Dependents
<1>. HIDE DEF found
<1>2. /\ r \in Request
      /\ r.op = q.op /\ r.by = q.by /\ r.g = q.g /\ r.m = q.m /\ r.u = q.u
      /\ r.gname = q.gname /\ r.mbody = q.mbody /\ r.ebody = q.ebody /\ r.carry = q.carry
  BY <1>1 DEF Request
<1>. HIDE DEF r
<1>3. ArgumentsOK(r) BY <1>2 DEF ArgumentsOK
<1>. QED BY <1>2, <1>3 DEF r, found

LEMMA GroupStepOK ==
  ASSUME TypeInv, NEW w \in Worker, GroupStep(w)
  PROVE  Moves(w)
<1>. USE ErrorsAnswer DEF TypeInv
<1>0. RequestOK(req[w]) /\ req[w] \in Request /\ ArgumentsOK(req[w])
  BY DEF RequestsOK, RequestOK
<1>1. CASE CreateGroup(w)
  BY <1>1, AnswerOK DEF CreateGroup, Statuses
<1>2. CASE GetGroup(w)
  <2>1. Answers(GroupErrors(req[w].op))
    BY <1>2 DEF GetGroup, GroupErrors, GetGroupOps, GroupOps
  <2>2. CASE Raise(w, GroupErrors(req[w].op), "GroupNotFound")
    BY <2>1, <2>2, RaiseOK
  <2>3. CASE Answer(w, 200)
    BY <2>3, AnswerOK DEF Statuses
  <2>4. CASE /\ ~(req[w].op = "PatchGroup" /\ req[w].gname = None)
             /\ Step(w, req[w], AfterGetGroup(req[w]))
    <3>. DEFINE pc == AfterGetGroup(req[w])
    <3>1. /\ pc \in {"update_group", "collect_group", "get_user", "remove_member",
                     "pin_select", "is_member", "unpin"}
          /\ pc \in PcsOf(req[w].op)
          /\ pc = "update_group" => req[w].op = "PatchGroup"
      BY <1>2 DEF AfterGetGroup, PcsOf, GetGroup, GetGroupOps, GroupOps
    <3>2. pc = "update_group" => req[w].gname \in Name
      BY <1>0, <2>4, <3>1 DEF Request
    <3>3. pc \in Pcs /\ pc \notin {"update_meeting", "update_entry"} \cup InCreateMeeting
      <4>. HIDE DEF pc
      <4>. QED BY <3>1 DEF Pcs, InCreateMeeting
    <3>. HIDE DEF pc
    <3>4. Step(w, req[w], pc) BY <2>4 DEF pc
    <3>. QED BY <3>1, <3>2, <3>3, <3>4, GoOnOK
  <2>. QED BY <1>2, <2>2, <2>3, <2>4 DEF GetGroup
<1>3. CASE UpdateGroup(w)
  BY <1>3, AnswerOK, RaiseOK DEF UpdateGroup, Statuses
<1>4. CASE CollectGroup(w)
  <2>. DEFINE s == MeetingsOf(req[w].g)
              r == [req[w] EXCEPT !.seen = s]
  <2>1. s \in SUBSET Meeting BY DEF MeetingsOf, TablesOK, IsTable
  <2>2. Step(w, r, "delete_dependents") BY <1>4 DEF CollectGroup
  <2>3. /\ r \in Request
        /\ r.op = req[w].op /\ r.by = req[w].by /\ r.g = req[w].g
    <3>. HIDE DEF s
    <3>. QED BY <1>0, <2>1 DEF Request
  <2>4. req[w].op = "DeleteGroup" BY <1>0, <1>4, OpOfPc DEF CollectGroup
  <2>. HIDE DEF r
  <2>5. ArgumentsOK(r) /\ LoadedOK(r, "delete_dependents") /\ "delete_dependents" \in Pcs
    BY <1>0, <2>3, <2>4 DEF ArgumentsOK, LoadedOK, PcsOf, Pcs, InCreateMeeting
  <2>. QED BY <2>2, <2>3, <2>5, StepOK DEF Moves, InCreateMeeting
<1>5. CASE DeleteGroupRows(w)
  BY <1>5, AnswerOK, RaiseOK DEF DeleteGroupRows, Statuses
<1>15. CASE DeleteDependents(w)
  <2>. DEFINE r == [req[w] EXCEPT !.found = Dependents({req[w].g}, req[w].seen)]
  <2>1. Step(w, r, "delete_group") BY <1>15 DEF DeleteDependents
  <2>2. req[w].op = "DeleteGroup" BY <1>0, <1>15, OpOfPc DEF DeleteDependents
  <2>3. r \in Request /\ ArgumentsOK(r) /\ r.op = "DeleteGroup"
    BY <1>0, <2>2, FoundOK
  <2>. HIDE DEF r
  <2>4. LoadedOK(r, "delete_group") /\ "delete_group" \in Pcs
    BY <2>3 DEF LoadedOK, PcsOf, Pcs, InCreateMeeting
  <2>. QED BY <2>1, <2>3, <2>4, StepOK DEF Moves, InCreateMeeting
<1>6. CASE IsMember(w)
  <2>. DEFINE pc == IF req[w].op = "PutPin" THEN "pin_select" ELSE "unpin"
  <2>1. CASE Step(w, req[w], pc)
    <3>1. req[w].op \in {"PutPin", "DeletePin"} BY <1>0, <1>6, OpOfPc DEF IsMember
    <3>2. pc \in PcsOf(req[w].op) /\ pc \in {"pin_select", "unpin"}
      BY <3>1 DEF PcsOf
    <3>. HIDE DEF pc
    <3>3. pc \in Pcs /\ pc \notin {"update_group", "update_meeting", "update_entry"}
                                  \cup InCreateMeeting
      BY <3>2 DEF Pcs, InCreateMeeting
    <3>. QED BY <2>1, <3>2, <3>3, GoOnOK
  <2>. QED BY <1>6, <2>1, RaiseOK DEF IsMember
<1>7. CASE PinSelect(w)
  <2>1. CASE Step(w, req[w], "pin_insert")
    <3>1. req[w].op = "PutPin" BY <1>0, <1>7, OpOfPc DEF PinSelect
    <3>2. "pin_insert" \in PcsOf(req[w].op) /\ "pin_insert" \in Pcs
      BY <3>1 DEF PcsOf, Pcs
    <3>. QED BY <2>1, <3>2, GoOnOK DEF InCreateMeeting
  <2>. QED BY <1>7, <2>1, AnswerOK DEF PinSelect, Statuses
<1>8. CASE PinInsert(w)
  <2>1. CASE Step(w, req[w], "pin_reget")
    <3>1. req[w].op = "PutPin" BY <1>0, <1>8, OpOfPc DEF PinInsert
    <3>2. "pin_reget" \in PcsOf(req[w].op) /\ "pin_reget" \in Pcs
      BY <3>1 DEF PcsOf, Pcs
    <3>. QED BY <2>1, <3>2, GoOnOK DEF InCreateMeeting
  <2>. QED BY <1>8, <2>1, AnswerOK DEF PinInsert, Statuses
<1>9. CASE PinReget(w)
  BY <1>9, AnswerOK, RaiseOK DEF PinReget, Statuses
<1>10. CASE Unpin(w)
  BY <1>10, AnswerOK DEF Unpin, Statuses
<1>11. CASE GetUser(w)
  <2>1. CASE /\ req[w].u \in DOMAIN role
             /\ Step(w, [req[w] EXCEPT !.trole = role[req[w].u]], "insert_member")
    <3>. DEFINE t == role[req[w].u]
                r == [req[w] EXCEPT !.trole = t]
    <3>1. t \in Roles BY <2>1 DEF TablesOK, IsTable
    <3>2. Step(w, r, "insert_member") BY <2>1
    <3>3. /\ r \in Request
          /\ r.op = req[w].op /\ r.by = req[w].by /\ r.g = req[w].g /\ r.u = req[w].u
          /\ r.carry = req[w].carry
      <4>. HIDE DEF t
      <4>. QED BY <1>0, <3>1 DEF Request
    <3>4. req[w].op = "PostMember" BY <1>0, <1>11, OpOfPc DEF GetUser
    <3>. HIDE DEF r
    <3>5. ArgumentsOK(r) /\ LoadedOK(r, "insert_member") /\ "insert_member" \in Pcs
      BY <1>0, <3>3, <3>4 DEF ArgumentsOK, LoadedOK, PcsOf, Pcs, InCreateMeeting
    <3>. QED BY <3>2, <3>3, <3>5, StepOK DEF Moves, InCreateMeeting
  <2>. QED BY <1>11, <2>1, RaiseOK DEF GetUser
<1>12. CASE InsertMember(w)
  <2>. DEFINE pc == IF req[w].trole = "GUEST" THEN "commit_member" ELSE "open_meetings"
  <2>1. CASE Step(w, req[w], pc)
    <3>1. req[w].op = "PostMember" BY <1>0, <1>12, OpOfPc DEF InsertMember
    <3>2. pc \in PcsOf(req[w].op) /\ pc \in InAddMember
      BY <3>1 DEF PcsOf, InAddMember
    <3>. HIDE DEF pc
    <3>3. pc \in Pcs /\ pc \notin {"update_group", "update_meeting", "update_entry"}
                                  \cup InCreateMeeting
      BY <3>2 DEF Pcs, InCreateMeeting, InAddMember
    <3>. QED BY <2>1, <3>2, <3>3, GoOnOK
  <2>. QED BY <1>12, <2>1, RaiseOK DEF InsertMember
<1>13. CASE CommitMember(w)
  BY <1>13, AnswerOK, RaiseOK DEF CommitMember, Statuses
<1>14. CASE RemoveMember(w)
  BY <1>14, AnswerOK, RaiseOK DEF RemoveMember, Statuses
<1>. QED BY <1>1, <1>2, <1>3, <1>4, <1>5, <1>6, <1>7, <1>8, <1>9, <1>10, <1>11, <1>12,
            <1>13, <1>14, <1>15 DEF GroupStep

\* What the carry-over queries return: texts, one per user asked for.
LEMMA LatestWillDoType ==
  ASSUME TablesOK, NEW g, NEW u
  PROVE  LatestWillDo(g, u) \subseteq Text
<1>1. \A k \in WillDos(g, u) : k \in DOMAIN entries
  BY DEF WillDos, EntriesOf
<1>2. \A k \in DOMAIN entries : entries[k].text["will_do"] \in Text
  BY DataAssumption DEF TablesOK, IsTable, EntryRow
<1>3. Blank \in Text BY DataAssumption
<1>. QED BY <1>1, <1>2, <1>3 DEF LatestWillDo

LEMMA CarryType ==
  ASSUME NEW us \in SUBSET User, NEW f \in [us -> Text]
  PROVE  f \in PartialFn(User, Text)
BY DEF PartialFn

LEMMA MeetingStepOK ==
  ASSUME TypeInv, NEW w \in Worker, MeetingStep(w), ~InsertMeeting(w)
  PROVE  Moves(w)
<1>. USE ErrorsAnswer DEF TypeInv
<1>0. RequestOK(req[w]) /\ req[w] \in Request /\ ArgumentsOK(req[w])
  BY DEF RequestsOK, RequestOK
<1>1. CASE OpenMeetings(w)
  <2>. DEFINE open == {m \in MeetingsOf(req[w].g) : ~meetings[m].completed}
              r == [req[w] EXCEPT !.seen = open]
              pc == IF open = {} THEN "commit_member" ELSE "latest_will_do"
  <2>1. open \in SUBSET Meeting BY DEF MeetingsOf, TablesOK, IsTable
  <2>2. Step(w, r, pc) BY <1>1 DEF OpenMeetings
  <2>3. /\ r \in Request
        /\ r.op = req[w].op /\ r.by = req[w].by /\ r.g = req[w].g /\ r.u = req[w].u
        /\ r.carry = req[w].carry
    <3>. HIDE DEF open
    <3>. QED BY <1>0, <2>1 DEF Request
  <2>4. req[w].op = "PostMember" BY <1>0, <1>1, OpOfPc DEF OpenMeetings, InAddMember
  <2>5. pc \in {"commit_member", "latest_will_do"} OBVIOUS
  <2>. HIDE DEF r, pc
  <2>6. ArgumentsOK(r) /\ LoadedOK(r, pc) /\ pc \in Pcs /\ pc \notin InCreateMeeting
    BY <1>0, <2>3, <2>4, <2>5 DEF ArgumentsOK, LoadedOK, PcsOf, Pcs, InCreateMeeting,
                                  InAddMember
  <2>. QED BY <2>2, <2>3, <2>6, StepOK DEF Moves
<1>2. CASE SelectLatestWillDo(w)
  <2>1. PICK t \in LatestWillDo(req[w].g, req[w].u) :
           Step(w, [req[w] EXCEPT !.carry = [u \in {req[w].u} |-> t]], "commit_member")
    BY <1>2 DEF SelectLatestWillDo
  <2>. DEFINE f == [u \in {req[w].u} |-> t]
              r == [req[w] EXCEPT !.carry = f]
  <2>2. req[w].op = "PostMember" BY <1>0, <1>2, OpOfPc DEF SelectLatestWillDo, InAddMember
  <2>3. t \in Text BY LatestWillDoType
  <2>4. f \in PartialFn(User, Text)
    <3>1. {req[w].u} \in SUBSET User BY <1>0, <2>2 DEF ArgumentsOK
    <3>2. f \in [{req[w].u} -> Text] BY <2>3
    <3>. QED BY <3>1, <3>2, CarryType
  <2>5. Step(w, r, "commit_member") BY <2>1
  <2>6. DOMAIN f = {req[w].u} OBVIOUS
  <2>7. /\ r \in Request
        /\ r.op = req[w].op /\ r.by = req[w].by /\ r.g = req[w].g /\ r.u = req[w].u
        /\ r.carry = f
    <3>. HIDE DEF f
    <3>. QED BY <1>0, <2>4 DEF Request
  <2>. HIDE DEF r, f
  <2>8. ArgumentsOK(r) /\ LoadedOK(r, "commit_member") /\ "commit_member" \in Pcs
    BY <1>0, <2>2, <2>6, <2>7 DEF ArgumentsOK, LoadedOK, PcsOf, Pcs, InCreateMeeting,
                                  InAddMember
  <2>. QED BY <2>5, <2>7, <2>8, StepOK DEF Moves, InCreateMeeting
<1>3. CASE GetGroupOfMeeting(w)
  <2>1. CASE Step(w, req[w], "insert_meeting")
    <3>1. "insert_meeting" \in PcsOf(req[w].op) /\ "insert_meeting" \in Pcs
      BY <1>3 DEF GetGroupOfMeeting, PcsOf, Pcs
    <3>. QED BY <2>1, <3>1, GoOnOK DEF InCreateMeeting
  <2>. QED BY <1>3, <2>1, RaiseOK DEF GetGroupOfMeeting
<1>4. CASE ReadMembers(w)
  <2>. DEFINE us == {u \in DOMAIN role : <<u, req[w].g>> \in members /\ role[u] # "GUEST"}
              f == [u \in us |-> Blank]
              r == [req[w] EXCEPT !.carry = f]
              pc == IF us = {} THEN "commit_meeting" ELSE "carry_over"
  <2>1. req[w].op = "PostMeeting" /\ req[w].pc = "read_members"
    BY <1>0, <1>4, OpOfPc DEF ReadMembers, InCreateMeeting
  <2>2. f \in PartialFn(User, Text)
    <3>1. us \in SUBSET User BY DEF TablesOK, IsTable
    <3>. HIDE DEF us
    <3>2. f \in [us -> Text] BY DataAssumption
    <3>. QED BY <3>1, <3>2, CarryType
  <2>3. Step(w, r, pc) BY <1>4 DEF ReadMembers
  <2>4. /\ r \in Request
        /\ r.op = req[w].op /\ r.by = req[w].by /\ r.g = req[w].g /\ r.m = req[w].m
        /\ r.mbody = req[w].mbody
    <3>. HIDE DEF f
    <3>. QED BY <1>0, <2>2 DEF Request
  <2>5. pc \in {"commit_meeting", "carry_over"} OBVIOUS
  <2>6. req[w].m \in Meeting
    BY <1>0, <2>1 DEF RequestOK, LoadedOK, InCreateMeeting
  <2>. HIDE DEF r, pc
  <2>7. ArgumentsOK(r) /\ LoadedOK(r, pc) /\ pc \in Pcs
    BY <1>0, <2>1, <2>4, <2>5, <2>6 DEF ArgumentsOK, LoadedOK, PcsOf, Pcs, InCreateMeeting
  <2>. QED BY <2>1, <2>3, <2>4, <2>7, StepOK DEF Moves, InCreateMeeting
<1>5. CASE CollectCarryOver(w)
  <2>1. PICK f \in CarryOver(req[w].g, DOMAIN req[w].carry) :
           Step(w, [req[w] EXCEPT !.carry = f], "commit_meeting")
    BY <1>5 DEF CollectCarryOver
  <2>. DEFINE r == [req[w] EXCEPT !.carry = f]
  <2>2. req[w].op = "PostMeeting" /\ req[w].pc = "carry_over"
    BY <1>0, <1>5, OpOfPc DEF CollectCarryOver, InCreateMeeting
  <2>3. f \in PartialFn(User, Text)
    <3>1. f \in [DOMAIN req[w].carry -> Text] BY <2>1 DEF CarryOver
    <3>2. req[w].carry \in PartialFn(User, Text) BY <1>0 DEF Request
    <3>3. DOMAIN req[w].carry \in SUBSET User BY <3>2 DEF PartialFn
    <3>. QED BY <3>1, <3>3, CarryType
  <2>4. Step(w, r, "commit_meeting") BY <2>1
  <2>5. /\ r \in Request
        /\ r.op = req[w].op /\ r.by = req[w].by /\ r.g = req[w].g /\ r.m = req[w].m
        /\ r.mbody = req[w].mbody
    BY <1>0, <2>3 DEF Request
  <2>6. req[w].m \in Meeting
    BY <1>0, <2>2 DEF RequestOK, LoadedOK, InCreateMeeting
  <2>. HIDE DEF r
  <2>7. ArgumentsOK(r) /\ LoadedOK(r, "commit_meeting") /\ "commit_meeting" \in Pcs
    BY <1>0, <2>2, <2>5, <2>6 DEF ArgumentsOK, LoadedOK, PcsOf, Pcs, InCreateMeeting
  <2>. QED BY <2>2, <2>4, <2>5, <2>7, StepOK DEF Moves, InCreateMeeting
<1>6. CASE CommitMeeting(w)
  BY <1>6, AnswerOK, RaiseOK DEF CommitMeeting, Statuses
<1>7. CASE GetMeeting(w)
  <2>1. Answers(MeetingErrors(req[w].op)) BY DEF MeetingErrors
  <2>2. CASE Raise(w, MeetingErrors(req[w].op), "MeetingNotFound")
    BY <2>1, <2>2, RaiseOK
  <2>3. CASE \E e \in EntryDenied(req[w]) : Raise(w, EntriesDetailErrors, e)
    BY <2>3, RaiseOK
  <2>4. CASE Answer(w, 200)
    BY <2>4, AnswerOK DEF Statuses
  <2>5. CASE /\ req[w].m \in DOMAIN meetings /\ req[w].op = "PatchMeeting"
             /\ Step(w, [req[w] EXCEPT !.mrow = meetings[req[w].m]], "update_meeting")
    <3>. DEFINE row == meetings[req[w].m]
                r == [req[w] EXCEPT !.mrow = row]
    <3>1. row \in MeetingRow BY <2>5 DEF TablesOK, IsTable
    <3>2. Step(w, r, "update_meeting") BY <2>5
    <3>3. /\ r \in Request
          /\ r.op = req[w].op /\ r.by = req[w].by /\ r.m = req[w].m
          /\ r.mbody = req[w].mbody /\ r.mrow = row
      <4>. HIDE DEF row
      <4>. QED BY <1>0, <3>1 DEF Request
    <3>. HIDE DEF r
    <3>4. ArgumentsOK(r) /\ LoadedOK(r, "update_meeting") /\ "update_meeting" \in Pcs
      BY <1>0, <2>5, <3>1, <3>3 DEF ArgumentsOK, LoadedOK, PcsOf, Pcs, InCreateMeeting,
                                    GetGroupOps, GroupOps
    <3>. QED BY <3>2, <3>3, <3>4, StepOK DEF Moves, InCreateMeeting
  <2>6. CASE req[w].op = "DeleteMeeting" /\ Step(w, req[w], "delete_entries")
    <3>1. "delete_entries" \in PcsOf(req[w].op) /\ "delete_entries" \in Pcs
      BY <2>6 DEF PcsOf, Pcs
    <3>. QED BY <2>6, <3>1, GoOnOK DEF InCreateMeeting
  <2>7. CASE req[w].op = "PatchEntry" /\ Step(w, req[w], "get_entry")
    <3>1. "get_entry" \in PcsOf(req[w].op) /\ "get_entry" \in Pcs
      BY <2>7 DEF PcsOf, Pcs
    <3>. QED BY <2>7, <3>1, GoOnOK DEF InCreateMeeting
  <2>. QED BY <1>7, <2>2, <2>3, <2>4, <2>5, <2>6, <2>7 DEF GetMeeting
<1>8. CASE UpdateMeeting(w)
  BY <1>8, AnswerOK, RaiseOK DEF UpdateMeeting, Statuses
<1>9. CASE DeleteMeetingRows(w)
  BY <1>9, AnswerOK, RaiseOK DEF DeleteMeetingRows, Statuses
<1>12. CASE DeleteEntries(w)
  <2>. DEFINE r == [req[w] EXCEPT !.found = Dependents({}, {req[w].m})]
  <2>1. Step(w, r, "delete_meeting") BY <1>12 DEF DeleteEntries
  <2>2. req[w].op = "DeleteMeeting" BY <1>0, <1>12, OpOfPc DEF DeleteEntries
  <2>3. r \in Request /\ ArgumentsOK(r) /\ r.op = "DeleteMeeting"
    BY <1>0, <2>2, FoundOK
  <2>. HIDE DEF r
  <2>4. LoadedOK(r, "delete_meeting") /\ "delete_meeting" \in Pcs
    BY <2>3 DEF LoadedOK, PcsOf, Pcs, InCreateMeeting
  <2>. QED BY <2>1, <2>3, <2>4, StepOK DEF Moves, InCreateMeeting
<1>10. CASE GetEntry(w)
  <2>. DEFINE k == <<req[w].m, req[w].u>>
              row == entries[k]
              r == [req[w] EXCEPT !.erow = row]
  <2>1. CASE /\ k \in DOMAIN entries /\ Step(w, r, "update_entry")
             /\ \E f \in Field : req[w].ebody[f] # None
    <3>1. row \in EntryRow BY <2>1 DEF TablesOK, IsTable
    <3>2. Step(w, r, "update_entry") BY <2>1
    <3>3. req[w].op = "PatchEntry" BY <1>0, <1>10, OpOfPc DEF GetEntry
    <3>4. /\ r \in Request
          /\ r.op = req[w].op /\ r.by = req[w].by /\ r.m = req[w].m /\ r.u = req[w].u
          /\ r.ebody = req[w].ebody /\ r.erow = row
      <4>. HIDE DEF row
      <4>. QED BY <1>0, <3>1 DEF Request
    <3>. HIDE DEF r
    <3>5. ArgumentsOK(r) /\ LoadedOK(r, "update_entry") /\ "update_entry" \in Pcs
      BY <1>0, <2>1, <3>1, <3>3, <3>4 DEF ArgumentsOK, LoadedOK, PcsOf, Pcs, InCreateMeeting,
                                          GetGroupOps, GroupOps
    <3>. QED BY <3>2, <3>4, <3>5, StepOK DEF Moves, InCreateMeeting
  <2>2. CASE Answer(w, 200) BY <2>2, AnswerOK DEF Statuses
  <2>3. CASE Raise(w, EntriesDetailErrors, "EntryNotFound") BY <2>3, RaiseOK
  <2>. QED BY <1>10, <2>1, <2>2, <2>3 DEF GetEntry
<1>11. CASE UpdateEntry(w)
  BY <1>11, AnswerOK, RaiseOK DEF UpdateEntry, Statuses
<1>. QED BY <1>1, <1>2, <1>3, <1>4, <1>5, <1>6, <1>7, <1>8, <1>9, <1>10, <1>11, <1>12
         DEF MeetingStep

\* The one statement that puts a request inside a meeting's transaction draws
\* an id nobody has.
LEMMA InsertMeetingOK ==
  ASSUME TypeInv, NEW w \in Worker, InsertMeeting(w)
  PROVE  /\ RequestsOK'
         /\ \A v \in Worker \ {w} : req'[v] = req[v]
         /\ req'[w].m \in Meeting \ (DOMAIN meetings \cup deleted \cup DrawnMeetings)
<1>. USE DEF TypeInv
<1>1. PICK m \in Meeting \ (DOMAIN meetings \cup deleted \cup DrawnMeetings) :
         Step(w, [req[w] EXCEPT !.m = m], "read_members")
  BY DEF InsertMeeting
<1>. DEFINE r == [req[w] EXCEPT !.m = m]
<1>2. RequestOK(req[w]) /\ req[w] \in Request /\ ArgumentsOK(req[w])
  BY DEF RequestsOK, RequestOK
<1>3. req[w].op = "PostMeeting" BY <1>2, OpOfPc DEF InsertMeeting
<1>4. Step(w, r, "read_members") BY <1>1
<1>5. /\ r \in Request
      /\ r.op = req[w].op /\ r.by = req[w].by /\ r.g = req[w].g /\ r.m = m
      /\ r.mbody = req[w].mbody
  BY <1>2 DEF Request
<1>. HIDE DEF r
<1>6. ArgumentsOK(r) /\ LoadedOK(r, "read_members") /\ "read_members" \in Pcs
  BY <1>2, <1>3, <1>5 DEF ArgumentsOK, LoadedOK, PcsOf, Pcs, InCreateMeeting
<1>. QED BY <1>4, <1>5, <1>6, StepOK

\* A request that dies answers 500.
LEMMA DeathOK ==
  ASSUME RequestsOK, NEW w \in Worker, Abort(w) \/ StatementTimeout(w)
  PROVE  Moves(w)
BY AnswerOK DEF Abort, StatementTimeout, Statuses

-----------------------------------------------------------------------------
(***************************************************************************)
(* Tables: what the operators on them return.                              *)
(***************************************************************************)
\* A row put into a table.
LEMMA PutRow ==
  ASSUME NEW S, NEW R, NEW t, IsTable(t, S, R), NEW k \in S, NEW row \in R
  PROVE  /\ IsTable([x \in DOMAIN t \cup {k} |-> IF x = k THEN row ELSE t[x]], S, R)
         /\ k \in DOMAIN t => IsTable([t EXCEPT ![k] = row], S, R)
BY DEF IsTable

\* Rows taken from a table.
LEMMA WithoutOK ==
  ASSUME NEW S, NEW R, NEW t, IsTable(t, S, R), NEW D
  PROVE  IsTable(Without(t, D), S, R)
BY DEF IsTable, Without

\* The rows of a backfill or of a new meeting.
LEMMA NewEntriesOK ==
  ASSUME NEW ms \in SUBSET Meeting, NEW carry \in PartialFn(User, Text)
  PROVE  /\ IsTable(NewEntries(ms, carry), Key, EntryRow)
         /\ DOMAIN NewEntries(ms, carry) = ms \X DOMAIN carry
<1>1. DOMAIN carry \subseteq User /\ \A u \in DOMAIN carry : carry[u] \in Text
  BY DEF PartialFn
<1>2. ASSUME NEW t \in Text PROVE NewEntry(t) \in EntryRow
  <2>1. [[f \in Field |-> Blank] EXCEPT !["promised"] = t] \in [Field -> Text]
    BY DataAssumption
  <2>. QED BY <2>1 DEF NewEntry, EntryRow
<1>3. ms \X DOMAIN carry \subseteq Key BY <1>1 DEF Key
<1>4. \A k \in ms \X DOMAIN carry : NewEntry(carry[k[2]]) \in EntryRow
  BY <1>1, <1>2
<1>. QED BY <1>3, <1>4 DEF NewEntries, IsTable

\* Entries inserted where there are none.
LEMMA InsertMissingOK ==
  ASSUME TablesOK, NEW new, IsTable(new, Key, EntryRow)
  PROVE  /\ IsTable(InsertMissing(new), Key, EntryRow)
         /\ DOMAIN InsertMissing(new) = DOMAIN entries \cup DOMAIN new
BY DEF TablesOK, IsTable, InsertMissing

-----------------------------------------------------------------------------
(***************************************************************************)
(* The tables, statement by statement.                                     *)
(***************************************************************************)
\* What each step keeps true of the tables, and the meeting ids that are
\* taken: those of rows and those of rows deleted.
TablesInv == TablesOK /\ RefIntegrity /\ NoResurrection
Taken == Meeting \cap (DOMAIN meetings \cup deleted)

LEMMA DbUnchanged ==
  ASSUME TablesInv, UNCHANGED db
  PROVE  TablesInv' /\ Taken' = Taken
BY DEF TablesInv, db, TablesOK, RefIntegrity, NoResurrection, Taken, IsTable, MeetingsOf

\* A cascade takes every row that refers to what it deletes: the meetings it
\* read must be all of the groups' meetings.
LEMMA CascadeOK ==
  ASSUME TablesInv, NEW gs \in SUBSET Group, NEW ms \in SUBSET Meeting,
         NEW us \in SUBSET User, Cascade(gs, ms, us),
         \A g \in gs : MeetingsOf(g) \subseteq ms
  PROVE  TablesInv' /\ Taken' = Taken
<1>. DEFINE D == {k \in DOMAIN entries : k[1] \in ms \/ k[2] \in us}
<1>1. /\ IsTable(role, User, Roles) /\ IsTable(name, Group, Name)
      /\ IsTable(meetings, Meeting, MeetingRow) /\ IsTable(entries, Key, EntryRow)
      /\ members \subseteq Pair /\ pins \subseteq Pair
      /\ clock \in Nat /\ deleted \subseteq User \cup Group \cup Meeting
  BY DEF TablesInv, TablesOK
<1>2. /\ role' = Without(role, us) /\ name' = Without(name, gs)
      /\ meetings' = Without(meetings, ms) /\ entries' = Without(entries, D)
      /\ members' = {p \in members : p[1] \notin us /\ p[2] \notin gs}
      /\ pins' = {p \in pins : p[1] \notin us /\ p[2] \notin gs}
      /\ deleted' = deleted \cup (gs \cap DOMAIN name) \cup (ms \cap DOMAIN meetings)
                            \cup (us \cap DOMAIN role)
      /\ clock' = clock
  BY DEF Cascade
<1>. HIDE DEF D
<1>3. /\ IsTable(role', User, Roles) /\ IsTable(name', Group, Name)
      /\ IsTable(meetings', Meeting, MeetingRow) /\ IsTable(entries', Key, EntryRow)
  BY <1>1, <1>2, WithoutOK
<1>4. /\ DOMAIN role' = DOMAIN role \ us
      /\ DOMAIN name' = DOMAIN name \ gs
      /\ DOMAIN meetings' = DOMAIN meetings \ ms
      /\ DOMAIN entries' = DOMAIN entries \ D
      /\ \A m \in DOMAIN meetings' : meetings'[m] = meetings[m]
  <2>1. DOMAIN role' = DOMAIN role \ us BY <1>2 DEF Without
  <2>2. DOMAIN name' = DOMAIN name \ gs BY <1>2 DEF Without
  <2>3. /\ DOMAIN meetings' = DOMAIN meetings \ ms
        /\ \A m \in DOMAIN meetings \ ms : meetings'[m] = meetings[m]
    BY <1>2 DEF Without
  <2>4. DOMAIN entries' = DOMAIN entries \ D BY <1>2 DEF Without
  <2>. QED BY <2>1, <2>2, <2>3, <2>4
<1>5. deleted' \subseteq User \cup Group \cup Meeting
  BY <1>1, <1>2
<1>6. TablesOK'
  BY <1>1, <1>2, <1>3, <1>5 DEF TablesOK, IsTable
<1>7. RefIntegrity'
  <2>1. \A p \in members' \cup pins' : p[1] \in DOMAIN role' /\ p[2] \in DOMAIN name'
    BY <1>2, <1>4 DEF TablesInv, RefIntegrity
  <2>2. \A m \in DOMAIN meetings' : meetings'[m].group \in DOMAIN name'
    BY <1>4 DEF TablesInv, RefIntegrity, MeetingsOf
  <2>3. \A k \in DOMAIN entries' : k[1] \in DOMAIN meetings' /\ k[2] \in DOMAIN role'
    BY <1>4 DEF TablesInv, RefIntegrity, D
  <2>. QED BY <2>1, <2>2, <2>3 DEF RefIntegrity
<1>8. NoResurrection'
  <2>1. /\ DOMAIN role \subseteq User /\ DOMAIN name \subseteq Group
        /\ DOMAIN meetings \subseteq Meeting
    BY <1>1 DEF IsTable
  <2>. QED BY <2>1, <1>2, <1>4, DataAssumption DEF TablesInv, NoResurrection
<1>9. Taken' = Taken
  <2>1. DOMAIN role \subseteq User /\ DOMAIN name \subseteq Group
    BY <1>1 DEF IsTable
  <2>2. Meeting \cap ((us \cap DOMAIN role) \cup (gs \cap DOMAIN name)) = {}
    BY <2>1, DataAssumption
  <2>. QED BY <2>2, <1>2, <1>4 DEF Taken
<1>. QED BY <1>6, <1>7, <1>8, <1>9 DEF TablesInv

\* A new row, or a column of a row, in one of the tables other rows refer to.
LEMMA GroupRowOK ==
  ASSUME TablesInv, NEW g \in Group \ deleted, NEW n \in Name,
         name' = [h \in DOMAIN name \cup {g} |-> IF h = g THEN n ELSE name[h]],
         UNCHANGED <<role, members, pins, meetings, entries, clock, deleted>>
  PROVE  TablesInv' /\ Taken' = Taken
<1>1. IsTable(name', Group, Name)
  <2>1. IsTable(name, Group, Name) BY DEF TablesInv, TablesOK
  <2>. QED BY <2>1 DEF IsTable
<1>2. TablesOK' BY <1>1 DEF TablesInv, TablesOK, IsTable
<1>3. RefIntegrity' BY DEF TablesInv, RefIntegrity
<1>4. NoResurrection' BY DEF TablesInv, NoResurrection
<1>. QED BY <1>2, <1>3, <1>4 DEF TablesInv, Taken

\* Steps that only take or put pins and memberships.
LEMMA PairsOK ==
  ASSUME TablesInv,
         \A p \in members' \ members : p \in (DOMAIN role) \X (DOMAIN name),
         \A p \in pins' \ pins : p \in (DOMAIN role) \X (DOMAIN name),
         UNCHANGED <<role, name, meetings, entries, clock, deleted>>
  PROVE  TablesInv' /\ Taken' = Taken
<1>1. members' \subseteq Pair /\ pins' \subseteq Pair
  BY DEF TablesInv, TablesOK, IsTable, Pair
<1>2. TablesOK' BY <1>1 DEF TablesInv, TablesOK, IsTable
<1>3. RefIntegrity' BY DEF TablesInv, RefIntegrity
<1>4. NoResurrection' BY DEF TablesInv, NoResurrection
<1>. QED BY <1>2, <1>3, <1>4 DEF TablesInv, Taken

\* Every statement of the groups app keeps the tables in order and takes no
\* meeting id.
LEMMA GroupStepTables ==
  ASSUME TablesInv, RequestsOK, NEW w \in Worker, GroupStep(w)
  PROVE  TablesInv' /\ Taken' = Taken
<1>0. RequestOK(req[w]) /\ req[w] \in Request /\ ArgumentsOK(req[w])
      /\ LoadedOK(req[w], req[w].pc)
  BY DEF RequestsOK, RequestOK
<1>1. CASE CreateGroup(w)
  <2>1. PICK g \in Group \ (DOMAIN name \cup deleted) :
          name' = [h \in DOMAIN name \cup {g} |-> IF h = g THEN req[w].gname ELSE name[h]]
    BY <1>1 DEF CreateGroup
  <2>2. req[w].gname \in Name
    BY <1>0, <1>1, OpOfPc DEF CreateGroup, ArgumentsOK
  <2>. QED BY <1>1, <2>1, <2>2, GroupRowOK DEF CreateGroup
<1>2. CASE UpdateGroup(w)
  <2>1. CASE req[w].g \in DOMAIN name /\ name' = [name EXCEPT ![req[w].g] = req[w].gname]
    <3>. DEFINE g == req[w].g
    <3>1. req[w].gname \in Name BY <1>0, <1>2 DEF UpdateGroup, LoadedOK
    <3>2. g \in Group \ deleted
      BY <2>1 DEF TablesInv, TablesOK, IsTable, NoResurrection
    <3>3. name' = [h \in DOMAIN name \cup {g} |-> IF h = g THEN req[w].gname ELSE name[h]]
      BY <2>1 DEF TablesInv, TablesOK, IsTable
    <3>. HIDE DEF g
    <3>. QED BY <1>2, <3>1, <3>2, <3>3, GroupRowOK DEF UpdateGroup
  <2>2. CASE UNCHANGED name
    BY <1>2, <2>2, DbUnchanged DEF UpdateGroup, db
  <2>. QED BY <1>2, <2>1, <2>2 DEF UpdateGroup
<1>3. CASE DeleteGroupRows(w)
  <2>1. CASE MeetingsOf(req[w].g) \subseteq req[w].seen
             /\ Cascade({req[w].g}, req[w].seen, {})
    <3>1. req[w].g \in Group
      BY <1>0, <1>3, OpOfPc DEF DeleteGroupRows, ArgumentsOK, GetGroupOps, GroupOps
    <3>2. req[w].seen \in SUBSET Meeting BY <1>0 DEF Request
    <3>. QED BY <2>1, <3>1, <3>2, CascadeOK
  <2>2. CASE UNCHANGED db BY <2>2, DbUnchanged
  <2>. QED BY <1>3, <2>1, <2>2 DEF DeleteGroupRows
<1>4. CASE PinInsert(w)
  <2>1. CASE /\ req[w].by \in DOMAIN role /\ req[w].g \in DOMAIN name
             /\ pins' = pins \cup {<<req[w].by, req[w].g>>}
    BY <1>4, <2>1, PairsOK DEF PinInsert
  <2>2. CASE UNCHANGED pins
    BY <1>4, <2>2, DbUnchanged DEF PinInsert, db
  <2>. QED BY <1>4, <2>1, <2>2 DEF PinInsert
<1>5. CASE Unpin(w) BY <1>5, PairsOK DEF Unpin
<1>6. CASE RemoveMember(w)
  <2>1. members' \subseteq members BY <1>6 DEF RemoveMember
  <2>. QED BY <1>6, <2>1, PairsOK DEF RemoveMember
<1>7. CASE CommitMember(w)
  <2>. DEFINE new == NewEntries(req[w].seen, req[w].carry)
  <2>1. CASE UNCHANGED <<members, entries>>
    BY <1>7, <2>1, DbUnchanged DEF CommitMember, db
  <2>2. CASE /\ req[w].u \in DOMAIN role /\ req[w].g \in DOMAIN name
             /\ req[w].seen \subseteq DOMAIN meetings
             /\ members' = members \cup {<<req[w].u, req[w].g>>}
             /\ entries' = InsertMissing(new)
    <3>1. req[w].seen \in SUBSET Meeting /\ req[w].carry \in PartialFn(User, Text)
      BY <1>0 DEF Request
    <3>2. IsTable(new, Key, EntryRow) /\ DOMAIN new = req[w].seen \X DOMAIN req[w].carry
      BY <3>1, NewEntriesOK
    <3>3. DOMAIN req[w].carry \subseteq {req[w].u}
      BY <1>0, <1>7, OpOfPc DEF CommitMember, ArgumentsOK, InAddMember
    <3>. HIDE DEF new
    <3>4. /\ IsTable(entries', Key, EntryRow)
          /\ DOMAIN entries' = DOMAIN entries \cup DOMAIN new
      BY <2>2, <3>2, InsertMissingOK DEF TablesInv
    <3>5. members' \subseteq Pair
      BY <2>2 DEF TablesInv, TablesOK, IsTable, Pair
    <3>6. UNCHANGED <<role, name, pins, meetings, clock, deleted>>
      BY <1>7 DEF CommitMember
    <3>7. TablesOK' BY <3>4, <3>5, <3>6 DEF TablesInv, TablesOK, IsTable
    <3>8. RefIntegrity'
      <4>1. \A p \in members' \cup pins' : p[1] \in DOMAIN role' /\ p[2] \in DOMAIN name'
        BY <2>2, <3>6 DEF TablesInv, RefIntegrity
      <4>2. \A k \in DOMAIN new : k[1] \in DOMAIN meetings /\ k[2] \in DOMAIN role
        BY <2>2, <3>2, <3>3
      <4>. QED BY <3>4, <3>6, <4>1, <4>2 DEF TablesInv, RefIntegrity
    <3>9. NoResurrection' BY <3>6 DEF TablesInv, NoResurrection
    <3>. QED BY <3>6, <3>7, <3>8, <3>9 DEF TablesInv, Taken
  <2>. QED BY <1>7, <2>1, <2>2 DEF CommitMember
<1>8. CASE UNCHANGED db BY <1>8, DbUnchanged
<1>. QED BY <1>1, <1>2, <1>3, <1>4, <1>5, <1>6, <1>7, <1>8
         DEF GroupStep, GetGroup, CollectGroup, DeleteDependents, IsMember, PinSelect, PinReget,
             GetUser, InsertMember

\* CommitMeeting takes the id it drew; every other statement of the meetings
\* app takes none.
LEMMA MeetingStepTables ==
  ASSUME TablesInv, RequestsOK, DrawnIdsFresh, NEW w \in Worker, MeetingStep(w)
  PROVE  /\ TablesInv'
         /\ Taken' \subseteq Taken \cup (IF req[w].pc \in InCreateMeeting THEN {req[w].m} ELSE {})
         /\ req[w].pc \in InCreateMeeting /\ Taken' # Taken => req[w].pc = "commit_meeting"
<1>0. RequestOK(req[w]) /\ req[w] \in Request /\ ArgumentsOK(req[w])
      /\ LoadedOK(req[w], req[w].pc)
  BY DEF RequestsOK, RequestOK
<1>1. CASE CommitMeeting(w)
  <2>. DEFINE m == req[w].m
              new == NewEntries({m}, req[w].carry)
              row == [group |-> req[w].g, date |-> req[w].mbody.date, completed |-> FALSE]
  <2>0. req[w].pc = "commit_meeting" BY <1>1 DEF CommitMeeting
  <2>1. CASE UNCHANGED <<meetings, entries>>
    <3>1. UNCHANGED db BY <1>1, <2>1 DEF CommitMeeting, db
    <3>. QED BY <2>0, <3>1, DbUnchanged
  <2>2. CASE /\ req[w].g \in DOMAIN name
             /\ DOMAIN req[w].carry \subseteq DOMAIN role
             /\ meetings' = [k \in DOMAIN meetings \cup {m} |->
                                IF k = m THEN row ELSE meetings[k]]
             /\ entries' = InsertMissing(new)
    <3>1. m \in Meeting \ (DOMAIN meetings \cup deleted)
      BY <1>0, <2>0 DEF LoadedOK, DrawnIdsFresh, InCreateMeeting
    <3>2. row \in MeetingRow
      <4>1. req[w].op = "PostMeeting" BY <1>0, <2>0, OpOfPc DEF InCreateMeeting
      <4>2. req[w].g \in Group /\ req[w].mbody.date \in Date
        BY <1>0, <4>1 DEF ArgumentsOK
      <4>. QED BY <4>2 DEF MeetingRow
    <3>3. row.group = req[w].g OBVIOUS
    <3>4. IsTable(new, Key, EntryRow) /\ DOMAIN new = {m} \X DOMAIN req[w].carry
      <4>1. {m} \in SUBSET Meeting /\ req[w].carry \in PartialFn(User, Text)
        BY <1>0, <3>1 DEF Request
      <4>. QED BY <4>1, NewEntriesOK
    <3>. HIDE DEF m, new, row
    <3>5. IsTable(entries', Key, EntryRow) /\ DOMAIN entries' = DOMAIN entries \cup DOMAIN new
      BY <2>2, <3>4, InsertMissingOK DEF TablesInv
    <3>6. /\ IsTable(meetings', Meeting, MeetingRow)
          /\ DOMAIN meetings' = DOMAIN meetings \cup {m}
          /\ \A k \in DOMAIN meetings' : meetings'[k] = IF k = m THEN row ELSE meetings[k]
      <4>1. IsTable(meetings, Meeting, MeetingRow) BY DEF TablesInv, TablesOK
      <4>. QED BY <2>2, <3>1, <3>2, <4>1 DEF IsTable
    <3>7. UNCHANGED <<role, name, members, pins, clock, deleted>>
      BY <1>1 DEF CommitMeeting
    <3>8. TablesOK' BY <3>5, <3>6, <3>7 DEF TablesInv, TablesOK, IsTable
    <3>9. RefIntegrity'
      <4>1. \A p \in members' \cup pins' : p[1] \in DOMAIN role' /\ p[2] \in DOMAIN name'
        BY <3>7 DEF TablesInv, RefIntegrity
      <4>2. \A k \in DOMAIN meetings' : meetings'[k].group \in DOMAIN name'
        BY <2>2, <3>3, <3>6, <3>7 DEF TablesInv, RefIntegrity
      <4>3. \A k \in DOMAIN new : k[1] = m /\ k[2] \in DOMAIN role
        BY <2>2, <3>4
      <4>4. \A k \in DOMAIN entries' : k[1] \in DOMAIN meetings' /\ k[2] \in DOMAIN role'
        BY <3>5, <3>6, <3>7, <4>3 DEF TablesInv, RefIntegrity
      <4>. QED BY <4>1, <4>2, <4>4 DEF RefIntegrity
    <3>10. NoResurrection'
      <4>1. m \notin DOMAIN role' \cup DOMAIN name' \cup deleted'
        BY <3>1, <3>7, DataAssumption DEF TablesInv, TablesOK, IsTable
      <4>. QED BY <3>6, <3>7, <4>1 DEF TablesInv, NoResurrection
    <3>11. Taken' \subseteq Taken \cup {m} BY <3>6, <3>7 DEF Taken
    <3>. QED BY <2>0, <3>8, <3>9, <3>10, <3>11 DEF TablesInv, InCreateMeeting, m
  <2>. QED BY <1>1, <2>1, <2>2 DEF CommitMeeting
<1>2. CASE UpdateMeeting(w)
  <2>. DEFINE r == req[w]
              fields == {f \in {"date", "completed"} : r.mbody[f] # None}
              obj == [f \in DOMAIN r.mrow |-> IF f \in fields THEN r.mbody[f] ELSE r.mrow[f]]
              row == SaveFields(meetings[r.m], obj, fields)
  <2>1. CASE UNCHANGED meetings
    <3>1. UNCHANGED db BY <1>2, <2>1 DEF UpdateMeeting, db
    <3>. QED BY <3>1, DbUnchanged
  <2>2. CASE r.m \in DOMAIN meetings /\ meetings' = [meetings EXCEPT ![r.m] = row]
    <3>1. r.mrow \in MeetingRow /\ r.mbody \in MeetingBody
      <4>1. r.op = "PatchMeeting" BY <1>0, <1>2, OpOfPc DEF UpdateMeeting
      <4>. QED BY <1>0, <1>2, <4>1 DEF UpdateMeeting, ArgumentsOK, LoadedOK
    <3>2. meetings[r.m] \in MeetingRow
      BY <2>2 DEF TablesInv, TablesOK, IsTable
    <3>3. row \in MeetingRow /\ row.group = meetings[r.m].group
      <4>1. DOMAIN meetings[r.m] = {"group", "date", "completed"}
            /\ DOMAIN r.mrow = {"group", "date", "completed"}
        BY <3>1, <3>2 DEF MeetingRow
      <4>2. \A f \in fields : obj[f] = r.mbody[f] BY <4>1
      <4>3. /\ "date" \in fields => obj["date"] \in Date
            /\ "completed" \in fields => obj["completed"] \in BOOLEAN
        BY <3>1, <4>2 DEF MeetingBody
      <4>4. "group" \notin fields OBVIOUS
      <4>. HIDE DEF obj, fields
      <4>. QED BY <3>2, <4>1, <4>3, <4>4 DEF SaveFields, MeetingRow
    <3>. HIDE DEF row
    <3>4. IsTable(meetings', Meeting, MeetingRow) /\ DOMAIN meetings' = DOMAIN meetings
      <4>1. IsTable(meetings, Meeting, MeetingRow) BY DEF TablesInv, TablesOK
      <4>. QED BY <2>2, <3>3, <4>1 DEF IsTable
    <3>5. \A k \in DOMAIN meetings : meetings'[k].group = meetings[k].group
      BY <2>2, <3>3 DEF TablesInv, TablesOK, IsTable
    <3>6. UNCHANGED <<role, name, members, pins, entries, clock, deleted>>
      BY <1>2 DEF UpdateMeeting
    <3>7. TablesOK' BY <3>4, <3>6 DEF TablesInv, TablesOK, IsTable
    <3>8. RefIntegrity' BY <3>4, <3>5, <3>6 DEF TablesInv, RefIntegrity
    <3>9. NoResurrection' BY <3>4, <3>6 DEF TablesInv, NoResurrection
    <3>. QED BY <3>4, <3>6, <3>7, <3>8, <3>9 DEF TablesInv, Taken
  <2>. QED BY <1>2, <2>1, <2>2 DEF UpdateMeeting
<1>3. CASE DeleteMeetingRows(w)
  <2>1. req[w].op = "DeleteMeeting" BY <1>0, <1>3, OpOfPc DEF DeleteMeetingRows
  <2>2. req[w].m \in Meeting BY <1>0, <2>1 DEF ArgumentsOK
  <2>3. CASE Cascade({}, {req[w].m}, {}) BY <2>2, <2>3, CascadeOK
  <2>4. CASE UNCHANGED db BY <2>4, DbUnchanged
  <2>. QED BY <1>3, <2>3, <2>4 DEF DeleteMeetingRows
<1>4. CASE UpdateEntry(w)
  <2>. DEFINE r == req[w]
              k == <<r.m, r.u>>
              fields == {f \in Field : r.ebody[f] # None}
              obj == [f \in Field |-> IF f \in fields THEN r.ebody[f] ELSE r.erow.text[f]]
              row == [text |-> SaveFields(entries[k].text, obj, fields), upd |-> clock + 1]
  <2>1. CASE UNCHANGED <<entries, clock>>
    <3>1. UNCHANGED db BY <1>4, <2>1 DEF UpdateEntry, db
    <3>. QED BY <3>1, DbUnchanged
  <2>2. CASE k \in DOMAIN entries /\ entries' = [entries EXCEPT ![k] = row] /\ clock' = clock + 1
    <3>1. r.ebody \in EntryBody
      <4>1. r.op = "PatchEntry" BY <1>0, <1>4, OpOfPc DEF UpdateEntry
      <4>. QED BY <1>0, <4>1 DEF ArgumentsOK
    <3>2. entries[k] \in EntryRow BY <2>2 DEF TablesInv, TablesOK, IsTable
    <3>3. clock + 1 \in Nat BY DEF TablesInv, TablesOK
    <3>4. \A f \in fields : obj[f] \in Text BY <3>1 DEF EntryBody
    <3>. HIDE DEF obj, fields, k
    <3>5. SaveFields(entries[k].text, obj, fields) \in [Field -> Text]
      BY <3>2, <3>4 DEF SaveFields, EntryRow
    <3>6. row \in EntryRow BY <3>3, <3>5 DEF EntryRow
    <3>. HIDE DEF row
    <3>7. IsTable(entries', Key, EntryRow) /\ DOMAIN entries' = DOMAIN entries
      <4>1. IsTable(entries, Key, EntryRow) BY DEF TablesInv, TablesOK
      <4>. QED BY <2>2, <3>6, <4>1 DEF IsTable
    <3>8. UNCHANGED <<role, name, members, pins, meetings, deleted>>
      BY <1>4 DEF UpdateEntry
    <3>9. clock' \in Nat BY <2>2, <3>3
    <3>10. TablesOK' BY <3>7, <3>8, <3>9 DEF TablesInv, TablesOK, IsTable
    <3>11. RefIntegrity' BY <3>7, <3>8 DEF TablesInv, RefIntegrity
    <3>12. NoResurrection' BY <3>8 DEF TablesInv, NoResurrection
    <3>. QED BY <3>8, <3>10, <3>11, <3>12 DEF TablesInv, Taken
  <2>. QED BY <1>4, <2>1, <2>2 DEF UpdateEntry
<1>5. CASE UNCHANGED db BY <1>5, DbUnchanged
<1>. QED BY <1>1, <1>2, <1>3, <1>4, <1>5
         DEF MeetingStep, OpenMeetings, SelectLatestWillDo, GetGroupOfMeeting,
             InsertMeeting, ReadMembers, CollectCarryOver, GetMeeting, DeleteEntries, GetEntry

\* The administrator's edits keep the tables in order.
LEMMA AdminTables ==
  ASSUME TablesInv, SetRole \/ DeleteUser
  PROVE  TablesInv' /\ Taken' = Taken
<1>1. CASE SetRole
  <2>1. PICK e \in RoleEdits : e[1] \in DOMAIN role /\ role' = [role EXCEPT ![e[1]] = e[2]]
    BY <1>1 DEF SetRole
  <2>2. e[2] \in Roles BY AdminAssumption
  <2>3. IsTable(role, User, Roles) BY DEF TablesInv, TablesOK
  <2>4. IsTable(role', User, Roles) /\ DOMAIN role' = DOMAIN role
    BY <2>1, <2>2, <2>3 DEF IsTable
  <2>5. UNCHANGED <<name, members, pins, meetings, entries, clock, deleted>>
    BY <1>1 DEF SetRole
  <2>6. TablesOK' BY <2>4, <2>5 DEF TablesInv, TablesOK, IsTable
  <2>7. RefIntegrity' BY <2>4, <2>5 DEF TablesInv, RefIntegrity
  <2>8. NoResurrection' BY <2>4, <2>5 DEF TablesInv, NoResurrection
  <2>. QED BY <2>5, <2>6, <2>7, <2>8 DEF TablesInv, Taken
<1>2. CASE DeleteUser
  <2>1. PICK u \in Deletable \cap DOMAIN role : Cascade({}, {}, {u})
    BY <1>2 DEF DeleteUser
  <2>2. u \in User BY AdminAssumption
  <2>. QED BY <2>1, <2>2, CascadeOK
<1>. QED BY <1>1, <1>2

-----------------------------------------------------------------------------
(***************************************************************************)
(* The inductive invariant.                                                *)
(***************************************************************************)
\* A step that keeps the requests in order, moves at most worker w, and takes
\* at most the id w had drawn, leaves the drawn ids fresh.
LEMMA DrawnIdsStep ==
  ASSUME RequestsOK, DrawnIdsFresh, NEW w \in Worker, Moves(w),
         Taken' \subseteq Taken \cup (IF req[w].pc \in InCreateMeeting THEN {req[w].m} ELSE {}),
         req[w].pc \in InCreateMeeting /\ Taken' # Taken => req'[w].pc = "idle"
  PROVE  DrawnIdsFresh'
<1>1. \A v \in Worker : req'[v].pc \in InCreateMeeting =>
         req[v].pc \in InCreateMeeting /\ req'[v].m = req[v].m
  BY DEF Moves
<1>2. \A v \in Worker : req[v].pc \in InCreateMeeting => req[v].m \in Meeting
  BY DEF RequestsOK, RequestOK, LoadedOK
<1>3. "idle" \notin InCreateMeeting BY DEF InCreateMeeting
<1>4. ASSUME NEW v \in Worker, req'[v].pc \in InCreateMeeting
      PROVE  req'[v].m \notin DOMAIN meetings' \cup deleted'
  <2>1. req[v].m \notin Taken BY <1>1, <1>4 DEF DrawnIdsFresh, Taken
  <2>2. CASE Taken' = Taken
    BY <1>1, <1>2, <1>4, <2>1, <2>2 DEF Taken
  <2>3. CASE Taken' # Taken
    <3>1. CASE v = w BY <1>1, <1>3, <1>4, <2>3, <3>1
    <3>2. CASE v # w
      BY <1>1, <1>2, <1>4, <2>1, <3>2 DEF DrawnIdsFresh, Taken
    <3>. QED BY <3>1, <3>2
  <2>. QED BY <2>2, <2>3
<1>5. ASSUME NEW u \in Worker, NEW v \in Worker, u # v,
             req'[u].pc \in InCreateMeeting, req'[v].pc \in InCreateMeeting
      PROVE  req'[u].m # req'[v].m
  BY <1>1, <1>5 DEF DrawnIdsFresh
<1>. QED BY <1>4, <1>5 DEF DrawnIdsFresh

\* IInv holds at the start: the rows at start satisfy the foreign keys and
\* every worker is free.
LEMMA IInvInit == Init => IInv
<1>. SUFFICES ASSUME Init PROVE IInv
  OBVIOUS
<1>1. /\ SeedMembers \subseteq Pair
      /\ IsTable(SeedEntries, Key, EntryRow)
  BY SeedAssumption DEF IsTable, Pair, Key
<1>2. TablesOK
  BY <1>1, SeedAssumption DEF Init, RowsInit, TablesOK, IsTable
<1>3. \A w \in Worker : req[w] = Idle BY DEF Init
<1>4. RequestsOK
  BY <1>3, IdleOK DEF Init, RowsInit, RequestsOK, RequestOK
<1>5. RefIntegrity BY SeedAssumption DEF Init, RowsInit, RefIntegrity
<1>6. NoResurrection BY DEF Init, RowsInit, NoResurrection
<1>7. DrawnIdsFresh BY <1>3 DEF DrawnIdsFresh, Idle, InCreateMeeting
<1>. QED BY <1>2, <1>4, <1>5, <1>6, <1>7 DEF IInv, TypeInv

\* Every step keeps IInv.
LEMMA IInvStep == IInv /\ [Next]_vars => IInv'
<1>. SUFFICES ASSUME IInv, [Next]_vars PROVE IInv'
  OBVIOUS
<1>. USE DEF IInv, TypeInv
<1>0. TablesInv BY DEF TablesInv
<1>1. ASSUME NEW w \in Worker, Call(w) PROVE IInv'
  <2>1. Moves(w) BY <1>1, GroupCallOK, MeetingCallOK DEF Call
  <2>2. UNCHANGED db
    BY <1>1 DEF Call, GroupCall, MeetingCall, PostGroup, PatchGroup, DeleteGroup, PutPin,
                DeletePin, PostMember, DeleteMember, PostMeeting, PatchMeeting,
                DeleteMeeting, PatchEntry
  <2>3. TablesInv' /\ Taken' = Taken BY <1>0, <2>2, DbUnchanged
  <2>. QED BY <2>1, <2>3, DrawnIdsStep DEF TablesInv, Moves
<1>2. ASSUME NEW w \in Worker, GroupStep(w) PROVE IInv'
  <2>1. Moves(w) BY <1>2, GroupStepOK
  <2>2. TablesInv' /\ Taken' = Taken BY <1>0, <1>2, GroupStepTables
  <2>. QED BY <2>1, <2>2, DrawnIdsStep DEF TablesInv, Moves
<1>3. ASSUME NEW w \in Worker, MeetingStep(w), ~InsertMeeting(w) PROVE IInv'
  <2>1. Moves(w) BY <1>3, MeetingStepOK
  <2>2. /\ TablesInv'
        /\ Taken' \subseteq Taken \cup (IF req[w].pc \in InCreateMeeting THEN {req[w].m} ELSE {})
        /\ req[w].pc \in InCreateMeeting /\ Taken' # Taken => req[w].pc = "commit_meeting"
    BY <1>0, <1>3, MeetingStepTables
  <2>3. req[w].pc = "commit_meeting" => req'[w].pc = "idle"
    <3>1. SUFFICES ASSUME req[w].pc = "commit_meeting" PROVE req'[w].pc = "idle"
      OBVIOUS
    <3>2. CommitMeeting(w)
      BY <1>3, <3>1 DEF MeetingStep, OpenMeetings, SelectLatestWillDo, GetGroupOfMeeting,
                        InsertMeeting, ReadMembers, CollectCarryOver, GetMeeting,
                        UpdateMeeting, DeleteEntries, DeleteMeetingRows, GetEntry, UpdateEntry
    <3>3. \E code : req' = [req EXCEPT ![w] = [Idle EXCEPT !.status = code]]
      BY <3>2 DEF CommitMeeting, Raise, Answer
    <3>. QED BY <3>3 DEF RequestsOK, Idle
  <2>. QED BY <2>1, <2>2, <2>3, DrawnIdsStep DEF TablesInv, Moves
<1>4. ASSUME NEW w \in Worker, InsertMeeting(w) PROVE IInv'
  <2>1. /\ RequestsOK'
        /\ \A v \in Worker \ {w} : req'[v] = req[v]
        /\ req'[w].m \in Meeting \ (DOMAIN meetings \cup deleted \cup DrawnMeetings)
    BY <1>4, InsertMeetingOK
  <2>2. UNCHANGED db BY <1>4 DEF InsertMeeting
  <2>3. TablesInv' BY <1>0, <2>2, DbUnchanged
  <2>4. DrawnIdsFresh'
    BY <2>1, <2>2 DEF DrawnIdsFresh, DrawnMeetings, db
  <2>. QED BY <2>1, <2>3, <2>4 DEF TablesInv
<1>5. ASSUME NEW w \in Worker, Abort(w) \/ StatementTimeout(w) PROVE IInv'
  <2>1. Moves(w) BY <1>5, DeathOK
  <2>2. UNCHANGED db BY <1>5 DEF Abort, StatementTimeout
  <2>3. TablesInv' /\ Taken' = Taken BY <1>0, <2>2, DbUnchanged
  <2>. QED BY <2>1, <2>3, DrawnIdsStep DEF TablesInv, Moves
<1>6. CASE SetRole \/ DeleteUser
  <2>1. TablesInv' /\ Taken' = Taken BY <1>0, <1>6, AdminTables
  <2>2. req' = req BY <1>6 DEF SetRole, DeleteUser
  <2>3. RequestsOK' BY <2>2 DEF RequestsOK
  <2>4. DrawnIdsFresh'
    <3>1. \A w \in Worker : req[w].pc \in InCreateMeeting => req[w].m \in Meeting
      BY DEF RequestsOK, RequestOK, LoadedOK
    <3>. QED BY <2>1, <2>2, <3>1 DEF DrawnIdsFresh, Taken
  <2>. QED BY <2>1, <2>3, <2>4 DEF TablesInv
<1>7. CASE UNCHANGED vars
  <2>1. UNCHANGED db /\ req' = req BY <1>7 DEF vars
  <2>2. TablesInv' BY <1>0, <2>1, DbUnchanged
  <2>3. RequestsOK' BY <2>1 DEF RequestsOK
  <2>4. DrawnIdsFresh' BY <2>1 DEF DrawnIdsFresh, db
  <2>. QED BY <2>2, <2>3, <2>4 DEF TablesInv
<1>. QED BY <1>1, <1>2, <1>3, <1>4, <1>5, <1>6, <1>7 DEF Next, Serve

\* The inductive invariant holds in every state of every run.
THEOREM Invariant == Spec => []IInv
<1>. QED BY IInvInit, IInvStep, PTL DEF Spec

\* Type correctness: the tables and the requests stay in their types, and a
\* request holds what the statement it executes next reads.
THEOREM TypeCorrect == Spec => []TypeInv
<1>1. IInv => TypeInv BY DEF IInv
<1>. QED BY <1>1, Invariant, PTL

\* The foreign keys hold, although groups, meetings and users are deleted while
\* requests that loaded them are under way.
THEOREM ReferencesHold == Spec => []RefIntegrity
<1>1. IInv => RefIntegrity BY DEF IInv
<1>. QED BY <1>1, Invariant, PTL

\* No request brings back a group, meeting or user that was deleted.
THEOREM DeletedStaysDeleted == Spec => []NoResurrection
<1>1. IInv => NoResurrection BY DEF IInv
<1>. QED BY <1>1, Invariant, PTL

\* The id a transaction has drawn for its meeting stays its own until COMMIT.
THEOREM DrawnIdsStayFresh == Spec => []DrawnIdsFresh
<1>1. IInv => DrawnIdsFresh BY DEF IInv
<1>. QED BY <1>1, Invariant, PTL

\* create_with_entries never meets an entry of the meeting it creates: the id
\* it drew is no row's, and entries refer to rows.
THEOREM CreationNeverConflicts == Spec => []CreateNeverConflicts
<1>1. IInv => CreateNeverConflicts
  BY DEF IInv, RefIntegrity, DrawnIdsFresh, CreateNeverConflicts
<1>. QED BY <1>1, Invariant, PTL

-----------------------------------------------------------------------------
(***************************************************************************)
(* Action properties.  Few statements write entries or meetings that exist *)
(* already; what the others leave is proved once.                          *)
(***************************************************************************)
\* The steps that delete rows.
Deletes == \E gs, ms, us : Cascade(gs, ms, us)

\* A cascade deletes rows and changes none.
LEMMA DeletesOnly ==
  ASSUME Deletes
  PROVE  /\ \A k \in DOMAIN entries \cap DOMAIN entries' : entries'[k] = entries[k]
         /\ \A m \in DOMAIN meetings \cap DOMAIN meetings' : meetings'[m] = meetings[m]
         /\ \A k \in DOMAIN entries \ DOMAIN entries' :
               k[1] \notin DOMAIN meetings' \/ k[2] \notin DOMAIN role'
<1>1. PICK gs, ms, us : Cascade(gs, ms, us) BY DEF Deletes
<1>. DEFINE D == {k \in DOMAIN entries : k[1] \in ms \/ k[2] \in us}
<1>2. /\ entries' = Without(entries, D)
      /\ meetings' = Without(meetings, ms)
      /\ role' = Without(role, us)
  BY <1>1 DEF Cascade
<1>. HIDE DEF D
<1>3. /\ DOMAIN entries' = DOMAIN entries \ D
      /\ \A k \in DOMAIN entries \ D : entries'[k] = entries[k]
  BY <1>2 DEF Without
<1>4. /\ DOMAIN meetings' = DOMAIN meetings \ ms
      /\ \A m \in DOMAIN meetings \ ms : meetings'[m] = meetings[m]
  BY <1>2 DEF Without
<1>5. DOMAIN role' = DOMAIN role \ us BY <1>2 DEF Without
<1>. QED BY <1>3, <1>4, <1>5 DEF D

\* Insertions keep the entries there are.
LEMMA InsertsOnly ==
  ASSUME NEW new, entries' = InsertMissing(new)
  PROVE  /\ DOMAIN entries \subseteq DOMAIN entries'
         /\ \A k \in DOMAIN entries : entries'[k] = entries[k]
BY DEF InsertMissing

\* The steps by what they do to entries and meetings that exist.
LEMMA StepKinds ==
  ASSUME IInv, [Next]_vars
  PROVE  \/ /\ UNCHANGED meetings
            /\ DOMAIN entries \subseteq DOMAIN entries'
            /\ \A k \in DOMAIN entries : entries'[k] = entries[k]
         \/ /\ \E w \in Worker : CommitMeeting(w)
            /\ \A m \in DOMAIN meetings : meetings'[m] = meetings[m]
            /\ DOMAIN entries \subseteq DOMAIN entries'
            /\ \A k \in DOMAIN entries : entries'[k] = entries[k]
         \/ \E w \in Worker : UpdateMeeting(w)
         \/ \E w \in Worker : UpdateEntry(w)
         \/ Deletes
<1>1. ASSUME NEW w \in Worker, CommitMember(w)
      PROVE  /\ UNCHANGED meetings
             /\ DOMAIN entries \subseteq DOMAIN entries'
             /\ \A k \in DOMAIN entries : entries'[k] = entries[k]
  BY <1>1, InsertsOnly DEF CommitMember
<1>2. ASSUME NEW w \in Worker, CommitMeeting(w)
      PROVE  /\ \A m \in DOMAIN meetings : meetings'[m] = meetings[m]
             /\ DOMAIN entries \subseteq DOMAIN entries'
             /\ \A k \in DOMAIN entries : entries'[k] = entries[k]
  <2>1. req[w].m \notin DOMAIN meetings
    BY <1>2 DEF CommitMeeting, IInv, DrawnIdsFresh, InCreateMeeting
  <2>2. \/ UNCHANGED <<meetings, entries>>
        \/ /\ \E row : meetings' = [k \in DOMAIN meetings \cup {req[w].m} |->
                                      IF k = req[w].m THEN row ELSE meetings[k]]
           /\ \E new : entries' = InsertMissing(new)
    BY <1>2 DEF CommitMeeting
  <2>. QED BY <2>1, <2>2, InsertsOnly
<1>3. ASSUME NEW w \in Worker, DeleteGroupRows(w) PROVE Deletes \/ UNCHANGED db
  BY <1>3 DEF DeleteGroupRows, Deletes
<1>4. ASSUME NEW w \in Worker, DeleteMeetingRows(w) PROVE Deletes \/ UNCHANGED db
  BY <1>4 DEF DeleteMeetingRows, Deletes
<1>5. CASE DeleteUser BY <1>5 DEF DeleteUser, Deletes
<1>6. ASSUME NEW w \in Worker, GroupStep(w)
      PROVE  \/ CommitMember(w) \/ DeleteGroupRows(w) \/ UNCHANGED <<meetings, entries>>
  BY <1>6 DEF GroupStep, CreateGroup, GetGroup, UpdateGroup, CollectGroup, DeleteDependents,
              IsMember, PinSelect, PinInsert, PinReget, Unpin, GetUser, InsertMember,
              RemoveMember, db
<1>7. ASSUME NEW w \in Worker, MeetingStep(w)
      PROVE  \/ CommitMeeting(w) \/ UpdateMeeting(w) \/ DeleteMeetingRows(w) \/ UpdateEntry(w)
             \/ UNCHANGED <<meetings, entries>>
  BY <1>7 DEF MeetingStep, OpenMeetings, SelectLatestWillDo, GetGroupOfMeeting, InsertMeeting,
              ReadMembers, CollectCarryOver, GetMeeting, DeleteEntries, GetEntry, db
<1>8. ASSUME NEW w \in Worker, Call(w) \/ Abort(w) \/ StatementTimeout(w)
      PROVE  UNCHANGED <<meetings, entries>>
  BY <1>8 DEF Call, GroupCall, MeetingCall, PostGroup, PatchGroup, DeleteGroup, PutPin,
              DeletePin, PostMember, DeleteMember, PostMeeting, PatchMeeting,
              DeleteMeeting, PatchEntry, Abort, StatementTimeout, db
<1>9. CASE UNCHANGED <<meetings, entries>>
  BY <1>9
<1>10. CASE SetRole BY <1>10 DEF SetRole
<1>11. UNCHANGED db \/ UNCHANGED vars => UNCHANGED <<meetings, entries>>
  BY DEF db, vars
<1>. QED BY <1>1, <1>2, <1>3, <1>4, <1>5, <1>6, <1>7, <1>8, <1>9, <1>10, <1>11
         DEF Next, Serve

\* Of update_entry: sections it does not name stay, and the PATCH is answered 200.
LEMMA UpdateEntrySections ==
  ASSUME IInv, NEW w \in Worker, UpdateEntry(w),
         NEW k \in DOMAIN entries, NEW f \in Field, entries'[k].text[f] # entries[k].text[f]
  PROVE  /\ req[w].op = "PatchEntry" /\ <<req[w].m, req[w].u>> = k
         /\ req[w].ebody[f] = entries'[k].text[f]
         /\ req[w].pc # "idle" /\ req'[w].status = 200
<1>. DEFINE r == req[w]
            fields == {g \in Field : r.ebody[g] # None}
            obj == [g \in Field |-> IF g \in fields THEN r.ebody[g] ELSE r.erow.text[g]]
            row == [text |-> SaveFields(entries[k].text, obj, fields), upd |-> clock + 1]
<1>1. RequestOK(r) BY DEF IInv, TypeInv, RequestsOK
<1>2. r.op = "PatchEntry" /\ r.pc = "update_entry" BY <1>1, OpOfPc DEF UpdateEntry
<1>3. entries # entries' OBVIOUS
<1>4. <<r.m, r.u>> = k /\ entries' = [entries EXCEPT ![k] = row] /\ Answer(w, 200)
  <2>1. /\ <<r.m, r.u>> \in DOMAIN entries
        /\ entries' = [entries EXCEPT ![<<r.m, r.u>>] =
              [text |-> SaveFields(@.text, obj, fields), upd |-> clock + 1]]
        /\ Answer(w, 200)
    BY <1>3 DEF UpdateEntry
  <2>2. entries'[k] # entries[k] OBVIOUS
  <2>. HIDE DEF obj, fields
  <2>3. <<r.m, r.u>> = k BY <2>1, <2>2
  <2>. QED BY <2>1, <2>3
<1>5. entries[k].text \in [Field -> Text]
  BY DEF IInv, TypeInv, TablesOK, IsTable, EntryRow
<1>6. entries'[k].text[f] = IF f \in fields THEN r.ebody[f] ELSE entries[k].text[f]
  <2>1. entries'[k] = row BY <1>4
  <2>2. \A g \in fields : obj[g] = r.ebody[g] OBVIOUS
  <2>. HIDE DEF obj, fields
  <2>. QED BY <1>5, <2>1, <2>2 DEF SaveFields
<1>7. req'[w].status = 200
  <2>1. req' = [req EXCEPT ![w] = [Idle EXCEPT !.status = 200]] BY <1>4 DEF Answer
  <2>. QED BY <2>1 DEF IInv, TypeInv, RequestsOK, Idle
<1>. QED BY <1>2, <1>4, <1>6, <1>7

\* An entry leaves the table only with its meeting or its user.
THEOREM HistoryKept == Spec => HistoryPreserved
<1>1. ASSUME IInv, [Next]_vars
      PROVE  \A k \in DOMAIN entries \ DOMAIN entries' :
                k[1] \notin DOMAIN meetings' \/ k[2] \notin DOMAIN role'
  <2>1. ASSUME NEW w \in Worker, UpdateMeeting(w) \/ UpdateEntry(w)
        PROVE  DOMAIN entries' = DOMAIN entries
    BY <2>1 DEF UpdateMeeting, UpdateEntry
  <2>. QED BY <1>1, <2>1, StepKinds, DeletesOnly
<1>. QED BY <1>1, Invariant, PTL DEF Spec, HistoryPreserved

\* No update of an entry is lost: a section changes only by a PATCH that names
\* it, to what it names.
THEOREM SectionsKept == Spec => SectionsChangeByName
<1>. DEFINE A == \A k \in DOMAIN entries \cap DOMAIN entries' : \A f \in Field :
          entries'[k].text[f] # entries[k].text[f] =>
              \E w \in Worker :
                  /\ req[w].op = "PatchEntry" /\ <<req[w].m, req[w].u>> = k
                  /\ req[w].ebody[f] = entries'[k].text[f]
                  /\ req[w].pc # "idle" /\ req'[w].status = 200
<1>1. ASSUME IInv, [Next]_vars PROVE A
  <2>1. SUFFICES ASSUME NEW k \in DOMAIN entries \cap DOMAIN entries', NEW f \in Field,
                        entries'[k].text[f] # entries[k].text[f]
                 PROVE  \E w \in Worker :
                          /\ req[w].op = "PatchEntry" /\ <<req[w].m, req[w].u>> = k
                          /\ req[w].ebody[f] = entries'[k].text[f]
                          /\ req[w].pc # "idle" /\ req'[w].status = 200
    OBVIOUS
  <2>2. entries'[k] # entries[k] BY <2>1
  <2>3. PICK w \in Worker : UpdateEntry(w)
    <3>1. \A w \in Worker : ~UpdateMeeting(w) BY <2>2 DEF UpdateMeeting
    <3>. QED BY <1>1, <2>2, <3>1, StepKinds, DeletesOnly
  <2>. QED BY <1>1, <2>1, <2>3, UpdateEntrySections
<1>. QED BY <1>1, Invariant, PTL DEF Spec, SectionsChangeByName


\* Of update_meeting: the group stays, and so does what the PATCH does not name.
LEMMA UpdateMeetingRow ==
  ASSUME IInv, NEW w \in Worker, UpdateMeeting(w),
         NEW m \in DOMAIN meetings, meetings'[m] # meetings[m]
  PROVE  /\ req[w].op = "PatchMeeting" /\ req[w].m = m
         /\ meetings'[m].group = meetings[m].group
         /\ Patched(meetings'[m].date, meetings[m].date, req[w].mbody.date)
         /\ Patched(meetings'[m].completed, meetings[m].completed, req[w].mbody.completed)
<1>. DEFINE r == req[w]
            fields == {f \in {"date", "completed"} : r.mbody[f] # None}
            obj == [f \in DOMAIN r.mrow |-> IF f \in fields THEN r.mbody[f] ELSE r.mrow[f]]
<1>1. RequestOK(r) BY DEF IInv, TypeInv, RequestsOK
<1>2. r.op = "PatchMeeting" /\ r.pc = "update_meeting" BY <1>1, OpOfPc DEF UpdateMeeting
<1>3. r.mrow \in MeetingRow BY <1>1, <1>2 DEF RequestOK, LoadedOK
<1>4. r.m = m /\ meetings'[m] = SaveFields(meetings[m], obj, fields)
  <2>1. meetings # meetings' OBVIOUS
  <2>2. meetings' = [meetings EXCEPT ![r.m] = SaveFields(@, obj, fields)]
    BY <2>1 DEF UpdateMeeting
  <2>. HIDE DEF obj, fields
  <2>. QED BY <2>2
<1>5. meetings[m] \in MeetingRow BY DEF IInv, TypeInv, TablesOK, IsTable
<1>6. DOMAIN meetings[m] = {"group", "date", "completed"} BY <1>5 DEF MeetingRow
<1>7. DOMAIN r.mrow = {"group", "date", "completed"} BY <1>3 DEF MeetingRow
<1>8. \A f \in fields : obj[f] = r.mbody[f]
  <2>1. fields \subseteq DOMAIN r.mrow BY <1>7
  <2>. QED BY <2>1
<1>9. \A f \in {"group", "date", "completed"} :
         meetings'[m][f] = IF f \in fields THEN r.mbody[f] ELSE meetings[m][f]
  <2>. HIDE DEF obj, fields
  <2>. QED BY <1>4, <1>6, <1>8 DEF SaveFields
<1>10. "group" \notin fields OBVIOUS
<1>11. "date" \in fields <=> r.mbody.date # None OBVIOUS
<1>12. "completed" \in fields <=> r.mbody.completed # None OBVIOUS
<1>. HIDE DEF obj, fields
<1>. QED BY <1>2, <1>4, <1>9, <1>10, <1>11, <1>12 DEF Patched

\* A meeting never moves to another group, and its date and flag change only by
\* a PATCH that names them.
THEOREM MeetingsKept == Spec => MeetingChangesByName
<1>. DEFINE By(w, m) ==
              /\ req[w].op = "PatchMeeting" /\ req[w].m = m
              /\ meetings'[m].group = meetings[m].group
              /\ Patched(meetings'[m].date, meetings[m].date, req[w].mbody.date)
              /\ Patched(meetings'[m].completed, meetings[m].completed,
                         req[w].mbody.completed)
<1>1. ASSUME IInv, [Next]_vars,
             NEW m \in DOMAIN meetings \cap DOMAIN meetings', meetings'[m] # meetings[m]
      PROVE  \E w \in Worker : By(w, m)
  <2>1. PICK w \in Worker : UpdateMeeting(w)
    <3>1. \A w \in Worker : ~UpdateEntry(w) BY <1>1 DEF UpdateEntry
    <3>. QED BY <1>1, <3>1, StepKinds, DeletesOnly
  <2>. QED BY <1>1, <2>1, UpdateMeetingRow
<1>2. IInv /\ [Next]_vars => \A m \in DOMAIN meetings \cap DOMAIN meetings' :
        meetings'[m] # meetings[m] => \E w \in Worker : By(w, m)
  BY <1>1
<1>. QED BY <1>2, Invariant, PTL DEF Spec, MeetingChangesByName
=============================================================================
