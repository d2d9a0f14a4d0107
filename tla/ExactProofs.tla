----------------------------- MODULE ExactProofs -----------------------------
(***************************************************************************)
(* The whole promise of Standup, kept while requests do not overlap: proof *)
(* for every value of the constants.  The steps are those of the proof for *)
(* Overlapping, but for the three whose effect was chosen on rows that     *)
(* were read before.                                                       *)
(***************************************************************************)
EXTENDS PromisesProofs

-----------------------------------------------------------------------------
(***************************************************************************)
(* While a request is under way only the deletion of a user interferes.    *)
(***************************************************************************)
LEMMA Alone ==
  ASSUME PInv, [Next]_vars, OneAtATime, RolesStandWhileServing,
         NEW v \in Worker, req[v].op # "none", req'[v] = req[v]
  PROVE  UNCHANGED db \/ DeleteUser
<1>0. TypeInv BY DEF PInv, RInv, IInv
<1>1. ASSUME NEW w \in Worker, Acts(w) PROVE UNCHANGED db
  <2>1. CASE w = v
    <3>1. req[v].pc # "idle"
      BY <1>0 DEF TypeInv, RequestsOK, RequestOK, LoadedOK, PcsOf, InAddMember, InCreateMeeting,
                  Request, GroupOps, MeetingOps
    <3>. QED BY <1>0, <1>1, <2>1, <3>1, ActKinds, EndsIdle DEF Proceeds, KeepsArguments
  <2>2. CASE w # v
    <3>1. req[w].op = "none" BY <2>2 DEF OneAtATime
    <3>2. req[w].pc = "idle" BY <1>0, <3>1, Serving
    <3>3. Call(w)
      BY <1>1, <3>2 DEF Acts, Serve, Abort, StatementTimeout, GroupStep, MeetingStep, CreateGroup,
         GetGroup, UpdateGroup, CollectGroup, DeleteDependents, DeleteGroupRows, IsMember,
         PinSelect, PinInsert, PinReget, Unpin, GetUser, InsertMember, CommitMember,
         RemoveMember, OpenMeetings, SelectLatestWillDo, GetGroupOfMeeting, InsertMeeting,
         ReadMembers, CollectCarryOver, CommitMeeting, GetMeeting, UpdateMeeting, DeleteEntries,
         DeleteMeetingRows, GetEntry, UpdateEntry
    <3>. QED BY <1>0, <3>3, CallShape DEF Calls
  <2>. QED BY <2>1, <2>2
<1>2. ASSUME SetRole PROVE UNCHANGED db
  <2>1. PICK e \in RoleEdits : e[1] \in DOMAIN role /\ role' = [role EXCEPT ![e[1]] = e[2]]
    BY <1>2 DEF SetRole
  <2>2. role' = role
    <3>1. \A u \in DOMAIN role \cap DOMAIN role' : role'[u] = role[u]
      BY DEF RolesStandWhileServing
    <3>2. role \in [DOMAIN role -> Roles] BY <1>0 DEF TypeInv, TablesOK, IsTable
    <3>. QED BY <2>1, <3>1, <3>2
  <2>. QED BY <1>2, <2>2 DEF SetRole, db
<1>3. UNCHANGED vars => UNCHANGED db BY DEF vars
<1>. QED BY <1>1, <1>2, <1>3 DEF Next, Acts

\* What the deletion of a user leaves.
LEMMA UserGone ==
  ASSUME IInv, DeleteUser
  PROVE  /\ req' = req /\ meetings' = meetings
         /\ \E x \in DOMAIN role :
               /\ DOMAIN role' = DOMAIN role \ {x}
               /\ \A u \in DOMAIN role' : role'[u] = role[u]
               /\ members' = {p \in members : p[1] # x}
               /\ DOMAIN entries' = {k \in DOMAIN entries : k[2] # x}
               /\ \A k \in DOMAIN entries' : entries'[k] = entries[k]
<1>1. PICK x \in Deletable \cap DOMAIN role : Cascade({}, {}, {x}) BY DEF DeleteUser
<1>2. /\ entries' = Without(entries, {k \in DOMAIN entries : k[1] \in {} \/ k[2] \in {x}})
      /\ meetings' = Without(meetings, {})
      /\ members' = {p \in members : p[1] \notin {x} /\ p[2] \notin {}}
      /\ role' = Without(role, {x})
  BY <1>1 DEF Cascade
<1>3. meetings' = meetings BY <1>2 DEF Without, IInv, TypeInv, TablesOK, IsTable
<1>4. /\ DOMAIN role' = DOMAIN role \ {x}
      /\ \A u \in DOMAIN role' : role'[u] = role[u]
  BY <1>2 DEF Without
<1>5. /\ DOMAIN entries' = {k \in DOMAIN entries : k[2] # x}
      /\ \A k \in DOMAIN entries' : entries'[k] = entries[k]
  BY <1>2 DEF Without
<1>6. members' = {p \in members : p[1] # x} BY <1>2
<1>. QED BY <1>3, <1>4, <1>5, <1>6 DEF DeleteUser

\* The last plan, in the words of the abstract specification.
LEMMA PlanIsLastPlan ==
  ASSUME NEW g, NEW u, NEW t
  PROVE  OneByOne!IsPlan(t, g, u) <=> LastPlan(g, u, t)
<1>1. OneByOne!Plans(g, u) = WillDos(g, u)
  BY DEF OneByOne!Plans, OneByOne!EntriesOf, OneByOne!MeetingsOf, WillDos, EntriesOf, MeetingsOf
<1>2. \A j, k : OneByOne!Newer(j, k) <=> Later(j, k)
  BY DEF OneByOne!Newer, Later
<1>. QED BY <1>1, <1>2 DEF OneByOne!IsPlan, LastPlan

LEMMA PlanStays ==
  ASSUME IInv, NEW g, NEW u, NEW t, OneByOne!IsPlan(t, g, u), meetings' = meetings,
         \A k \in DOMAIN entries \cup DOMAIN entries' : k[2] = u =>
             k \in DOMAIN entries /\ k \in DOMAIN entries' /\ entries'[k] = entries[k]
  PROVE  OneByOne!IsPlan(t, g, u)'
<1>1. OneByOne!Plans(g, u)' = OneByOne!Plans(g, u)
  BY DEF OneByOne!Plans, OneByOne!EntriesOf, OneByOne!MeetingsOf
<1>2. \A k \in OneByOne!Plans(g, u) : entries'[k] = entries[k]
  BY DEF OneByOne!Plans, OneByOne!EntriesOf
<1>. QED BY <1>1, <1>2 DEF OneByOne!IsPlan, OneByOne!Newer

-----------------------------------------------------------------------------
(***************************************************************************)
(* What a request has read is what there is.                               *)
(***************************************************************************)
LEMMA ExactWaits ==
  ASSUME PInv, [Next]_vars, OneAtATime, RolesStandWhileServing,
         NEW v \in Worker, Exact(v), req'[v] = req[v]
  PROVE  Exact(v)'
<1>0. RInv /\ IInv /\ TypeInv BY DEF PInv, RInv, IInv
<1>1. CASE req[v].op = "none"
  <2>1. req[v].pc = "idle" BY <1>0, <1>1, Serving
  <2>. QED BY <2>1 DEF Exact, EntryOpen, Adding, Creating, InAddMember
<1>2. CASE UNCHANGED db
  <2>1. /\ role' = role /\ meetings' = meetings
        /\ OpenIn(req[v].g)' = OpenIn(req[v].g) /\ Regulars(req[v].g)' = Regulars(req[v].g)
    BY <1>2 DEF db, OpenIn, MeetingsOf, Regulars
  <2>2. ASSUME req[v].pc \in {"commit_member", "commit_meeting"},
               NEW u \in DOMAIN req[v].carry \cap DOMAIN role,
               NEW g \in {req[v].g}, NEW t \in {req[v].carry[u]}
        PROVE  OneByOne!IsPlan(t, g, u)'
    <3>1. OneByOne!IsPlan(t, g, u) BY <2>2 DEF Exact
    <3>. QED BY <1>0, <1>2, <3>1, PlanStays DEF db
  <2>. HIDE DEF Adding, Creating
  <2>. QED BY <2>1, <2>2 DEF Exact, EntryOpen, StillOpen
<1>3. CASE DeleteUser
  <2>1. meetings' = meetings BY <1>0, <1>3, UserGone
  <2>2. PICK x \in DOMAIN role :
               /\ DOMAIN role' = DOMAIN role \ {x}
               /\ \A u \in DOMAIN role' : role'[u] = role[u]
               /\ members' = {p \in members : p[1] # x}
               /\ DOMAIN entries' = {k \in DOMAIN entries : k[2] # x}
               /\ \A k \in DOMAIN entries' : entries'[k] = entries[k]
    BY <1>0, <1>3, UserGone
  <2>3. OpenIn(req[v].g)' = OpenIn(req[v].g) BY <2>1 DEF OpenIn, MeetingsOf
  <2>4. Regulars(req[v].g)' = Regulars(req[v].g) \ {x} BY <2>2 DEF Regulars
  <2>5. ASSUME req[v].pc \in Creating, DOMAIN req[v].carry \subseteq DOMAIN role'
        PROVE  DOMAIN req[v].carry = Regulars(req[v].g)'
    <3>1. DOMAIN req[v].carry = Regulars(req[v].g) BY <2>2, <2>5 DEF Exact
    <3>. QED BY <2>2, <2>4, <2>5, <3>1
  <2>6. ASSUME req[v].pc \in {"commit_member", "commit_meeting"},
               NEW u \in DOMAIN req[v].carry \cap DOMAIN role',
               NEW g \in {req[v].g}, NEW t \in {req[v].carry[u]}
        PROVE  OneByOne!IsPlan(t, g, u)'
    <3>1. OneByOne!IsPlan(t, g, u) BY <2>2, <2>6 DEF Exact
    <3>2. u # x BY <2>2
    <3>. QED BY <1>0, <2>1, <2>2, <3>1, <3>2, PlanStays
  <2>7. ASSUME req[v].pc \in Adding, req[v].u \in DOMAIN role'
        PROVE  req[v].trole = role'[req[v].u]
    BY <2>2, <2>7 DEF Exact
  <2>. HIDE DEF Adding, Creating
  <2>. QED BY <2>1, <2>3, <2>5, <2>6, <2>7 DEF Exact, EntryOpen, StillOpen
<1>. QED BY <1>1, <1>2, <1>3, Alone

LEMMA ExactProceeds ==
  ASSUME PInv, NEW v \in Worker, Exact(v), Proceeds(v)
  PROVE  Exact(v)'
<1>1. /\ UNCHANGED db /\ role' = role /\ meetings' = meetings
      /\ req'[v].u = req[v].u /\ req'[v].g = req[v].g
      /\ OpenIn(req[v].g)' = OpenIn(req[v].g) /\ Regulars(req[v].g)' = Regulars(req[v].g)
  BY DEF Proceeds, KeepsArguments, db, OpenIn, MeetingsOf, Regulars
<1>2. ASSUME req'[v].pc \in Adding, req[v].u \in DOMAIN role
      PROVE  req'[v].trole = role[req[v].u]
  BY <1>2 DEF Proceeds, ReadsToAdd, Exact, Adding, InAddMember
<1>3. ASSUME req'[v].pc \in {"latest_will_do", "commit_member"}, req'[v].trole # "GUEST"
      PROVE  req'[v].seen = OpenIn(req[v].g)
  BY <1>3 DEF Proceeds, ReadsToAdd, Exact
<1>4. ASSUME req'[v].pc \in Creating, DOMAIN req'[v].carry \subseteq DOMAIN role
      PROVE  DOMAIN req'[v].carry = Regulars(req[v].g)
  BY <1>4 DEF Proceeds, ReadsToCreate, Exact, Creating, CarryOver
<1>5. ASSUME req'[v].pc \in {"commit_member", "commit_meeting"},
             NEW u \in DOMAIN req'[v].carry, NEW g \in {req[v].g}, NEW t \in {req'[v].carry[u]}
      PROVE  OneByOne!IsPlan(t, g, u)'
  <2>0. IInv BY DEF PInv, RInv
  <2>1. req[v].pc \in {"insert_member", "open_meetings", "read_members"} =>
              DOMAIN req[v].carry = {}
    BY DEF PInv, InFlight, Lists
  <2>2. LastPlan(g, u, t)
    <3>1. CASE req'[v].pc = "commit_member"
      <4>1. PICK x \in LatestWillDo(g, req[v].u) : req'[v].carry = [y \in {req[v].u} |-> x]
        BY <1>5, <2>1, <3>1 DEF Proceeds, ReadsToAdd
      <4>2. u = req[v].u /\ t = x BY <4>1
      <4>. QED BY <2>0, <4>1, <4>2, ReadsLastPlan
    <3>2. CASE req'[v].pc = "commit_meeting"
      <4>1. req'[v].carry \in CarryOver(g, DOMAIN req[v].carry)
        BY <1>5, <2>1, <3>2 DEF Proceeds, ReadsToCreate
      <4>2. u \in DOMAIN req[v].carry BY <4>1 DEF CarryOver
      <4>. QED BY <2>0, <4>1, <4>2, ReadsLastPlan
    <3>. QED BY <1>5, <3>1, <3>2
  <2>3. OneByOne!IsPlan(t, g, u) BY <2>2, PlanIsLastPlan
  <2>. QED BY <1>1, <2>3, PlanStays DEF db, PInv, RInv
<1>6. req'[v].pc \in {"get_entry", "update_entry"} =>
         req'[v].m = req[v].m /\ StillOpen(req[v].m)
  BY DEF Proceeds, ReadsElse, Exact, EntryOpen
<1>. HIDE DEF Adding, Creating
<1>. QED BY <1>1, <1>2, <1>3, <1>4, <1>5, <1>6 DEF Exact, EntryOpen, StillOpen

LEMMA ExactInvStep ==
  ASSUME PInv, ExactInv, [Next]_vars, OneAtATime, [RolesStandWhileServing]_vars
  PROVE  ExactInv'
<1>0. TypeInv BY DEF PInv, RInv, IInv
<1>1. RolesStandWhileServing BY DEF RolesStandWhileServing, vars, db
<1>. SUFFICES ASSUME NEW v \in Worker PROVE Exact(v)' BY DEF ExactInv
<1>2. CASE req'[v] = req[v] BY <1>1, <1>2, ExactWaits DEF ExactInv
<1>3. CASE Begins(v) BY <1>3 DEF Begins, Exact, EntryOpen, Adding, Creating, InAddMember
<1>4. CASE Ends(v)
  BY <1>0, <1>4, EndsIdle DEF Exact, EntryOpen, Adding, Creating, InAddMember
<1>5. CASE Proceeds(v) BY <1>5, ExactProceeds DEF ExactInv
<1>. QED BY <1>0, <1>2, <1>3, <1>4, <1>5, Moment

-----------------------------------------------------------------------------
(***************************************************************************)
(* The three steps.                                                        *)
(***************************************************************************)
LEMMA Ended ==
  ASSUME TypeInv, NEW w \in Worker, NEW code, Answer(w, code)
  PROVE  OneByOne!Done(w, code)
BY Answered1 DEF OneByOne!Done, Overlapping!Done, OneByOne!Only, Overlapping!Only,
   OneByOne!Free, Overlapping!Free

LEMMA ExactJoinIntro ==
  ASSUME NEW u \in DOMAIN role, NEW g \in DOMAIN name, NEW t \in Text,
         NEW ms \in SUBSET OneByOne!MeetingsOf(g), <<u, g>> \notin members,
         ms = IF role[u] = "GUEST" THEN {} ELSE OneByOne!OpenIn(g),
         ms # {} => OneByOne!IsPlan(t, g, u),
         members' = members \cup {<<u, g>>},
         entries' = OneByOne!InsertMissing([k \in ms \X {u} |-> OneByOne!NewEntry(t)]),
         UNCHANGED <<role, name, pins, meetings, clock, deleted>>
  PROVE  OneByOne!Join(u, g)
<1>. DEFINE P(y, s) ==
              /\ TRUE => /\ s = IF role[u] = "GUEST" THEN {} ELSE OneByOne!OpenIn(g)
                         /\ s # {} => OneByOne!IsPlan(y, g, u)
              /\ entries' = OneByOne!InsertMissing([k \in s \X {u} |-> OneByOne!NewEntry(y)])
<1>1. P(t, ms) OBVIOUS
<1>2. \E y \in Text, s \in SUBSET OneByOne!MeetingsOf(g) : P(y, s)
  <2>. HIDE DEF P
  <2>1. WITNESS t \in Text, ms \in SUBSET OneByOne!MeetingsOf(g)
  <2>. QED BY <1>1
<1>. QED BY <1>2 DEF OneByOne!Join

LEMMA JoinsExactly ==
  ASSUME PInv, ExactInv, NEW w \in Worker, Joins(w)
  PROVE  OneByOne!Effect(w)
<1>. DEFINE r == req[w]
            t == IF DOMAIN r.carry = {} THEN Blank ELSE r.carry[r.u]
            new == NewEntries(r.seen, r.carry)
<1>0. RInv /\ TypeInv /\ r.pc = "commit_member" /\ r.u \in DOMAIN role /\ r.g \in DOMAIN name
  BY DEF PInv, RInv, IInv, Joins
<1>1. /\ r.carry \in PartialFn(User, Text) /\ DOMAIN r.carry \subseteq {r.u}
      /\ <<r.u, r.g>> \notin members
  <2>1. r.pc \in InAddMember BY <1>0 DEF InAddMember
  <2>. QED BY <1>0, <2>1, JoinsWhat, Holds DEF Request, RInv, PairsReserved
<1>2. r.seen = IF role[r.u] = "GUEST" THEN {} ELSE OneByOne!OpenIn(r.g)
  <2>1. r.trole = role[r.u] BY <1>0 DEF ExactInv, Exact, Adding, InAddMember
  <2>2. r.trole = "GUEST" => r.seen = {} BY <1>0 DEF PInv, InFlight, Lists
  <2>3. r.trole # "GUEST" => r.seen = OpenIn(r.g) BY <1>0 DEF ExactInv, Exact
  <2>4. OneByOne!OpenIn(r.g) = OpenIn(r.g)
    BY DEF OneByOne!OpenIn, OneByOne!MeetingsOf, OpenIn, MeetingsOf
  <2>. QED BY <2>1, <2>2, <2>3, <2>4
<1>3. r.seen # {} => DOMAIN r.carry = {r.u} /\ OneByOne!IsPlan(t, r.g, r.u)
  <2>. SUFFICES ASSUME r.seen # {}
                PROVE  DOMAIN r.carry = {r.u} /\ OneByOne!IsPlan(t, r.g, r.u)
    OBVIOUS
  <2>1. DOMAIN r.carry = {r.u} BY <1>0 DEF PInv, InFlight, Lists
  <2>2. t = r.carry[r.u] BY <2>1
  <2>3. OneByOne!IsPlan(r.carry[r.u], r.g, r.u)
    BY <1>0, <2>1 DEF ExactInv, Exact
  <2>. QED BY <2>1, <2>2, <2>3
<1>4. t \in Text BY <1>1, DataAssumption DEF PartialFn
<1>5. r.seen \in SUBSET OneByOne!MeetingsOf(r.g)
  BY <1>0, JoinsWhat DEF OneByOne!MeetingsOf, Joins
<1>6. new = [k \in r.seen \X {r.u} |-> OneByOne!NewEntry(t)]
  <2>1. CASE r.seen = {}
    <3>1. r.seen \X DOMAIN r.carry = {} /\ r.seen \X {r.u} = {} BY <2>1
    <3>. QED BY <3>1 DEF NewEntries
  <2>2. CASE r.seen # {}
    <3>1. DOMAIN r.carry = {r.u} /\ t = r.carry[r.u] BY <1>3, <2>2
    <3>. HIDE DEF t
    <3>. QED BY <3>1 DEF NewEntries, NewEntry, OneByOne!NewEntry
  <2>. QED BY <2>1, <2>2
<1>7. entries' = OneByOne!InsertMissing([k \in r.seen \X {r.u} |-> OneByOne!NewEntry(t)])
  BY <1>6 DEF Joins, InsertMissing, OneByOne!InsertMissing
<1>8. OneByOne!Done(w, 201) BY <1>0, Ended DEF Joins
<1>9. /\ members' = members \cup {<<r.u, r.g>>}
      /\ UNCHANGED <<role, name, pins, meetings, clock, deleted>>
  BY DEF Joins
<1>. DEFINE u == r.u
            g == r.g
            ms == r.seen
<1>10. /\ u \in DOMAIN role /\ g \in DOMAIN name /\ ms \in SUBSET OneByOne!MeetingsOf(g)
       /\ <<u, g>> \notin members
       /\ ms = IF role[u] = "GUEST" THEN {} ELSE OneByOne!OpenIn(g)
       /\ ms # {} => OneByOne!IsPlan(t, g, u)
       /\ members' = members \cup {<<u, g>>}
       /\ entries' = OneByOne!InsertMissing([k \in ms \X {u} |-> OneByOne!NewEntry(t)])
  BY <1>0, <1>1, <1>2, <1>3, <1>5, <1>7, <1>9
<1>11. OneByOne!Join(u, g)
  <2>. HIDE DEF r, t, new, u, g, ms
  <2>. QED BY <1>4, <1>9, <1>10, ExactJoinIntro
<1>12. req[w].op = "PostMember" BY <1>0, JoinsWhat
<1>. HIDE DEF new, t
<1>. QED BY <1>8, <1>11, <1>12, ReplyOf DEF OneByOne!Effect

LEMMA ExactConveneIntro ==
  ASSUME NEW m \in Meeting \ (DOMAIN meetings \cup deleted),
         NEW g \in DOMAIN name, NEW d, NEW us \in SUBSET DOMAIN role,
         NEW promise \in [us -> Text],
         us = OneByOne!Regulars(g), \A u \in us : OneByOne!IsPlan(promise[u], g, u),
         meetings' = [k \in DOMAIN meetings \cup {m} |->
                         IF k = m THEN [group |-> g, date |-> d, completed |-> FALSE]
                                  ELSE meetings[k]],
         entries' = [k \in DOMAIN entries \cup ({m} \X us) |->
                        IF k[1] = m THEN OneByOne!NewEntry(promise[k[2]]) ELSE entries[k]],
         UNCHANGED <<role, name, members, pins, clock, deleted>>
  PROVE  OneByOne!Convene(g, d)
<1>. DEFINE P(x, s, p) ==
              /\ TRUE => /\ s = OneByOne!Regulars(g)
                         /\ \A u \in s : OneByOne!IsPlan(p[u], g, u)
              /\ meetings' = [k \in DOMAIN meetings \cup {x} |->
                                IF k = x THEN [group |-> g, date |-> d, completed |-> FALSE]
                                         ELSE meetings[k]]
              /\ entries' = [k \in DOMAIN entries \cup ({x} \X s) |->
                                IF k[1] = x THEN OneByOne!NewEntry(p[k[2]]) ELSE entries[k]]
<1>1. P(m, us, promise) OBVIOUS
<1>2. \E x \in Meeting \ (DOMAIN meetings \cup deleted), s \in SUBSET DOMAIN role :
      \E p \in [s -> Text] : P(x, s, p)
  <2>. HIDE DEF P
  <2>1. WITNESS m \in Meeting \ (DOMAIN meetings \cup deleted), us \in SUBSET DOMAIN role
  <2>2. WITNESS promise \in [us -> Text]
  <2>. QED BY <1>1
<1>. QED BY <1>2 DEF OneByOne!Convene

LEMMA ConvenesExactly ==
  ASSUME PInv, ExactInv, NEW w \in Worker, Convenes(w)
  PROVE  OneByOne!Effect(w)
<1>. DEFINE m == req[w].m
            g == req[w].g
            d == req[w].mbody.date
            f == req[w].carry
            us == DOMAIN f
            new == NewEntries({m}, f)
<1>0. RInv /\ TypeInv /\ req[w].pc = "commit_meeting" BY DEF PInv, RInv, IInv, Convenes
<1>1. /\ m \in Meeting \ (DOMAIN meetings \cup deleted)
      /\ f \in [us -> Text] /\ \A k \in DOMAIN entries : k[1] # m
  <2>1. f \in [us -> Text] BY <1>0, Holds DEF Request, PartialFn
  <2>. QED BY <1>0, <2>1, ConvenesWhat
<1>2. us = OneByOne!Regulars(g) /\ \A u \in us : OneByOne!IsPlan(f[u], g, u)
  <2>1. us \subseteq DOMAIN role BY DEF Convenes
  <2>2. us = Regulars(g) BY <1>0, <2>1 DEF ExactInv, Exact, Creating
  <2>3. \A u \in us : OneByOne!IsPlan(f[u], g, u)
    BY <1>0, <2>1 DEF ExactInv, Exact
  <2>4. OneByOne!Regulars(g) = Regulars(g) BY DEF OneByOne!Regulars, Regulars
  <2>. QED BY <2>2, <2>3, <2>4
<1>3. entries' = [k \in DOMAIN entries \cup ({m} \X us) |->
                    IF k[1] = m THEN OneByOne!NewEntry(f[k[2]]) ELSE entries[k]]
  <2>1. DOMAIN new = {m} \X us /\ \A k \in DOMAIN new : new[k] = OneByOne!NewEntry(f[k[2]])
    BY DEF NewEntries, NewEntry, OneByOne!NewEntry
  <2>2. \A k \in {m} \X us : k[1] = m OBVIOUS
  <2>3. entries' = InsertMissing(new) BY DEF Convenes
  <2>. HIDE DEF new, m, us, f
  <2>. QED BY <1>1, <2>1, <2>2, <2>3 DEF InsertMissing
<1>4. meetings' = [k \in DOMAIN meetings \cup {m} |->
                      IF k = m THEN [group |-> g, date |-> d, completed |-> FALSE]
                               ELSE meetings[k]]
  BY DEF Convenes, NewMeeting
<1>5. OneByOne!Done(w, 201) BY <1>0, Ended DEF Convenes
<1>6. g \in DOMAIN name /\ us \in SUBSET DOMAIN role
      /\ UNCHANGED <<role, name, members, pins, clock, deleted>>
  BY DEF Convenes
<1>7. OneByOne!Convene(g, d)
  <2>. HIDE DEF m, g, d, f, us, new
  <2>. QED BY <1>1, <1>2, <1>3, <1>4, <1>6, ExactConveneIntro
<1>8. req[w].op = "PostMeeting" BY <1>0, ConvenesWhat
<1>. HIDE DEF m, f, us, new
<1>. QED BY <1>5, <1>7, <1>8, ReplyOf DEF OneByOne!Effect

\* The clock ticks when an entry is saved.
LEMMA ClockTicks ==
  ASSUME TypeInv, [Next]_vars, clock' # clock
  PROVE  \E w \in Worker : UpdateEntry(w) /\ Answer(w, 200)
<1>1. ASSUME NEW w \in Worker, GroupStep(w) PROVE FALSE
  BY <1>1 DEF GroupStep, CreateGroup, UpdateGroup, GetGroup, CollectGroup, DeleteDependents,
     DeleteGroupRows, Cascade, IsMember, PinSelect, PinInsert, PinReget, Unpin, GetUser,
     InsertMember, CommitMember, RemoveMember, db
<1>2. ASSUME NEW w \in Worker, MeetingStep(w) PROVE UpdateEntry(w) /\ Answer(w, 200)
  BY <1>2 DEF MeetingStep, OpenMeetings, SelectLatestWillDo, GetGroupOfMeeting, InsertMeeting,
     ReadMembers, CollectCarryOver, CommitMeeting, GetMeeting, UpdateMeeting, DeleteEntries,
     DeleteMeetingRows, Cascade, GetEntry, UpdateEntry, db
<1>3. ASSUME NEW w \in Worker, Call(w) \/ StatementTimeout(w) \/ Abort(w) PROVE FALSE
  BY <1>3, CallShape DEF Calls, StatementTimeout, Abort, db
<1>4. CASE SetRole \/ DeleteUser \/ UNCHANGED vars
  BY <1>4 DEF SetRole, DeleteUser, Cascade, vars, db
<1>. QED BY <1>1, <1>2, <1>3, <1>4 DEF Next, Serve

LEMMA WritesExactly ==
  ASSUME PInv, ExactInv, NEW w \in Worker, UpdateEntry(w), clock' # clock
  PROVE  OneByOne!Effect(w)
<1>. DEFINE r == req[w]
            k == <<r.m, r.u>>
            body == r.ebody
            fields == {f \in Field : body[f] # None}
            obj == [f \in Field |-> IF f \in fields THEN body[f] ELSE r.erow.text[f]]
            row == [text |-> SaveFields(entries[k].text, obj, fields), upd |-> clock + 1]
            old == entries[k].text
            text == [f \in Field |-> IF body[f] = None THEN old[f] ELSE body[f]]
<1>0. RInv /\ IInv /\ TypeInv /\ r.pc = "update_entry" BY DEF PInv, RInv, IInv, UpdateEntry
<1>1. /\ k \in DOMAIN entries /\ Answer(w, 200) /\ clock' = clock + 1
      /\ entries' = [entries EXCEPT ![k] =
                       [text |-> SaveFields(@.text, obj, fields), upd |-> clock + 1]]
      /\ UNCHANGED <<role, name, members, pins, meetings, deleted>>
  BY DEF UpdateEntry
<1>2. r.op = "PatchEntry" /\ \E f \in Field : body[f] # None
  BY <1>0, Holds, OpOfPc DEF LoadedOK
<1>3. SaveFields(old, obj, fields) = text
  <2>1. DOMAIN old = Field BY <1>1, <1>0, Holds DEF TablesOK, IsTable, EntryRow
  <2>. HIDE DEF old
  <2>. QED BY <2>1 DEF SaveFields
<1>4. entries' = [entries EXCEPT ![k] = [text |-> text, upd |-> clock + 1]]
  <2>1. entries' = [entries EXCEPT ![k] = row] BY <1>1
  <2>. HIDE DEF text, k
  <2>. QED BY <1>3, <2>1
<1>5. ~meetings[k[1]].completed
  <2>1. k[1] = r.m /\ k[1] \in DOMAIN meetings BY <1>0, <1>1 DEF IInv, RefIntegrity
  <2>. QED BY <1>0, <2>1 DEF ExactInv, Exact, EntryOpen, StillOpen
<1>6. entries' = [entries EXCEPT ![k] =
          [text |-> [f \in Field |-> IF body[f] = None THEN @.text[f] ELSE body[f]],
           upd |-> clock + 1]]
  BY <1>4
<1>7. OneByOne!Done(w, 200) BY <1>0, <1>1, Ended
<1>8. OneByOne!Write(k, body)
  <2>. HIDE DEF k, body, text, row, fields, obj, old
  <2>. QED BY <1>1, <1>2, <1>5, <1>6 DEF OneByOne!Write
<1>9. visible[w].m = r.m /\ visible[w].u = r.u /\ visible[w].ebody = body
  BY <1>2, ReplyOf
<1>. QED BY <1>2, <1>7, <1>8, <1>9, ReplyOf DEF OneByOne!Effect

-----------------------------------------------------------------------------
(***************************************************************************)
(* The refinement.                                                         *)
(***************************************************************************)
\* The other steps promise the same in both.
LEMMA OtherEffects ==
  ASSUME Overlapping!aNext, clock \in Nat,
         members' \subseteq members, DOMAIN meetings' \subseteq DOMAIN meetings, clock' = clock
  PROVE  OneByOne!aNext
<1>1. /\ Overlapping!ChangeRole => OneByOne!ChangeRole
      /\ Overlapping!DropUser => OneByOne!DropUser
  BY DEF Overlapping!ChangeRole, OneByOne!ChangeRole, Overlapping!DropUser, OneByOne!DropUser,
     Overlapping!Roles, OneByOne!Roles, Overlapping!Without, OneByOne!Without
<1>2. ASSUME NEW w \in Worker
      PROVE  /\ Overlapping!Begin(w) => OneByOne!Begin(w)
             /\ Overlapping!Refuse(w) => OneByOne!Refuse(w)
             /\ \A code : Overlapping!Done(w, code) => OneByOne!Done(w, code)
  BY DEF Overlapping!Begin, OneByOne!Begin, Overlapping!Refuse, OneByOne!Refuse,
     Overlapping!Done, OneByOne!Done, Overlapping!Only, OneByOne!Only, Overlapping!Free,
     OneByOne!Free, Overlapping!Refusals, OneByOne!Refusals, Overlapping!Asked, OneByOne!Asked,
     Overlapping!Ops, OneByOne!Ops, Overlapping!MeetingBody, OneByOne!MeetingBody,
     Overlapping!EntryBody, OneByOne!EntryBody, Overlapping!db, OneByOne!db
<1>3. /\ \A n : Overlapping!NewGroup(n) => OneByOne!NewGroup(n)
      /\ \A g, n : Overlapping!RenameGroup(g, n) => OneByOne!RenameGroup(g, n)
      /\ \A u, g : Overlapping!Pin(u, g) => OneByOne!Pin(u, g)
      /\ \A u, g : Overlapping!Unpinned(u, g) => OneByOne!Unpinned(u, g)
      /\ \A u, g : Overlapping!Leave(u, g) => OneByOne!Leave(u, g)
      /\ \A m, body : Overlapping!Reschedule(m, body) => OneByOne!Reschedule(m, body)
  BY DEF Overlapping!NewGroup, OneByOne!NewGroup, Overlapping!RenameGroup, OneByOne!RenameGroup,
     Overlapping!Pin, OneByOne!Pin, Overlapping!Unpinned, OneByOne!Unpinned,
     Overlapping!Leave, OneByOne!Leave, Overlapping!Reschedule, OneByOne!Reschedule
<1>4. /\ \A g : Overlapping!DropGroup(g) => OneByOne!DropGroup(g)
      /\ \A m : Overlapping!DropMeeting(m) => OneByOne!DropMeeting(m)
  BY DEF Overlapping!DropGroup, OneByOne!DropGroup, Overlapping!DropMeeting,
     OneByOne!DropMeeting, Overlapping!Without, OneByOne!Without, Overlapping!MeetingsOf,
     OneByOne!MeetingsOf, Overlapping!EntriesOf, OneByOne!EntriesOf
<1>5. /\ \A u, g : ~Overlapping!Join(u, g)
      /\ \A g, d : ~Overlapping!Convene(g, d)
  <2>1. ASSUME NEW u, NEW g, Overlapping!Join(u, g) PROVE FALSE
    <3>1. <<u, g>> \notin members /\ members' = members \cup {<<u, g>>}
      BY <2>1 DEF Overlapping!Join
    <3>. QED BY <3>1
  <2>2. ASSUME NEW g, NEW d, Overlapping!Convene(g, d) PROVE FALSE
    <3>1. \E m : m \in DOMAIN meetings' \ DOMAIN meetings BY <2>2 DEF Overlapping!Convene
    <3>. QED BY <3>1
  <2>. QED BY <2>1, <2>2
<1>6. \A k, body : Overlapping!Write(k, body) => OneByOne!Write(k, body)
  <2>1. clock' # clock + 1 OBVIOUS
  <2>. QED BY <2>1 DEF Overlapping!Write, OneByOne!Write
<1>7. ASSUME NEW w \in Worker, Overlapping!Effect(w) PROVE OneByOne!Effect(w)
  BY <1>2, <1>3, <1>4, <1>5, <1>6, <1>7 DEF Overlapping!Effect, OneByOne!Effect
<1>. QED BY <1>1, <1>2, <1>7 DEF Overlapping!aNext, OneByOne!aNext

LEMMA NextIsExact ==
  ASSUME PInv, ExactInv, [Next]_vars
  PROVE  OneByOne!aNext \/ Stutter
<1>0. RInv /\ IInv /\ TypeInv /\ clock \in Nat
  BY DEF PInv, RInv, IInv, TypeInv, TablesOK
<1>1. CASE \E p : p \in members' \ members
  <2>1. PICK x \in Worker : Joins(x) BY <1>0, <1>1, NewMember
  <2>. QED BY <2>1, JoinsExactly DEF OneByOne!aNext
<1>2. CASE \E m : m \in DOMAIN meetings' \ DOMAIN meetings
  <2>1. PICK x \in Worker : Convenes(x) BY <1>0, <1>2, MeetingIsNew
  <2>. QED BY <2>1, ConvenesExactly DEF OneByOne!aNext
<1>3. CASE clock' # clock
  <2>1. PICK x \in Worker : UpdateEntry(x) BY <1>0, <1>3, ClockTicks
  <2>. QED BY <1>3, <2>1, WritesExactly DEF OneByOne!aNext
<1>4. CASE /\ members' \subseteq members /\ DOMAIN meetings' \subseteq DOMAIN meetings
           /\ clock' = clock
  BY <1>0, <1>4, NextRefines, OtherEffects
<1>. QED BY <1>1, <1>2, <1>3, <1>4

\* As long as one request is served at a time and no role is edited meanwhile,
\* whom a new meeting and a new membership get entries for, and with what
\* promise, is what the rows say at that moment, and a completed meeting is
\* frozen: the service implements the whole of Standup, although a user may be
\* deleted at any moment.
THEOREM ImplementsExactStandup ==
  Spec /\ []OneAtATime /\ [][RolesStandWhileServing]_vars => AtomicAndExact
<1>1. Init => OneByOne!aInit
  BY DEF Init, RowsInit, visible, Visible, Idle, OneByOne!aInit, OneByOne!RowsInit,
         OneByOne!Free
<1>2. Init => ExactInv
  BY DEF Init, ExactInv, Exact, EntryOpen, Idle, Adding, Creating, InAddMember
<1>3. PInv /\ ExactInv /\ [Next]_vars /\ OneAtATime /\ [RolesStandWhileServing]_vars => ExactInv'
  BY ExactInvStep
<1>4. PInv /\ ExactInv /\ [Next]_vars => [OneByOne!aNext]_(OneByOne!aVars)
  BY NextIsExact DEF Stutter, OneByOne!aVars, OneByOne!db, db
<1>. QED BY <1>1, <1>2, <1>3, <1>4, RequestsInOrder, PTL DEF Spec, AtomicAndExact, OneByOne!aSpec
=============================================================================
