------------------------------ MODULE Promises ------------------------------
(***************************************************************************)
(* What it takes to keep a promise of the documentation: for each promise  *)
(* that an overlap of requests or an edit can break, the hypothesis on the *)
(* behaviour under which it holds, and the inductive invariant that shows  *)
(* it.  The hypotheses speak of behaviours, not of constants: any number   *)
(* of workers serves any requests, as long as those named do not overlap.  *)
(***************************************************************************)
EXTENDS Refinement

-----------------------------------------------------------------------------
(***************************************************************************)
(* Hypotheses.                                                             *)
(***************************************************************************)
\* No request of a kind in A is served while one of a kind in B is.
NeverTogether(A, B) ==
    \A v, w \in Worker : ~(req[v].op \in A /\ req[w].op \in B)

\* One request is served at a time.
OneAtATime ==
    \A v, w \in Worker : req[v].op # "none" /\ req[w].op # "none" => v = w

\* What a step leaves alone.
NobodyPromoted ==
    \A u \in DOMAIN role \cap DOMAIN role' : role[u] = "GUEST" => role'[u] = "GUEST"
NobodyDemoted ==
    \A u \in DOMAIN role \cap DOMAIN role' : role'[u] = "GUEST" => role[u] = "GUEST"
NothingReopened ==
    \A m \in DOMAIN meetings \cap DOMAIN meetings' :
        meetings[m].completed => meetings'[m].completed
NobodyRemoved ==
    \A p \in members \ members' : p[1] \notin DOMAIN role' \/ p[2] \notin DOMAIN name'
NothingDeletedWhileAdding ==
    (\E w \in Worker : req[w].op = "PostMember") => deleted' = deleted
RolesStandWhileServing ==
    (\E w \in Worker : req[w].op # "none") =>
        \A u \in DOMAIN role \cap DOMAIN role' : role'[u] = role[u]

-----------------------------------------------------------------------------
(***************************************************************************)
(* What a request holds, whatever overlaps.                                *)
(***************************************************************************)
Adding == {"insert_member"} \cup InAddMember    \* trole is loaded
Creating == {"carry_over", "commit_meeting"}    \* the members are read

\* A request is answered once; its caller was a user when it was accepted, and
\* past get_group its group was one.
Accepted(w) ==
    /\ req[w].op # "none" => req[w].status = 0 /\ req[w].by \in DOMAIN role \cup deleted
    /\ req[w].op \in {"PostMember", "PostMeeting", "PutPin"} /\ req[w].pc # "get_group" =>
          req[w].g \in DOMAIN name \cup deleted

\* The lists are empty until they are read; the backfill reads none for a GUEST
\* and carries something over for whom it read meetings.
Lists(w) ==
    /\ req[w].pc \in {"get_group", "get_user", "insert_member", "open_meetings"} =>
          req[w].seen = {}
    /\ req[w].pc \in {"get_group", "get_user", "insert_member", "open_meetings",
                      "latest_will_do", "insert_meeting", "read_members"} =>
          DOMAIN req[w].carry = {}
    /\ req[w].pc \in {"open_meetings", "latest_will_do"} => req[w].trole # "GUEST"
    /\ req[w].pc = "commit_member" =>
          IF req[w].trole = "GUEST" THEN req[w].seen = {}
          ELSE req[w].seen # {} => DOMAIN req[w].carry = {req[w].u}

InFlight == \A w \in Worker : Accepted(w) /\ Lists(w)

PInv == RInv /\ InFlight

-----------------------------------------------------------------------------
(***************************************************************************)
(* What it holds under the hypotheses.                                     *)
(***************************************************************************)
OpenIn(g) == {m \in MeetingsOf(g) : ~meetings[m].completed}
Regulars(g) == {u \in DOMAIN role : <<u, g>> \in members /\ role[u] # "GUEST"}

\* Coverage: who was loaded as a GUEST is one, and no open meeting and no
\* member is missing from what was read.
NothingMissed(w) ==
    /\ req[w].pc \in Adding /\ req[w].trole = "GUEST" /\ req[w].u \in DOMAIN role =>
          role[req[w].u] = "GUEST"
    /\ req[w].pc \in {"latest_will_do", "commit_member"} /\ req[w].trole # "GUEST" =>
          OpenIn(req[w].g) \subseteq req[w].seen
    /\ req[w].pc \in Creating => Regulars(req[w].g) \subseteq DOMAIN req[w].carry

\* EntriesOnlyOfMembers: whoever is to get an entry still is a member, and no
\* GUEST, unless the user or the group was deleted.
NobodyExtra(w) ==
    /\ req[w].pc \in Adding /\ req[w].trole # "GUEST" /\ req[w].u \in DOMAIN role =>
          role[req[w].u] # "GUEST"
    /\ req[w].pc \in Creating =>
          \A u \in DOMAIN req[w].carry :
              req[w].g \in DOMAIN name /\ u \in DOMAIN role => u \in Regulars(req[w].g)

\* CompletedReadOnly and CompletedNotBackfilled: a meeting that was found open
\* still is, unless it was deleted.
StillOpen(m) == m \in DOMAIN meetings => ~meetings[m].completed
EntryOpen(w) == req[w].pc \in {"get_entry", "update_entry"} => StillOpen(req[w].m)
SeenOpen(w) ==
    req[w].pc \in {"latest_will_do", "commit_member"} => \A m \in req[w].seen : StillOpen(m)

\* ConflictMeansMember: what a request that adds a member has loaded exists.
AllThere(w) ==
    /\ req[w].pc \in {"get_user"} \cup Adding => req[w].g \in DOMAIN name
    /\ req[w].pc \in Adding =>
          req[w].u \in DOMAIN role /\ req[w].seen \subseteq DOMAIN meetings

\* PromiseIsLastWillDo: what is carried over is the last plan.
LastPlans(w) ==
    req[w].pc \in {"commit_member", "commit_meeting"} =>
        \A u \in DOMAIN req[w].carry : \A g \in {req[w].g}, t \in {req[w].carry[u]} :
            {u, g} \cap deleted # {} \/ IsLastWillDo(g, u, t)

\* PinIdempotent: the pair is pinned when the INSERT has failed, unless the
\* user or the group was deleted.
PinThere(w) ==
    req[w].pc = "pin_reget" =>
        \/ <<req[w].by, req[w].g>> \in pins
        \/ {req[w].g, req[w].by} \cap deleted # {}

\* AtomicAndExact: what was read is what there is.
Exact(w) ==
    /\ req[w].pc \in Adding /\ req[w].u \in DOMAIN role => req[w].trole = role[req[w].u]
    /\ req[w].pc \in {"latest_will_do", "commit_member"} /\ req[w].trole # "GUEST" =>
          req[w].seen = OpenIn(req[w].g)
    /\ req[w].pc \in Creating /\ DOMAIN req[w].carry \subseteq DOMAIN role =>
          DOMAIN req[w].carry = Regulars(req[w].g)
    /\ req[w].pc \in {"commit_member", "commit_meeting"} =>
          \A u \in DOMAIN req[w].carry \cap DOMAIN role :
              \A g \in {req[w].g}, t \in {req[w].carry[u]} : OneByOne!IsPlan(t, g, u)
    /\ EntryOpen(w)

CoverageInv == Coverage /\ \A w \in Worker : NothingMissed(w)
EntriesInv == EntriesOnlyOfMembers /\ \A w \in Worker : NobodyExtra(w)
ReadOnlyInv == \A w \in Worker : EntryOpen(w)
BackfillInv == \A w \in Worker : SeenOpen(w)
ConflictInv == \A w \in Worker : AllThere(w)
PromiseInv == \A w \in Worker : LastPlans(w)
PinInv == \A w \in Worker : PinThere(w)
ExactInv == \A w \in Worker : Exact(w)
=============================================================================
