----------------------------- MODULE Refinement -----------------------------
(***************************************************************************)
(* The service implements Standup.  The tables are the same; of a request  *)
(* its kind, its caller, what the client sent and the status are seen, so  *)
(* every statement but the last is a stutter and a transaction takes       *)
(* effect at its COMMIT.                                                   *)
(***************************************************************************)
EXTENDS Sitdown

\* What the client sees of a request: not the id drawn for a new meeting.
Visible(r) ==
    [op |-> r.op, by |-> r.by, g |-> r.g, m |-> IF r.op = "PostMeeting" THEN None ELSE r.m,
     u |-> r.u, gname |-> r.gname, mbody |-> r.mbody, ebody |-> r.ebody,
     status |-> r.status]

visible == [w \in Worker |-> Visible(req[w])]

Overlapping == INSTANCE Standup WITH Serial <- FALSE, reply <- visible
OneByOne == INSTANCE Standup WITH Serial <- TRUE, reply <- visible

\* Whatever overlaps, a request does to the rows it names what its kind promises,
\* whole and at the moment of its answer, and is answered the status of its kind:
\* a deletion takes everything with it and nothing else, a backfill reaches
\* meetings of its group only, a refused request has written nothing.
Atomic == Overlapping!aSpec

\* Requests that do not overlap keep the whole promise.
AtomicAndExact == OneByOne!aSpec

-----------------------------------------------------------------------------
(***************************************************************************)
(* Why: what the transaction that adds a member may rely on at its COMMIT. *)
(***************************************************************************)
\* A pair that a transaction has inserted and not committed is no membership
\* yet, and no other transaction has inserted it.
PairsReserved ==
    \A w \in Worker : req[w].pc \in InAddMember =>
        <<req[w].u, req[w].g>> \notin members /\ ~PairLocked(w)

\* The meetings a request has read are meetings of its group, or were and are
\* deleted: a meeting does not change its group, and no id is drawn again.
SeenInGroup ==
    \A w \in Worker : \A m \in req[w].seen :
        /\ m \in DOMAIN meetings \cup deleted
        /\ m \in DOMAIN meetings => meetings[m].group = req[w].g

\* The inductive invariant behind Atomic.
RInv == IInv /\ PairsReserved /\ SeenInGroup
=============================================================================
