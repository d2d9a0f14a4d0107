----------------------------- MODULE MCSitdown -----------------------------
(***************************************************************************)
(* Small instances of Sitdown: what the configurations give its constants. *)
(* boss is a MANAGER, ann a MEMBER, gus a GUEST.                           *)
(***************************************************************************)
EXTENDS Promises, TLC

CONSTANTS boss, ann, gus, red, blue, m1, m2, m3, m4, m5, plan, edit, w1, w2

Nothing == [k \in {} |-> None]
Open(g, d) == [group |-> g, date |-> d, completed |-> FALSE]
Entry(promise, todo) ==
    [text |-> [f \in Field |-> IF f = "promised" THEN promise
                               ELSE IF f = "will_do" THEN todo ELSE Blank], upd |-> 0]
Body(f, t) == [x \in Field |-> IF x = f THEN t ELSE None]

\* Users and groups.
BossAnn == (boss :> "MANAGER") @@ (ann :> "MEMBER")
BossAnnGus == BossAnn @@ (gus :> "GUEST")
OneGroup == red :> "red"
RedBlue == (red :> "red") @@ (blue :> "red")
NoPair == {}
AnnInRed == {<<ann, red>>}

\* Meetings and entries.
NoMeeting == Nothing
OpenMeeting == m1 :> Open(red, 1)
LateMeeting == m1 :> Open(red, 2)
TwoMeetings == (m1 :> Open(red, 1)) @@ (m2 :> [Open(red, 2) EXCEPT !.completed = TRUE])
Several == (m1 :> Open(red, 1)) @@ (m2 :> [Open(red, 2) EXCEPT !.completed = TRUE])
        @@ (m3 :> Open(red, 2))
SomeEntries == (<<m1, ann>> :> Entry(Blank, plan)) @@ (<<m2, ann>> :> Entry(Blank, edit))
NoEntry == Nothing
AnnBlank == <<m1, ann>> :> Entry(Blank, Blank)
AnnPlans == <<m1, ann>> :> Entry(Blank, plan)

\* What clients and the administrator send.
NoBody == {}
Complete == {[date |-> None, completed |-> TRUE]}
CompleteOrMove == Complete \cup {[date |-> 2, completed |-> None],
                                 [date |-> None, completed |-> None]}
OnlyPlan == {Body("will_do", plan)}
PlanOrPromise == {Body("will_do", plan), Body("promised", plan), [f \in Field |-> None]}
PlanClear == {Body("will_do", t) : t \in {plan, Blank}}
NoEdits == {}
DemoteAnn == {<<ann, "GUEST">>, <<ann, "MEMBER">>}
AnnToGuest == {<<ann, "GUEST">>}

Boss == {boss}
AllUsers == User
Swap == Permutations(Worker)
=============================================================================
