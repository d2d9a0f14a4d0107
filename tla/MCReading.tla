----------------------------- MODULE MCReading -----------------------------
(***************************************************************************)
(* A small instance of Reading: the lists of two groups and of up to three *)
(* meetings, one or two rows to a page.                                    *)
(***************************************************************************)
EXTENDS Reading, TLC

CONSTANTS boss, ann, red, blue, green, m1, m2, m3

Day(d) == [group |-> red, date |-> d, completed |-> FALSE]
BossAnn == (boss :> "MANAGER") @@ (ann :> "MEMBER")
RedBlue == (red :> "red") @@ (blue :> "red")
AnnInRed == {<<ann, red>>}
OneDay == (m1 :> Day(1)) @@ (m2 :> Day(1))
AnnOnly == <<m1, ann>> :> [text |-> [f \in Field |-> Blank], upd |-> 0]

\* green, if it is created, ties with red.
ByName == (ann :> 1) @@ (boss :> 2) @@ (m1 :> 1) @@ (m2 :> 2) @@ (m3 :> 3)
ByAge == (red :> 1) @@ (blue :> 2) @@ (green :> 1)
DemoteBoss == (ann :> {"MEMBER"}) @@ (boss :> {"MANAGER", "MEMBER"})

Around ==
    [GetGroups |-> {"NewGroup", "DropGroup", "Pin", "Leave", "ChangeRole"},
     GetMembers |-> {"DropGroup", "Join", "Leave", "DropUser"},
     GetMeetings |-> {"DropGroup", "Leave", "Convene", "Reschedule", "DropMeeting"},
     GetEntries |-> {"DropGroup", "Join", "Leave", "DropMeeting", "DropUser"},
     GetUsers |-> {"ChangeRole", "DropUser"}]
=============================================================================
