\* PATCHes of one entry and its meeting at once, around a removal, a re-add,
\* a deletion and edits of roles: two workers, both users call.
SPECIFICATION Spec
CONSTANTS
    boss = boss
    ann = ann
    gus = gus
    red = red
    blue = blue
    m1 = m1
    m2 = m2
    m3 = m3
    m4 = m4
    m5 = m5
    plan = plan
    edit = edit
    w1 = w1
    w2 = w2
    User = {boss, ann}
    Group = {red}
    Meeting = {m1}
    Worker = {w1, w2}
    Text = {blank, plan}
    Blank = blank
    Field = {"promised", "will_do"}
    Date = {1, 2}
    Name = {"red"}
    None = none
    Kinds = {"PatchEntry", "PatchMeeting", "PostMember", "DeleteMember", "DeleteMeeting"}
    Callers <- AllUsers
    MeetingPatches <- CompleteOrMove
    EntryPatches <- PlanOrPromise
    MaxClock = 2
    SeedRole <- BossAnn
    SeedName <- OneGroup
    SeedMembers <- AnnInRed
    SeedMeetings <- OpenMeeting
    SeedEntries <- AnnBlank
    RoleEdits <- DemoteAnn
    Deletable = {}
SYMMETRY Swap
PROPERTIES
    SectionsChangeByName
    MeetingChangesByName
    Authority
