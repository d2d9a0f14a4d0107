\* A meeting is created with a date before that of one that has entries: one
\* worker.
SPECIFICATION Spec
CONSTANTS
    boss = boss
    ann = ann
    gus = gus
    red = red
    blue = blue
    m1 = m1
    m2 = m2
    m3 = m3
    m4 = m4
    m5 = m5
    plan = plan
    edit = edit
    w1 = w1
    w2 = w2
    User = {boss, ann}
    Group = {red}
    Meeting = {m1, m2}
    Worker = {w1}
    Text = {blank, plan}
    Blank = blank
    Field = {"promised", "will_do"}
    Date = {1, 2}
    Name = {"red"}
    None = none
    Kinds = {"PostMeeting", "PatchEntry", "PutPin"}
    Callers <- Boss
    MeetingPatches <- NoBody
    EntryPatches <- OnlyPlan
    MaxClock = 1
    SeedRole <- BossAnn
    SeedName <- OneGroup
    SeedMembers <- AnnInRed
    SeedMeetings <- LateMeeting
    SeedEntries <- AnnBlank
    RoleEdits <- NoEdits
    Deletable = {}
PROPERTIES
    PromiseFromEarlier
