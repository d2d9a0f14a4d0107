\* Meetings are created while users, a guest among them, join and rows are
\* deleted: two workers.
SPECIFICATION Spec
CONSTANTS
    boss = boss
    ann = ann
    gus = gus
    red = red
    blue = blue
    m1 = m1
    m2 = m2
    m3 = m3
    m4 = m4
    m5 = m5
    plan = plan
    edit = edit
    w1 = w1
    w2 = w2
    User = {boss, ann, gus}
    Group = {red}
    Meeting = {m1, m2}
    Worker = {w1, w2}
    Text = {blank, plan}
    Blank = blank
    Field = {"promised", "will_do"}
    Date = {1}
    Name = {"red"}
    None = none
    Kinds = {"PostMeeting", "PostMember", "PatchMeeting", "DeleteMeeting", "DeleteGroup", "PutPin", "DeletePin", "Abort"}
    Callers <- Boss
    MeetingPatches <- Complete
    EntryPatches <- NoBody
    MaxClock = 0
    SeedRole <- BossAnnGus
    SeedName <- OneGroup
    SeedMembers <- AnnInRed
    SeedMeetings <- NoMeeting
    SeedEntries <- NoEntry
    RoleEdits <- NoEdits
    Deletable = {ann}
SYMMETRY Swap
INVARIANTS
    RefIntegrity
    NoResurrection
    DrawnIdsFresh
    CreateNeverConflicts
    EntriesOnlyOfMembers
PROPERTIES
    Atomic
