\* A member is added while a meeting is deleted.
SPECIFICATION Spec
CONSTANTS
    boss = boss
    ann = ann
    gus = gus
    red = red
    blue = blue
    m1 = m1
    m2 = m2
    m3 = m3
    m4 = m4
    m5 = m5
    plan = plan
    edit = edit
    w1 = w1
    w2 = w2
    User = {boss, ann}
    Group = {red}
    Meeting = {m1, m2}
    Worker = {w1, w2}
    Text = {blank, plan}
    Blank = blank
    Field = {"promised", "will_do"}
    Date = {1, 2}
    Name = {"red"}
    None = none
    Kinds = {"PostMember", "DeleteMeeting"}
    Callers <- Boss
    MeetingPatches <- NoBody
    EntryPatches <- NoBody
    MaxClock = 0
    SeedRole <- BossAnn
    SeedName <- OneGroup
    SeedMembers <- NoPair
    SeedMeetings <- OpenMeeting
    SeedEntries <- NoEntry
    RoleEdits <- NoEdits
    Deletable = {}
SYMMETRY Swap
PROPERTIES
    ConflictMeansMember
