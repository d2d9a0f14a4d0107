\* Groups, pins and members, with deletions: two workers, both users call.
SPECIFICATION Spec
CONSTANTS
    boss = boss
    ann = ann
    gus = gus
    red = red
    blue = blue
    m1 = m1
    m2 = m2
    m3 = m3
    m4 = m4
    m5 = m5
    plan = plan
    edit = edit
    w1 = w1
    w2 = w2
    User = {boss, ann}
    Group = {red, blue}
    Meeting = {m1}
    Worker = {w1, w2}
    Text = {blank, plan}
    Blank = blank
    Field = {"promised", "will_do"}
    Date = {1, 2}
    Name = {"red"}
    None = none
    Kinds = {"PostGroup", "PatchGroup", "DeleteGroup", "PutPin", "PostMember", "DeleteMember"}
    Callers <- AllUsers
    MeetingPatches <- NoBody
    EntryPatches <- NoBody
    MaxClock = 0
    SeedRole <- BossAnn
    SeedName <- OneGroup
    SeedMembers <- AnnInRed
    SeedMeetings <- NoMeeting
    SeedEntries <- NoEntry
    RoleEdits <- NoEdits
    Deletable = {ann}
SYMMETRY Swap
INVARIANTS
    RefIntegrity
    NoResurrection
PROPERTIES
    Authority
    PinIdempotent
