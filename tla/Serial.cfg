\* One worker: requests do not overlap, and what the documentation promises
\* holds. Plans of ann in three meetings of red, two of them on one day and one
\* of those completed, and a second group.
SPECIFICATION Spec
CONSTANTS
    boss = boss
    ann = ann
    gus = gus
    red = red
    blue = blue
    m1 = m1
    m2 = m2
    m3 = m3
    m4 = m4
    m5 = m5
    plan = plan
    edit = edit
    w1 = w1
    w2 = w2
    User = {boss, ann}
    Group = {red, blue}
    Meeting = {m1, m2, m3, m4}
    Worker = {w1}
    Text = {blank, plan, edit}
    Blank = blank
    Field = {"promised", "will_do"}
    Date = {1, 2}
    Name = {"red"}
    None = none
    Kinds = {"PostMember", "DeleteMember", "PostMeeting", "PatchMeeting", "PatchEntry"}
    Callers <- Boss
    MeetingPatches <- Complete
    EntryPatches <- PlanClear
    MaxClock = 1
    SeedRole <- BossAnn
    SeedName <- RedBlue
    SeedMembers <- NoPair
    SeedMeetings <- Several
    SeedEntries <- SomeEntries
    RoleEdits <- NoEdits
    Deletable = {}
INVARIANTS
    Coverage
PROPERTIES
    CompletedReadOnly
    CompletedNotBackfilled
    ConflictMeansMember
    PromiseIsLastWillDo
    AtomicAndExact
