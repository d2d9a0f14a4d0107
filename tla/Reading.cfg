\* One client reads page after page while groups, meetings, memberships and
\* users come, move and go. It stops when it has what it asked for.
SPECIFICATION RSpec
CONSTANTS
    boss = boss
    ann = ann
    red = red
    blue = blue
    green = green
    m1 = m1
    m2 = m2
    m3 = m3
    User = {boss, ann}
    Group = {red, blue, green}
    Meeting = {m1, m2, m3}
    Text = {blank}
    Blank = blank
    Field = {"promised", "will_do"}
    Date = {1, 2}
    Name = {"red"}
    None = none
    SeedRole <- BossAnn
    SeedName <- RedBlue
    SeedMembers <- AnnInRed
    SeedMeetings <- OneDay
    SeedEntries <- AnnOnly
    Worker = {1}
    Serial = TRUE
    Rank <- ByName
    CreatedAt <- ByAge
    DefaultPerPage = 2
    MaxPerPage = 2
    MaxOffset = 6
    Reads = {"GetGroups", "GetMembers", "GetMeetings", "GetEntries", "GetUsers"}
    Readers = {boss, ann}
    PageParams = {0, 2, 9}
    PerPageParams = {none, 1}
    Writes <- Around
    RolesOf <- DemoteBoss
CHECK_DEADLOCK FALSE
INVARIANTS
    ReadersBelong
    ReadErrorsExplained
PROPERTIES
    WalkMissesNothing
    WalkRepeatsNothing
