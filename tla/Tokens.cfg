\* A user logs in and refreshes on two workers while the administrator creates,
\* promotes, demotes and deletes: request, access and refresh last 2, 2 and 4
\* ticks. The clock stops, and with it everything when nobody is left.
SPECIFICATION Spec
CONSTANTS
    boss = boss
    User = {boss}
    Worker = {1, 2}
    AccessTTL = 2
    RefreshTTL = 4
    MaxRequest = 2
    SeedRole <- Nobody
    Given = {"MANAGER", "MEMBER"}
    MaxNow = 7
CHECK_DEADLOCK FALSE
INVARIANTS
    ClaimFresh
    TokensDieWithUser
