CONSTANTS
    Requests = {r1, r2, r3}
    AdminRequests = {r3}
    Accounts = {a, b, c}
    Admins = {x, y}
    Slots = 2
    Workers = 2
    Commands = {c1, c2}
    Bare = {c2}
    Lost = Lost
    Unversioned = Unversioned
    MaxVersion = 2
    MaxBuild = 2
SPECIFICATION Spec
INVARIANT TypeOK
PROPERTIES NoRequestCut ComesToRest SafeReplacement
CHECK_DEADLOCK FALSE
