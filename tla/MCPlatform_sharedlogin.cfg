CONSTANTS
    Focuses = {"executor"}
    Hosts = {1, 2}
    Keys = {1, 2}
    Operators = {o1, o2}
    NoKey = NoKey
    Users = {u1, u2}
    Passwords = {1, 2}
    Tokens = {t1}
    Clients = {c1, c2}
    NoUser = NoUser
    Requests = {"r1", "r2"}
    CsrfTokens = {x1}
    NoCsrf = NoCsrf
    ArtifactIds = {1, 2, 3}
    Events = {1, 2, 3}
    Nodes = {n1}
    PushTargets = {r1, r2}
    Repushers = {q1, q2}
    NoArtifact = 0
    Ops = {"1", "2"}
    Refs = {i1, i2}
    Calls = {"build", "repush"}
    Secrets = {TRUE}
    NoImage = NoImage
    FileTasks = {b1}
    Starters = {s1, s2}
    Viewers = {v1}
    Days = {0, 7}
    MaxLines = 4
    Servers = {p1, p2, p3}
    Last = 3
SPECIFICATION PlatformSpec
SYMMETRY OperatorPerms
\* The instance stops when its identifiers are used up or nobody can log in.
CHECK_DEADLOCK FALSE
INVARIANT LocalPullLoggedIn
