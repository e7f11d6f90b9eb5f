\* By hand: claims of the comments that the code does not keep. TLC stops at the
\* first; exchange the invariant for the next: PasswordUsable, CacheFollowsPool,
\* RestartLosesNothing, SavedIsListed.
SPECIFICATION Spec
CONSTANTS
    Api = {httpd, remote}
    AuthTasks = {httpd}
    ListTasks = {httpd, remote}
    OptTasks = {httpd, remote}
    GrpTasks = {httpd, remote}
    DgmTasks = {httpd, remote}
    SetTasks = {httpd}
    TimerTask = timer
    Rebooter = ota
    Device = {d1, d2, d3}
    PageSize = 2
    MaxPages = 4
    OptDev = {o1}
    OptVal = {v1, v2}
    GrpId <- MCIds
    GrpRec = {r1}
    NoGrp = NoGrp
    DgmDev = {x, y}
    Gid <- MCIds
    MaxGids = 2
    MaxDevs = 1
    SetVal = {s1, s2}
    SetRequests <- MCRequests
    MaxCalls = 3
    MaxRestarts = 1
INVARIANT PasswordUsable
CHECK_DEADLOCK FALSE
