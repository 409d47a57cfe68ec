SPECIFICATION PageSpec
CONSTANTS
    Users = {ana, act, bo, exe}
    NoUser = NoUser
    Creator = ana
    Tier1 = {ana, act}
    Tier2 = {bo}
    Managers = {}
    SysAdmins = {}
    Responders = {}
    Superusers = {}
    Executives = {exe}
    a = a
    b = b
    w = w
    x = x
    act = act
    p = p
    ana = ana
    bo = bo
    exe = exe
    Tickets = {a, b}
    Alerts = {w, x}
    PeriodDays = 2
    MaxRows = 2
    Projects = {p}
    NoProject = NoProject
    NoDeadline = NoDeadline
    InitialRows <- Rows
    PageRequests <- Requests
INVARIANTS
    SteadyCasesReconcile
    VerdictIsSound
    FiguresOpenTheirRows
CHECK_DEADLOCK FALSE
