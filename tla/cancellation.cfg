SPECIFICATION Spec
CONSTANTS
    t1 = t1
    t2 = t2
    s1 = s1
    p1 = p1
    p2 = p2
    Tickets = {t1, t2}
    NoTicket = NoTicket
    Members = {t2}
    Project = Project
    Subtasks = {s1}
    Parent <- MCParent
    Hardening = {s1}
    Procs = {p1, p2}
    Idle = Idle
    MaxRequests = 1
INVARIANTS
    NothingWaitsOnClosed
    NoDuplicateCycle
    DecisionsDoNotDeadlock
PROPERTIES
    NothingOverwrittenUnseen
VIEW View
SYMMETRY Symmetry
CHECK_DEADLOCK FALSE
