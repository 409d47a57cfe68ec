SPECIFICATION Spec
CONSTANTS
    Users = {ana, bo, may}
    NoUser = NoUser
    Creator = ana
    Tier1 = {ana}
    Tier2 = {bo}
    Managers = {may}
    SysAdmins = {}
    Responders = {}
    Superusers = {}
    Requests = {r1}
    Idle = Idle
    Races = {"complete_t2_review"}
PROPERTIES
    ResolvedIsFinal
VIEW View
CONSTRAINT Classified
CHECK_DEADLOCK FALSE
