SPECIFICATION Spec
CONSTANTS
    Users = {ana, bo, cy, may, adm}
    NoUser = NoUser
    Creator = ana
    Tier1 = {ana}
    Tier2 = {bo, cy}
    Managers = {may}
    SysAdmins = {adm}
    Responders = {}
    Superusers = {}
    Requests = {r1}
    Idle = Idle
    Races = {"reassess_emergency", "response_request"}
INVARIANTS
    NeverStranded
    SignOffs
PROPERTIES
    KeepsContract
    ClaimHonoured
VIEW View
CONSTRAINT Classified
CHECK_DEADLOCK FALSE
