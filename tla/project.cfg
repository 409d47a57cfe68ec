SPECIFICATION ProjectSpec
CONSTANTS
    Users = {ana, may, adm}
    NoUser = NoUser
    Creator = ana
    Tier1 = {ana, may}
    Tier2 = {may}
    Managers = {may}
    SysAdmins = {adm}
    Responders = {}
    Superusers = {}
    Members = {m1, m2, m3}
    Absent = Absent
    MAX_PROJECT_MEMBERS = 3
INVARIANTS
    ReviewBeforeHandling
    NoMemberStranded
    VerdictShared
PROPERTIES
    MembersKeepContract
SYMMETRY Symmetry
VIEW View
CONSTRAINT Bounded
CHECK_DEADLOCK FALSE
