SPECIFICATION NoticesSpec
CONSTANTS
    Users = {ana, bo, may, act, adm, rt, own, root}
    NoUser = NoUser
    Creator = ana
    Tier1 = {ana, act}
    Tier2 = {bo, act}
    Managers = {may, act}
    SysAdmins = {adm}
    Responders = {rt}
    Superusers = {root}
    Requests = {}
    Idle = Idle
    Races = {}
    Owners = {own}
    SystemOwner = own
    Addressed = {ana, bo, may, adm, rt, own}
    assigned_to = ana
INVARIANTS
    OffersAreKept
    WaitsOnADesk
    EmergencyNeedsManager
PROPERTIES HandoversAreAnnounced AddresseesMayRead
VIEW View
CHECK_DEADLOCK FALSE
