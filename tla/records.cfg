SPECIFICATION Records
CONSTANTS
    ana = ana
    bo = bo
    cy = cy
    may = may
    adm = adm
    i1 = i1
    i2 = i2
    r1 = r1
    r2 = r2
    q1 = q1
    q2 = q2
    ro = ro
    ru = ru
    Unfiled = Unfiled
    Malformed = Malformed
    NoEdit = NoEdit
    NoPage = NoPage
    Users = {ana, bo, cy, may, adm}
    NoUser = NoUser
    Creator = ana
    Tier1 = {ana}
    Tier2 = {bo, cy}
    Managers = {may}
    SysAdmins = {adm}
    Responders = {}
    Superusers = {}
    Values = {1, 2}
    Filed = 1
    FormFields = {"text"}
    Written = 0
    Notes = {0, 1}
    FirstTickets <- CaseTickets
    MaxLogs = 4
    MaxChanges = 2
    MaxRevisions = 2
    IocTickets = {"TCK-1"}
    Indicators = {i1, i2}
    Spellings = {"plain", "defanged", "other", "garbled"}
    Spells <- Spelling
    Edits = {r1, r2}
    MaxEntries = 2
    NoteTexts = {"", "seen"}
    Accounts = {ro, ru}
    Manager = may
    Requests = {q1, q2}
    FirstProfiles <- RoutedProfiles
    FirstRequests <- RoutedRequests
INVARIANTS
    NoValueIsForgotten
    OriginalIsKept
    CloseIsCredited
    ListedOnce
PROPERTIES
    AnnotationsFollow
    RequestsReachTheirTeam
VIEW View
SYMMETRY Symmetry
CONSTRAINT Bounded
CHECK_DEADLOCK FALSE
