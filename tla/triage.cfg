SPECIFICATION Spec
CONSTANTS
    a1 = a1
    a2 = a2
    a3 = a3
    v = v
    Alerts = {a1, a2, a3, v}
    Reports = {r1}
    Users = {analyst, admin}
    NoUser = NoUser
    Tier1 = {analyst}
    Tier2 = {}
    Superusers = {admin}
    Vulnerabilities = {v}
    Legacy = {a3}
    Aged = {a1, a2, a3}
    MaxCases = 2
INVARIANTS
    OneCasePerSource
    NoAlertStranded
PROPERTIES
    VerdictGivenOnce
CONSTRAINT Bounded
SYMMETRY Symmetry
CHECK_DEADLOCK FALSE
