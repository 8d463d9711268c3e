CONSTANTS
    d1 = d1
    d2 = d2
    d3 = d3
    u1 = u1
    u2 = u2
    r1 = r1
    n1 = n1
    n2 = n2
    n3 = n3
    k1 = k1
    k2 = k2
    Devices = {d1, d2, d3}
    UserOf <- MCUserOf
    Companions = {}
    MaxRequests = 4
    Owner = u1
    FirstTiers <- MCFirstTiers
    Present = {d1, d2}
    Scripts <- MCScripts
    CustomRoles = {r1}
    CustomBits <- MCCustomBits
    MaxUses = 1
    MaxAsks = 3
    Conns = {n1, n2, n3}
    ClientOf <- MCClientOf
    Emails = {"x", "y"}
    FirstEmail = "x"
    Plans <- MCPlans
    LoginFailLimit = 1
    MaxUserIds = 2
    MaxLate = 1
    MaxTokens = 3
SPECIFICATION MCSpec
CHECK_DEADLOCK FALSE
INVARIANT BlockedIsNotReached
