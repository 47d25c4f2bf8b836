CONSTANTS
    a = a
    b = b
    c = c
    d = d
    m = m
    Resource = {a, b, c, d, m}
    Name <- MCName
    Namespace <- MCNamespace
    ServiceOwnerName = "local"
    Environment = "local"
    Key = {k1, k2, k3, k4, k5}
    Lifetime = 2
    RotationThreshold = 1
    ClientId = {c1, c2, c3, c4}
    Scopes = {s1, nil, empty}
    Authority = {a1}
    AuthorityUrl = a1
    NilScopes = nil
    EmptyScopes = empty
    EmptyAnswer = nil
    Null = Null
    MaxEdits = 3
    MaxFaults = 1
SPECIFICATION Spec
CHECK_DEADLOCK FALSE
INVARIANTS ManyInv QuietInv NamedClientsHeld OneClientPerName SoleServed QuietIfAnsweredAlike
PROPERTIES NameIsolation
