CONSTANTS
    Key = {k1,k2,k3,k4,k5}
    ClientId = {c1,c2,c3}
    Scopes = {s1, s2}
    Authority = {a1}
    Null = Null
    Lifetime = 2
    RotationThreshold = 1
    Adversity = {"restart", "expiry"}
    MaxGeneration = 2
    MaxCreations = 1
    MaxFaults = 1
    MaxDisruptions = 0
SPECIFICATION FairSpec
CHECK_DEADLOCK FALSE
INVARIANTS SettledMeansApplied
PROPERTIES ScopesEventuallyServed DeletionCompletes CleanupCompletes
