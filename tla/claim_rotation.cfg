CONSTANTS
    Key = {k1,k2,k3,k4,k5}
    ClientId = {c1,c2,c3}
    Scopes = {s1, s2}
    Authority = {a1}
    Null = Null
    Lifetime = 2
    RotationThreshold = 1
    Adversity = {"expiry"}
    MaxGeneration = 1
    MaxCreations = 1
    MaxFaults = 0
    MaxDisruptions = 0
SPECIFICATION FairSpec
CHECK_DEADLOCK FALSE
PROPERTY ExpiringKeyRotated
