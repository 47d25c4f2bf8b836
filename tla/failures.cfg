CONSTANTS
    Key = {k1,k2,k3,k4,k5}
    ClientId = {c1,c2,c3}
    Scopes = {s1, s2}
    Authority = {a1,a2}
    Null = Null
    Lifetime = 2
    RotationThreshold = 1
    Adversity = {"touch", "touchSecret", "undeploy", "restart", "expiry"}
    MaxGeneration = 1
    MaxCreations = 1
    MaxFaults = 2
    MaxDisruptions = 1
SPECIFICATION Spec
CHECK_DEADLOCK FALSE
SYMMETRY ScopeSymmetry
INVARIANTS SecretInv RegisteredInv SecretNamesLiveClient SettledMeansRegistered
PROPERTIES UploadCoversSecret ReleasedClean
