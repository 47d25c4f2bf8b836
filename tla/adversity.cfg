CONSTANTS
    Key = {k1,k2,k3,k4,k5}
    ClientId = {c1,c2,c3}
    Scopes = {s1, s2}
    Authority = {a1}
    Null = Null
    Lifetime = 2
    RotationThreshold = 1
    Adversity = {"lag", "touch", "touchSecret", "undeploy", "externalDelete", "restart"}
    MaxGeneration = 1
    MaxCreations = 2
    MaxFaults = 2
    MaxDisruptions = 1
SPECIFICATION Spec
CHECK_DEADLOCK FALSE
SYMMETRY ScopeSymmetry
INVARIANTS IInv ClientsHeld AtMostOneClient
PROPERTIES LifecycleSpec
