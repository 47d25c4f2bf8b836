CONSTANTS
    ExpireAfter = 2
    GrantLife = 2
    TokenLife = 4
    MaxElapsed = 4
    MaxPause = 2
    MaxLatency = 3
    Old = 6
    Null = Null
SPECIFICATION FairSpec
INVARIANTS ApiInv FirstAttemptAuthorized AppliedAtMostOnce
PROPERTIES ImplementsApiCall EveryCallEnds
