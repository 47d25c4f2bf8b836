CONSTANTS
    Caller = {p, q, r}
    ExpireAfter = 1
    MaxTime = 3
    None = None
SPECIFICATION FairSpec
INVARIANTS AtomInv
PROPERTIES AnswerFresh FetchSpacing EveryCallReturns
