SPECIFICATION FairSpec
CONSTANTS
    r1 = r1
    r2 = r2
    Requests <- TwoRequests
    RetryWindow = 1
    Lifetimes <- Lifetime
    MaxGeneration = 3
    MaxStall = 1
    MaxTime = 5
    Durable = TRUE
INVARIANTS
    Inv
    ReplayIsStale
    ReplayWasSuperseded
PROPERTIES
    AnswersConverge
    KeepsFamilyPromise
    RequestsFinish
