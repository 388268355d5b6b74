SPECIFICATION Spec
CONSTANTS
    r1 = r1
    r2 = r2
    Requests <- TwoRequests
    RetryWindow = 2
    Lifetimes <- Lifetime
    MaxGeneration = 3
    MaxStall = 4
    MaxTime = 7
    Durable = TRUE
INVARIANT
    ReplayWasSuperseded
