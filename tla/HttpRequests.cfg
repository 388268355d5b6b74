SPECIFICATION FairSpec
CONSTANTS
    r1 = r1
    r2 = r2
    k1 = k1
    Requests <- TwoRequests
    Endpoints <- TwoEndpoints
    Deployments <- BothDeployments
    Keys <- OneKey
INVARIANTS
    Inv
    NothingLeaks
    CleanStopCutsNothing
    OncePerKey
    OnlyAdmittedConsume
    AuditIsTheAnswer
PROPERTIES
    StopEnds
