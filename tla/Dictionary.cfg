SPECIFICATION FairSpec
CONSTANTS
    Requests <- TwoRequests
    Remote <- OneRemote
    Worker = "worker"
    Values <- OneValue
    Initial <- OneValue
    MaxCommits = 3
    MaxVersion = 2
    MaxFailures = 1
INVARIANTS Inv
PROPERTIES NoLostUpdate CatalogNeverGoesBack KeepsRegisterPromise Converges
