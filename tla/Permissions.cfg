SPECIFICATION PermissionsSpec
CONSTANTS
    d = d
    a = a
    b = b
    x = x
    All = All
    None = None
    NodeKeys <- MCNodeKeys
    Features <- MCFeatures
    EndpointsOf <- MCEndpointsOf
    ResourceOf <- MCResourceOf
    Documents <- MCDocuments
    ResourceRenames <- MCResourceRenames
    FeatureRenames <- MCFeatureRenames
    Targets <- MCTargets
    Parameters <- MCParameters
    RouteTable <- MCRouteTable
    OtherScopes <- MCOtherScopes
    ResetTargets <- MCResetTargets
INVARIANTS
    PermissionsTypeOK
    PickerAgrees
    CheckFollowsTheRouter
PROPERTIES
    GrantsFollowTheCatalog
