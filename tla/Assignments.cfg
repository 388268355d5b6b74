SPECIFICATION Spec
CONSTANTS
    admin = admin
    assistant = assistant
    newcomer = newcomer
    role = role
    group = group
    all = all
    manage = manage
    spare = spare
    system = system
    users = users
    people = people
    staff = staff
    basic = basic
    q1 = q1
    q2 = q2
    q3 = q3
    Users <- ThreeUsers
    Roles <- OneRole
    UserGroups <- OneGroup
    Codes <- ThreeCodes
    Keys <- ThreeKeys
    PermissionGroups <- TwoPermissionGroups
    Concerns <- Operation
    Documents <- FiveDocuments
    FirstDocument <- First
    FirstActions <- Actions
    FirstCodes <- Assigned
    FirstPresent <- Existing
    Requests <- ThreeRequests
    None = None
SYMMETRY Symmetry
CHECK_DEADLOCK FALSE
INVARIANTS Inv CodesResolve ActionsResolve GrantsStand
PROPERTIES DefaultsAreCurrent
