CONSTANTS
    c1 = c1
    u1 = u1
    u2 = u2
    u3 = u3
    ns1 = ns1
    n1 = n1
    n2 = n2
    NoRow = NoRow
    NoId = NoId
    Clients <- MCClients
    Uuids <- MCUuids
    Namespaces <- MCNamespaces
    Names <- MCNames
    Locs <- MCLocs
    Paths <- MCPaths
    Requirements <- MCRequirements
    Updates <- MCUpdates
    MaxSnaps = 1
    MaxChanges = 1
    MaxTablesPerCommit = 1
    Isolation = "repeatable_read"
SPECIFICATION Spec
CHECK_DEADLOCK FALSE
INVARIANTS
    LookupComplete
    OwnerUnlessWildcard
