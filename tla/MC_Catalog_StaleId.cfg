CONSTANTS
    c1 = c1
    c2 = c2
    u1 = u1
    u2 = u2
    u3 = u3
    ns1 = ns1
    ns2 = ns2
    n1 = n1
    n2 = n2
    NoRow = NoRow
    NoId = NoId
    Clients <- MCClients
    Uuids <- MCUuidsTwo
    Namespaces <- MCNamespaces
    Names <- MCNamesTwo
    Locs <- MCLocs
    Requirements <- MCRequirements
    Updates <- MCUpdates
    MaxSnaps = 1
    MaxChanges = 1
    MaxTablesPerCommit = 2
    Isolation = "repeatable_read"
SYMMETRY MCSymmetry
SPECIFICATION Spec
CHECK_DEADLOCK FALSE
PROPERTY
    ByIdWriteTargetsSource
