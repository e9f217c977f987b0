CONSTANTS
    c1 = c1
    c2 = c2
    w1 = w1
    w2 = w2
    w3 = w3
    p1 = p1
    n1 = n1
    n2 = n2
    s1 = s1
    s2 = s2
    s3 = s3
    NoSecret = NoSecret
    NoWh = NoWh
    Clients <- MCClients
    WhIds <- MCWhIds
    Projects <- MCProjects
    WhNames <- MCWhNames
    Secrets <- MCSecrets
    MaxRequests = 3
SPECIFICATION Spec
CHECK_DEADLOCK FALSE
PROPERTIES
    CreateReturns
