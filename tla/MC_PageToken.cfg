CONSTANTS
    None = None
    Strings <- MCStrings
    k1 = k1
    k2 = k2
    Conns <- MCConns
SPECIFICATION Spec
INVARIANTS
    TypeOK
    PageTokenRoundTrip
