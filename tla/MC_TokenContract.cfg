\* Two clients, one of them in Org1; one hash lock; 2-bit words (MaxInt = 1), so a second Mint of 1 overflows.
CONSTANTS
    a = a
    b = b
    h1 = h1
    p1 = p1
    badTime = badTime
    Clients <- MCClients
    Org1Clients <- MCOrg1Clients
    HashLocks = {h1}
    Passwords = {p1}
    TimeLocks = {1}
    BadTime = badTime
    Amounts <- MCAmounts
    MaxInt = 1
    MaxTime = 2
    TotalSupplyKey = "totalSupply"
SPECIFICATION Spec
INVARIANTS
    TypeOK
    NoOverdraft
PROPERTY
    SupplyMovesUnlessAliased
