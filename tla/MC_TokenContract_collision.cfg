\* The instance of MC_TokenContract.cfg, checking that the supply equals the sum of the balances.
CONSTANTS
    a = a
    b = b
    h1 = h1
    p1 = p1
    badTime = badTime
    Clients <- MCClients
    Org1Clients <- MCOrg1Clients
    HashLocks = {h1}
    Passwords = {p1}
    TimeLocks = {1}
    BadTime = badTime
    Amounts <- MCAmounts
    MaxInt = 1
    MaxTime = 2
    TotalSupplyKey = "totalSupply"
SPECIFICATION Spec
INVARIANT
    SupplyConserved
