SPECIFICATION FairSpec
CONSTANTS
    Calls = {c1, c2}
    Traffic <- HandlerTraffic
    InitialStores <- FreshStores
    MaxFaults = 1
    MaxCrashes = 0
    Volunteers <- MCVolunteers
    Requests <- MCRequests
    Customers <- MCCustomers
    Tokens <- MCTokens
    Undefined = Undefined
    v1 = v1
    r1 = r1
    r2 = r2
    k1 = k1
    tokV = tokV
    tokK = tokK
INVARIANT NoCallHangs
PROPERTY EveryCallAnswered
