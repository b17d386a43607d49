SPECIFICATION Spec
CONSTANTS
    Calls = {c1, c2, c3}
    Traffic <- MatchTraffic
    InitialStores <- MatchStores
    MaxFaults = 0
    MaxCrashes = 0
    Volunteers <- MCVolunteers
    Requests <- MCRequests
    Customers <- MCCustomers
    Tokens <- MCTokens
    Undefined = Undefined
    v1 = v1
    r1 = r1
    r2 = r2
    k1 = k1
    tokV = tokV
    tokK = tokK
SYMMETRY CallSymmetry
INVARIANT TypeOK
INVARIANT BusyUntilFreed
PROPERTY NoResurrection
PROPERTY RemovedOnPurpose
PROPERTY AcceptanceTakesHold
PROPERTY CompletionTakesHold
