SPECIFICATION Spec
CONSTANTS
    Calls = {c1, c2}
    Traffic <- AnyTraffic
    InitialStores <- SparseStores
    MaxFaults = 1
    MaxCrashes = 1
    Volunteers <- MCVolunteers
    Requests <- MCRequests
    Customers <- MCCustomers
    Tokens <- MCTokens
    Undefined = Undefined
    v1 = v1
    r1 = r1
    r2 = r2
    k1 = k1
    tokV = tokV
    tokK = tokK
INVARIANTS
    BusyUntilFreed
PROPERTIES
    NoResurrection
    RemovedOnPurpose
    CompletionTakesHold
    AtomicDocumentCalls
