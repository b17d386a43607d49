SPECIFICATION Spec
CONSTANTS
    Calls = {c1}
    Traffic <- AcceptVolTraffic
    InitialStores <- FreshStores
    MaxFaults = 0
    MaxCrashes = 0
    Volunteers <- MCVolunteers
    Requests <- MCRequests
    Customers <- MCCustomers
    Tokens <- MCTokens
    Undefined = Undefined
    v1 = v1
    r1 = r1
    r2 = r2
    k1 = k1
    tokV = tokV
    tokK = tokK
INVARIANT VolunteerInformed
