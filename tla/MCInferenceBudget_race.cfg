\* Two managed calls, one of them streamed, and an unmanaged one against an
\* organization budget whose limit an administrator changes, with a lost batch
\* or invocation.
\* Calls stop when time does, so the system may come to rest.
SPECIFICATION Spec
CONSTANTS
    r1 = r1
    r2 = r2
    r3 = r3
    org = org
    project = project
    user = user
    NoBudget = NoBudget
    Requests = {r1, r2, r3}
    Managed = {r1, r2}
    Streamed = {r1}
    HostSettled = {}
    Cost <- MCCost
    MaxCost = 2
    Budgets = {org}
    OrgBudgets = {org}
    Scope <- MCScope
    InitLimit <- MCLimit
    PatchLimits = {1}
    MaxConcurrent = 2
    Candidates = 1
    TTL = 2
    LastArrival = 1
    MaxFaults = 1
INVARIANTS
    TypeOK
    BooksAgree
PROPERTIES
    HardLimitNeverCrossed
    ImplementsLedger
    ClosedRowsStayClosed
CHECK_DEADLOCK FALSE
