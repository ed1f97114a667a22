\* A project budget of 2 and a user budget of 1 for r1's principal.
SPECIFICATION Spec
CONSTANTS
    r1 = r1
    r2 = r2
    r3 = r3
    org = org
    project = project
    user = user
    NoBudget = NoBudget
    Requests = {r1, r2}
    Managed = {r1, r2}
    Streamed = {}
    HostSettled = {}
    Cost <- MCCost
    MaxCost = 2
    Budgets = {project, user}
    OrgBudgets = {}
    Scope <- MCScope
    InitLimit <- MCLimit
    PatchLimits = {}
    MaxConcurrent = 2
    Candidates = 1
    TTL = 2
    LastArrival = 1
    MaxFaults = 0
INVARIANTS
    SpendWithinEveryLimit
CHECK_DEADLOCK FALSE
