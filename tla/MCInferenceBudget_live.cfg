\* Liveness: two managed calls, one of them streamed, two candidates each; the
\* host may settle the hold of the streamed call; one fault.
SPECIFICATION FairSpec
CONSTANTS
    r1 = r1
    r2 = r2
    r3 = r3
    org = org
    project = project
    user = user
    NoBudget = NoBudget
    Requests = {r1, r2}
    Managed = {r1, r2}
    Streamed = {r1}
    HostSettled = {r1}
    Cost <- MCCost
    MaxCost = 2
    Budgets = {org, project}
    OrgBudgets = {org}
    Scope <- MCScope
    InitLimit <- MCLimit
    PatchLimits = {}
    MaxConcurrent = 2
    Candidates = 2
    TTL = 2
    LastArrival = 1
    MaxFaults = 1
PROPERTIES
    SettledHoldsStaySettled
    HoldsLapse
    CallsClose
CHECK_DEADLOCK FALSE
