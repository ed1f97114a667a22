\* The instance of MCTenancy.cfg, asked whether a version conflict means a changed row.
SPECIFICATION MCSpec
CONSTANTS
    q1 = q1
    q2 = q2
    q3 = q3
    k1 = k1
    Nobody = Nobody
    Requests = {q1, q2, q3}
    Keys = {k1}
    KeyOf <- MCKeyOf
    Command <- MCCommand
    TTL = 2
    LastArrival = 3
    MaxFaults = 1
    Users = {u1, u2}
    Founder = u1
    Invitations = {i1}
    Calls = {c1, c2, c3}
    InviteTTL = 1
    LastInstant = 1
    Approvers = {u1, u2}
    Attempts = {c1, c2, c3}
    NoUser = NoUser
    CodeTTL = 1
    CodeTime = 1
    ToolCallIds = {t1, t2}
    Deciders = {c1, c2}
    Resolvers = {a1, a2}
    Reporters = {p1}
    Policies = {"allow", "session", "per_use", "deny"}
    ApprovalTTL = 1
    LastMoment = 1
    MaxEdits = 1
    ServiceAccounts = {s1, s2}
    ApiKeys = {e1, e2, e3}
    KeyRequests = {c1, c2}
    Capabilities = {c}
    Versions = {1, 2}
    MaxAccounts = 1
    MaxKeys = 2
    NoKey = NoKey
SYMMETRY MCSymmetry
PROPERTIES
    ConflictMeansChanged
CHECK_DEADLOCK FALSE
