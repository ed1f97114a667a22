\* The instance of MCAutomations.cfg, asked whether an expired claim is
\* offered again.
SPECIFICATION MCLeaseSpec
CONSTANTS
    r1 = r1
    r2 = r2
    q1 = q1
    q2 = q2
    Never = Never
    Rules = {r1, r2}
    Requests = {q1, q2}
    Sweepers = {s1, s2}
    Instants <- MCInstants
    Skipped <- MCSkipped
    Keeps <- MCKeeps
    LastTime = 2
    MaxLost = 1
    Devices = {d1, d2}
    NoDevice = NoDevice
    TTL = 1
    LeaseTime = 2
    MaxVersion = 4
    DayLength = 4
    WeekLength = 3
    Reach = 3
    BatchSize = 2
    WindowSize = 4
    Candidates = 8
    SearchDays = 8
    Unscheduled = Unscheduled
    LastUnit = 12
    Configs <- MCConfigs
    CatalogCalls = {c1, c2}
    x1 = x1
    x2 = x2
    x3 = x3
    FirstCredential = f1
    NoCredential = NoCredential
PROPERTIES
    ExpiredIsReoffered
CHECK_DEADLOCK FALSE
