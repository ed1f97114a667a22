\* Two rules, two administrators, two overlapping sweeps, two instants and a
\* lost batch; two devices for one occurrence, a claim that lives one instant.
\* Fourteen rules in three zones over a year of twelve units.
\* A route over three configurations, a credential and its successors, a
\* provider, a model and a policy, two calls.
\* Requests arrive once and time ends, so the system comes to rest.
SPECIFICATION MCSpec
CONSTANTS
    r1 = r1
    r2 = r2
    q1 = q1
    q2 = q2
    Never = Never
    Rules = {r1, r2}
    Requests = {q1, q2}
    Sweepers = {s1, s2}
    Instants <- MCInstants
    Skipped <- MCSkipped
    Keeps <- MCKeeps
    LastTime = 2
    MaxLost = 1
    Devices = {d1, d2}
    NoDevice = NoDevice
    TTL = 1
    LeaseTime = 2
    MaxVersion = 4
    DayLength = 4
    WeekLength = 3
    Reach = 3
    BatchSize = 2
    WindowSize = 4
    Candidates = 8
    SearchDays = 8
    Unscheduled = Unscheduled
    LastUnit = 12
    Configs <- MCConfigs
    CatalogCalls = {c1, c2}
    x1 = x1
    x2 = x2
    x3 = x3
    FirstCredential = f1
    NoCredential = NoCredential
INVARIANTS
    MCTypeOK
    NoInstantStranded
    OneHolder
PROPERTIES
    CursorNeverRewinds
    NoBackfill
    DueIsGenerated
    SettledStays
    SlotsAreRight
    CatalogStands
CHECK_DEADLOCK FALSE
