\* Devices: an approved device, two enrollments of another key, two devices to
\* come, three requests.  Accounts: one user, one code, two requests.
\* Runs: two requests, up to three runs, one of them with a tool call's note.
\* ToolPolicy: one tool, one registration, two edits, one snapshot, one decision.
\* Requests arrive once, so the system comes to rest.
SPECIFICATION MCSpec
CONSTANTS
    Calls = {c1, c2, c3}
    Enrollments = {e0, e1, e2}
    Managed = {m0, m1, m2}
    First = m0
    FirstOf = e0
    NoDevice = NoDevice
    d0 = d0
    d1 = d1
    Keys <- MCKeys
    KeyOf <- MCKeyOf
    EnrollmentTTL = 1
    TokenTTL = 1
    DeviceTime = 1
    AccountCalls = {a1, a2}
    FirstSession = first
    Codes = {x1}
    MaxAttempts = 2
    RunCalls = {k1, k2}
    MaxRuns = 3
    MaxNotes = 1
    NotedRuns = {1}
    t1 = t1
    g1 = g1
    Tools <- MCTools
    Registrations <- MCRegistrations
    Documents <- MCDocuments
    Fingerprints = {"f1", "f2"}
    Sources = {"built_in", "plugin"}
    Risks = {1}
    NoRegistration = NoRegistration
    NoFingerprint = NoFingerprint
    Editors = {b1, b2}
    Publishers = {p1}
    Askers = {k3}
SYMMETRY MCSymmetry
INVARIANTS
    MCTypeOK
    VersionsStand
    SpentOnce
    HistoryIsWhole
PROPERTIES
    ApprovalStands
    RevokedStaysOut
    PolicyStands
CHECK_DEADLOCK FALSE
