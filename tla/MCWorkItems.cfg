SPECIFICATION WorkSpec
CONSTANTS
    None = None
    i1 = i1  i2 = i2  i3 = i3
    s1 = s1  s2 = s2  s3 = s3  s4 = s4  mat = mat  dt = dt  human = human  rcn = rcn
    m1 = m1  m2 = m2  m3 = m3
    c1 = c1  c2 = c2  t1 = t1  t2 = t2  cs1 = cs1  d1 = d1
    a1 = a1  a2 = a2  a3 = a3  k1 = k1  k2 = k2
    Items = {i1, i2}
    Subjects = {s1, s2, s3, s4, mat, dt, human, rcn}
    Candidates = {c1, c2}
    Targets = {t1, t2}
    ChangeSets = {cs1}
    Digests = {d1}
    Approvals = {a1, a2}
    Keys = {k1}
    MKeys = {m1, m2}
    PlannedItem <- Planned
    Materializer = mat
    LeaseDuration = 1
    Calls <- LifecycleCalls
    Reports = {}
    Observations <- LifecycleObservations
    Grants = {}
    MaxVersion = 8
    MaxTime = 1
    MaxLag = 1
    MaxSubmissions = 3
SYMMETRY Symmetry
CHECK_DEADLOCK FALSE
INVARIANTS
    ExecutionIsFenced
    EveryVersionConsumedOnce
    EvidenceIsFresh
    DependenciesCompleted
    OneItemPerKey
    PendingIsActive
    ApprovalAuthorizesOnce
    RetryReturnsOriginal
PROPERTIES
    FreshFencePerAttempt
    CompletionIsBound
    ImplementsContract
    UnblockedByHuman
