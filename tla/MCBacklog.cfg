SPECIFICATION BacklogSpec
CONSTANTS
    None = None  dt = dt  human = human
    tp1 = tp1  tp2 = tp2  x1 = x1  x2 = x2
    i1 = i1  i2 = i2  cs1 = cs1  cs2 = cs2
    a1 = a1  a2 = a2  a3 = a3  k1 = k1  k2 = k2
    Topics = {tp1, tp2}
    Texts = {x1, x2}
    Subjects = {dt, human}
    ChangeSets = {cs1, cs2}
    Items = {i1}
    Approvals = {a1, a2}
    Keys = {k1}
    Calls = {}
    Grants = {}
    MaxRequests = 2
    MaxRevision = 4
    MaxLag = 1
    MaxTime = 1
CHECK_DEADLOCK FALSE
SYMMETRY ApprovalSymmetry
INVARIANTS
    IndexIsExact
    RevisionConsumedOnce
    ApprovalRefinesOnce
    PrioritySnapshotAgrees
PROPERTIES
    RefinedAsApproved
