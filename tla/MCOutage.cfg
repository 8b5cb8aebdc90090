SPECIFICATION Spec
CHECK_DEADLOCK FALSE
CONSTANTS
    None = None
    js = js  mat = mat
    i1 = i1  i2 = i2
    ca = ca  cb = cb  cc = cc
    cs1 = cs1  low = low  high = high  a1 = a1  d1 = d1
    k1 = k1  k2 = k2  k3 = k3  k4 = k4    
    m1 = m1  m2 = m2
    Items = {i1, i2}
    Subjects = {js, mat}
    Candidates = {}
    Targets = {}
    ChangeSets = {cs1}
    Digests = {d1}
    Approvals = {a1}
    Keys = {k1, k2, k3, k4}
    MKeys = {m1, m2}
    Contents = {ca, cb, cc}
    Priorities = {low, high}
    ApprovalScope <- Scopes
    Workloads <- ItemWorkload
    Seeds <- SeedsOf
    MaxRequests = 2
    MaxTokens = 2
INVARIANTS OutageIsNotRemembered
