SPECIFICATION RunsSpec
CONSTANTS
    p1 = p1  p2 = p2
    cs = cs  r1 = r1  r2 = r2  Config = Config  Absent = Absent
    v0 = v0  v1 = v1  v2 = v2  v3 = v3  w0 = w0  w1 = w1  w2 = w2
    Procs = {p1}
    Records = {cs, r1, r2}
    Values = {v0, v1, v2, v3, w0, w1, w2}
    Dirs = {"control", "change-sets", "requirements"}
    Dir <- DirOf
    Rank <- PathOrder
    Commands <- AllCommands
    Initial <- Starts
    Checkouts <- Pushed
    Edits = {}
    Faults = {}
    MaxCommands = 1
    MaxHead = 1
CHECK_DEADLOCK FALSE
PROPERTIES
    NoSilentOverwrite
