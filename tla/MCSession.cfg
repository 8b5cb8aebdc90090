\* A Worker session: calls in flight, cancel, close, deadline, limits.
SPECIFICATION Spec
CONSTANTS
  c1 = c1
  c2 = c2
  c3 = c3
  Callers <- ThreeCallers
  Classes <- SessionClasses
  Role = "worker-a"
  Projection <- ProjectionPaths
  Workloads <- SessionWorkloads
  LimitProcs = 2
  LimitFiles = 1
  LimitBytes = 3
  LimitMemory = 1
  LimitCPU = 1
CHECK_DEADLOCK FALSE
INVARIANTS
    TrackedWithinLimits
    EndIsFinal
    PatchMatchesBase
PROPERTIES
    CallsReturn
    ExpiryStopsEverything
