\* Two concurrent ApplyPatch calls on an exported Integration repository.
SPECIFICATION Spec
CONSTANTS
  p1 = p1
  p2 = p2
  Appliers <- TwoAppliers
  Documents <- PolicyDocuments
  Source <- SourcePaths
  Links <- SourceLinks
  Bundles <- BundleNames
  Payload <- BundlePayload
  Fold <- CaseFold
  MaxCommits = 2
  MaxStrays = 1
SYMMETRY ApplierSymmetry
CHECK_DEADLOCK FALSE
INVARIANTS
    RepositoryIsSound
    AcceptedStays
    OnlyOwnPathsChange
