SPECIFICATION MCSpec
CONSTANTS
  Names = {a, b}
  MaxDepth = 3
  MaxBytes = 3
  MaxFiles = 4
  MaxFileSize = 2
  Offsets = {1, 2}
  Snapshots = {s1}
  NoSnapshot = NoSnapshot
  MaxInode = 4
  MaxHandle = 3
  MaxSaved = 2
  MaxHost = 1
  MaxErrors = 1
  MaxFaults = 2
SYMMETRY NameSymmetry
INVARIANTS
  Types TotalsWithinQuota TreeSound RetiredStayClosed LocalTotals SuitePasses
  OneRevision NoOrphanUpload DirectoriesStay
