SPECIFICATION S3Alone
CONSTANTS
  Names = {a, b}
  MaxDepth = 3
  MaxBytes = 3
  MaxFiles = 4
  MaxFileSize = 2
  Offsets = {1, 2}
  Snapshots = {s1}
  NoSnapshot = NoSnapshot
  MaxInode = 4
  MaxHandle = 3
  MaxSaved = 2
  MaxHost = 0
  MaxErrors = 0
  MaxFaults = 0
INVARIANT NoSilentOverwrite
