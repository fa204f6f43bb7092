SPECIFICATION Spec
CONSTANTS
  Systems = {v1, v2}
  Snapshots = {s1}
  Inodes = {i1, i2}
  Bytes <- MCBytes
  Zero = 0
  Blocks = {b1, b2, b3, b4}
  NoBlock = NoBlock
  Offsets = {0, 1}
  Pieces <- MCPieces
  Sizes = {0, 2}
  Absent = Absent
SYMMETRY MCSymmetry
INVARIANT TypeOK
PROPERTY CopiesImplemented
