CONSTANTS
  Tasks = {t1, t2}
  dir1 = dir1
  dir2 = dir2
  file1 = file1
  file2 = file2
  Dirs <- TwoDirs
  Files <- ThreeFiles
  Ops <- SomeOps
  UpdateParent = TRUE
  Starts <- SomeStarts
  MaxOps = 2
  MaxFaults = 1
SPECIFICATION Spec
INVARIANTS  FilesKept ReaddirComplete
SYMMETRY Symmetry
CHECK_DEADLOCK FALSE
