CONSTANTS
  Images <- Desc32Images
  PageSize = 4096
  HiScale = 65536
  ReadLens = {1100}
    Positions = {0, 1000, 3100}
  LookupNames = {"a", "b", "c", "zz"}
  ReaddirBudgets = {2, 9}
  Pages = {0, 1}
SPECIFICATION Spec
INVARIANT MountAsSpecified
