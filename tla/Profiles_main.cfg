CONSTANTS
  default = default
  work = work
  i1 = i1
  i2 = i2
  i3 = i3
  None = None
  Name = {default, work}
  Default = default
  Named <- TwoProfiles
  Linked = default
  Inode = {i1, i2, i3}
  First = 1
  MaxLen = 3
  MaxEdits = 4
  MaxTime = 1
SPECIFICATION Spec
INVARIANTS BufferFits IndInv
PROPERTIES RunsWithCurrent RestartsOnChange Decides
