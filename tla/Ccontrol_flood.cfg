SPECIFICATION Spec
CONSTANTS
  p1 = p1
  p2 = p2
  p3 = p3
  p4 = p4
  d1 = d1
  d2 = d2
  f1 = f1
  NoPid = NoPid
  Pid = {p1, p2, p3, p4}
  Dir = {d1}
  File = {f1}
  Configs <- OnlyBoth
  FirstConfigs <- OnlyBoth
  UserCmd = {"cc", "ld"}
  Spawns <- Building
  DistccLimit = 2
  MakeLimit = 1
  MaxCalls = 2
  MaxDepth = 62
  MaxEdits = 0
  Mortal = {}
SYMMETRY Slots
INVARIANTS JobsBounded
