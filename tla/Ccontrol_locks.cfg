SPECIFICATION Spec
CONSTANTS
  p1 = p1
  p2 = p2
  p3 = p3
  p4 = p4
  d1 = d1
  d2 = d2
  f1 = f1
  NoPid = NoPid
  Pid = {p1, p2, p3, p4}
  Dir = {d1}
  File = {f1}
  Configs <- DistccOnOff
  FirstConfigs <- OnlyDistcc
  UserCmd = {"make"}
  Spawns <- Building
  DistccLimit = 1
  MakeLimit = 1
  MaxCalls = 3
  MaxDepth = 62
  MaxEdits = 1
  Mortal = {}
SYMMETRY Slots
INVARIANTS SlowMeansHeld JobsBounded NoHoldAndWait NoWaitOnAncestor FastLimits IndInv LineInv ByteInv HeldInv
PROPERTIES SlowLockUse
