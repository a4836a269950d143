SPECIFICATION FairSpec
CONSTANTS
  p1 = p1
  p2 = p2
  p3 = p3
  p4 = p4
  d1 = d1
  d2 = d2
  f1 = f1
  NoPid = NoPid
  Pid = {p1, p2, p3}
  Dir = {d1}
  File = {f1}
  Configs <- WithDistcc
  FirstConfigs <- WithDistcc
  UserCmd = {"make", "cc"}
  Spawns <- Mistaken
  DistccLimit = 1
  MakeLimit = 1
  MaxCalls = 1
  MaxDepth = 62
  MaxEdits = 0
  Mortal = {"cc"}
PROPERTIES EveryCommandEnds
CHECK_DEADLOCK FALSE
