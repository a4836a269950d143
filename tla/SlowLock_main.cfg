SPECIFICATION FairSpec
CONSTANTS
  p1 = p1
  p2 = p2
  p3 = p3
  config = config
  lockfile = lockfile
  NoProc = NoProc
  Proc = {p1, p2, p3}
  File = {config, lockfile}
  LockFile <- TwoFiles
  Cpus <- MixedCpus
  Privileged = FALSE
  Mortal = {p1, p2, p3}
INVARIANTS Conservation SlowLimit IndInv
PROPERTIES InitOnce Refinement Served
