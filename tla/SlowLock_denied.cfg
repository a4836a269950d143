SPECIFICATION Spec
CONSTANTS
  p1 = p1
  p2 = p2
  p3 = p3
  config = config
  lockfile = lockfile
  NoProc = NoProc
  Proc = {p1, p2, p3}
  File = {config, lockfile}
  LockFile <- OneFile
  Cpus <- MixedCpus
  Privileged = FALSE
  Mortal = {}
INVARIANTS NeverDenied
