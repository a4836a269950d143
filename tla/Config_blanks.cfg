CONSTANTS
  Disks <- Trailing
  Matching = {"*", "/a"}
  Integer <- Numbers
  Home <- Homes
  Directory <- Directories
  Locked = {"/home/x"}
SPECIFICATION Spec
INVARIANT RejectsFaults
CHECK_DEADLOCK FALSE
