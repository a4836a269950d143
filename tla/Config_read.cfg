CONSTANTS
  Disks <- Texts
  Matching = {"*", "/a"}
  Integer <- Numbers
  Home <- Homes
  Directory <- Directories
  Locked = {"/home/x"}
SPECIFICATION Spec
INVARIANTS ReadingInv ReadsAsWritten RejectsFaults PrintsWhatApplies
PROPERTIES Advances Ends
CHECK_DEADLOCK FALSE
