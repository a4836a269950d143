CONSTANTS
  Lines <- TheLines
  Configs <- TheConfigs
  Cwd <- HereDir
  Environs <- TheEnvirons
  Spare = 5
SPECIFICATION Spec
INVARIANTS RunsWhatWasTyped RunsParallel DistccWhereItCan EnvironmentOfSection StaysInRoom IndInv RoundInv
CHECK_DEADLOCK FALSE
