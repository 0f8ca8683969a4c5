SPECIFICATION Spec
CONSTANTS
  p1 = p1
  p2 = p2
  p3 = p3
  p4 = p4
  p5 = p5
  Players <- Players4
  Accounts = {}
  Teamplay = TRUE
  Survival = FALSE
  SuddenDeath = FALSE
  TickSpeed = 1
  TimerEnd = 2
  Configs <- ReadyConfigs
  Commands = {"set_team", "pause"}
  Args <- PauseArgs
SYMMETRY Symmetry
INVARIANTS
  ReadyWaitHasUnready
  RunningAllReady
  PauseCoherence
PROPERTIES
  StartsBalanced
