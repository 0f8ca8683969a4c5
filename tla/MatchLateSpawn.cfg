SPECIFICATION Spec
CONSTANTS
  p1 = p1
  p2 = p2
  p3 = p3
  p4 = p4
  p5 = p5
  Players <- Players3
  Accounts = {}
  Teamplay = TRUE
  Survival = TRUE
  SuddenDeath = FALSE
  TickSpeed = 1
  TimerEnd = 2
  Configs <- SurvivalConfigs
  Commands = {}
  Args <- NoArgs
PROPERTIES
  SpawnsAreAllowed
