SPECIFICATION FairSpec
CONSTANTS
  p1 = p1
  p2 = p2
  p3 = p3
  p4 = p4
  p5 = p5
  Players <- Players2
  Accounts = {p1}
  Teamplay = FALSE
  Survival = TRUE
  SuddenDeath = TRUE
  TickSpeed = 1
  TimerEnd = 2
  Configs <- OpenConfigs
  Commands = {}
  Args <- NoArgs
INVARIANTS
  RespawnInWarmup
PROPERTIES
  GameGoesOn
  DecidedRoundEnds
