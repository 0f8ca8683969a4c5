SPECIFICATION Spec
CONSTANTS
  p1 = p1
  p2 = p2
  p3 = p3
  p4 = p4
  p5 = p5
  Players <- Players4
  Accounts = {}
  Teamplay = TRUE
  Survival = FALSE
  SuddenDeath = TRUE
  TickSpeed = 1
  TimerEnd = 2
  Configs <- TeamConfigs
  Commands = {"swap_teams", "shuffle_teams"}
  Args <- NoArgs
SYMMETRY Symmetry
INVARIANTS
  SizesMatch
  BalanceOk
