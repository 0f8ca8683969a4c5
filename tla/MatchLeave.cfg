SPECIFICATION Spec
CONSTANTS
  p1 = p1
  p2 = p2
  p3 = p3
  p4 = p4
  p5 = p5
  Players <- Players5
  Accounts = {}
  Teamplay = TRUE
  Survival = FALSE
  SuddenDeath = TRUE
  TickSpeed = 1
  TimerEnd = 2
  Configs <- LeaveConfigs
  Commands = {"set_team"}
  Args <- NoArgs
SYMMETRY Symmetry
INVARIANTS
  EmptyRoomIsKnown
