SPECIFICATION Spec
CONSTANTS
  p1 = p1
  p2 = p2
  p3 = p3
  p4 = p4
  p5 = p5
  Players <- Players3
  Accounts = {p1}
  Teamplay = FALSE
  Survival = FALSE
  SuddenDeath = TRUE
  TickSpeed = 1
  TimerEnd = 2
  Configs <- SettingConfigs
  Commands = {"minimum_players", "countdown", "pause", "restart", "set_team", "set_team_all", "player_ready_mode", "map"}
  Args <- SettingArgs
SYMMETRY Symmetry
INVARIANTS
  TypeOK
  NoWaitWithEnoughPlayers
PROPERTIES
  StartsWithEnoughPlayers
  EmptiedRoomWaits
