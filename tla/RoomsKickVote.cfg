SPECIFICATION MCSpec
CONSTANTS
  c1 = c1
  c2 = c2
  c3 = c3
  Clients <- ThreeClients
  MaxRooms = 3
  MapEntities = 2
  EntitiesPerTick = 2
  JoinCreates = TRUE
  MaxVisits = 2
  MaxReloads = 2
INVARIANT
  KickVotesAreAborted
CHECK_DEADLOCK FALSE
