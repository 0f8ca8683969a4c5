SPECIFICATION MCSpec
CONSTANTS
  v6 = v6
  v4 = v4
  Protocols <- BothProtocols
  MaxFlight = 2
  MaxEvents = 2
INVARIANTS
  RegisterTypeOK
  InfoReachedMaster
PROPERTY
  EventuallyListed
CHECK_DEADLOCK FALSE
