SPECIFICATION Spec
CONSTANTS
  Clients = {1, 2, 3}
  AllyTeams = {0, 1}
  Reentrant = TRUE
INVARIANT NoReadPastEnd
CHECK_DEADLOCK FALSE
