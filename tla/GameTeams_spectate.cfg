SPECIFICATION Spec
CONSTANTS
  Clients = {1, 2}
  Teams = {1}
  MaxTeamSize = 2
  SvRejoinTeam0 = TRUE
  MaxSaves = 1
  WhileSaving = {"spectate"}
INVARIANT RanksEarned
CHECK_DEADLOCK FALSE
