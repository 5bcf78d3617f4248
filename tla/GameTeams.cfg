SPECIFICATION Spec
CONSTANTS
  Clients = {1, 2}
  Teams = {1}
  MaxTeamSize = 2
  SvRejoinTeam0 = TRUE
  MaxSaves = 1
  WhileSaving = {}
INVARIANTS RanksEarned EmptyHasNoMembers SavedTeamKept SavedRunIsOver
CHECK_DEADLOCK FALSE
