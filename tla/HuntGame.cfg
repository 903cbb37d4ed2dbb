CONSTANTS
  c1 = c1
  c2 = c2
  c3 = c3
  ann = ann
  bob = bob
  Conns = {c1, c2, c3}
  Nobody = Nobody
  Who <- MCWho
  Team <- MCTeam
  NoTeam = " "
  MaxPl = 2
  MaxUnread = 2
  MaxShots = 1
SPECIFICATION Spec
INVARIANTS PollFollows DeathsAreKills TheDeadAreGone
CHECK_DEADLOCK FALSE
