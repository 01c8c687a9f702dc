CONSTANTS
  Window = {t1}
  Game = {g1}
  Name = {n1}
  Link = {e1}
  NoLink = NoLink
  MaxAdds = 1
  MaxLinks = 1
SPECIFICATION DashboardSpec
INVARIANT LinkIsQueued
CHECK_DEADLOCK FALSE
