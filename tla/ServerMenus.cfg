SPECIFICATION Spec
CONSTANTS
  wfh = wfh
  anu = anu
  home = home
  away = away
  Nil = Nil
  Waiting = Waiting
  Order <- TheOrder
  Replies <- BusyOrQuiet
  Ips = {home}
  Installed = {wfh}
  MaxRequests = 1
INVARIANTS
  TypeOK
  StatusTitleCurrent
  OnlyPrimaryChecked
  RebuildExact
  TitleSettles
