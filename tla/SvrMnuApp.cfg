SPECIFICATION FairSpec
CONSTANTS
  Rates = {1}
  Minute = 1
  Horizon = 4
  MaxQueued = 1
  wfh = wfh
  Nil = Nil
  Waiting = Waiting
  Order <- OneMenu
  Replies <- Quiet
  Ips = {}
  Installed = {}
  MaxRequests = 2
PROPERTIES
  ScheduleKept
  QuietWhenNobodyLooks
  RefreshingEnds
