SPECIFICATION FairSpec
CONSTANTS
  Ours = {mine, mineAgain}
  Others = {theirs}
INVARIANTS
  InSync
PROPERTIES
  OthersKept
  NoticeSyncs
