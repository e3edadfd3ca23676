SPECIFICATION FairSpec
CONSTANTS
  Mappers = {m1, m2}
  Addresses = {home, away}
  Nil = Nil
  Waiting = Waiting
  MaxMail = 1
INVARIANTS
  TypeOK
  NothingLeft
PROPERTIES
  LatestWord
  HangsOnlyOnResponder
  LookupImplemented
