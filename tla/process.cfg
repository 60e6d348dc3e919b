SPECIFICATION FairSpec
CONSTANTS
  a = a
  b = b
  Clients = {c1, c2}
  Keys = {a, b}
  NoKey = NoKey
  Releases <- TwoReleases
  Documents <- SomeDocuments
  MaxDeaths = 2
INVARIANTS
  NoBodyFails
  MigratedBeforeUse
  DeclaredIsListed
  NothingForgotten
PROPERTIES
  RowsKeepTheirIds
  ImplementsTicks
  RunsAreBounded
  RefreshIsFollowed
  StopsInTheEnd
  OpensInTheEnd
