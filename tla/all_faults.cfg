SPECIFICATION PageSpec
CONSTANTS
  Threads = {1}
  Kind <- OnePR
  PageSize = 2
  PageLimit = 2
  MaxVersion = 3
  Active = {"issue", "reviews"}
  Faults <- AllFaults
  MaxFaults = 1
INVARIANTS
  TypeOK
  LastEventRecorded
  PageAgrees
  RepeatsTakeFailures
PROPERTIES
  NoDowngrade
  RowChangeIsLogged
  OnlyFailuresStrand
  OnlyFailuresStale
