SPECIFICATION FairSpec
CONSTANTS
  Threads = {1}
  Kind <- OnePR
  PageSize = 2
  MaxVersion = 3
  Active = {"comments"}
  Faults = {"crash"}
  MaxFaults = 1
PROPERTY LastEventCatchesUp
