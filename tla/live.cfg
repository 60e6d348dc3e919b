SPECIFICATION FairSpec
CONSTANTS
  Threads = {1}
  Kind <- OnePR
  PageSize = 2
  MaxVersion = 3
  Active = {"issue", "reviews"}
  Faults <- StateFaults
  MaxFaults = 1
INVARIANTS
  StateCurrent
  NothingStranded
  StrandInv
PROPERTIES
  PostedIsRecorded
  DisplayCatchesUp
