SPECIFICATION Spec
CONSTANTS
  Threads = {1}
  Kind <- OnePR
  PageSize = 2
  MaxVersion = 3
  Active = {"issue", "comments"}
  Faults = {"crash"}
  MaxFaults = 1
INVARIANT EachChangeFiresOnce
