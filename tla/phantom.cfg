SPECIFICATION Spec
CONSTANTS
  Threads = {1}
  Kind <- OnePR
  PageSize = 2
  MaxVersion = 3
  Active = {"comments"}
  Faults = {}
  MaxFaults = 0
INVARIANT NoPhantomState
