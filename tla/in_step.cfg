SPECIFICATION Spec
CONSTANTS
  Threads = {1}
  Kind <- OnePR
  PageSize = 2
  MaxVersion = 3
  Active = {"issue", "reviews", "review_comments"}
  Faults <- InStepFaults
  MaxFaults = 1
INVARIANTS
  LastEventCovers
  EachChangeFiresOnce
  KeysTellApart
PROPERTIES
  NoDowngrade
  SwallowsOnlyWithinASecond
