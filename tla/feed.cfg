SPECIFICATION Spec
CONSTANTS
  Threads = {1, 2}
  Kind <- Mixed
  PageSize = 2
  MaxVersion = 2
  Active = {"issue_events", "reviews"}
  Faults <- AllFaults
  MaxFaults = 1
PROPERTIES
  FeedSpec
  TicksSpec
  TicksAreBounded
INVARIANT RowInv
