SPECIFICATION Spec
CONSTANTS
  Events = 4
  PresCapacity = 2
  Capacity = 2
  Detached = Detached
  Finished = Finished
  End = End
PROPERTY StopCompletes
CHECK_DEADLOCK FALSE
