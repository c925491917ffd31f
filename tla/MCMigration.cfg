SPECIFICATION Spec
CONSTANTS
  learning = learning
  runtime = runtime
  Sources = {"learning_sqlite", "schedule_json"}
  Targets <- TwoTargets
  Pieces = 3
  Home <- PieceHome
  Worlds <- SmallWorlds
INVARIANTS PreimageKept ActiveIsComplete
PROPERTIES NewerDataKept InterruptedFinishes
CHECK_DEADLOCK FALSE
