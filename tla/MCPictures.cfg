SPECIFICATION Spec
CONSTANTS
  Heights = {5, 11}
  PipesSizes <- MCPipesSizes
  TrainSizes <- MCTrainSizes
  BoxSizes <- MCBoxSizes
  Randoms = {0, 2, 5}
  LENGTH = 83
  FUNNEL = 7
  MaxSmoke = 3
  BoxWidth = 4
INVARIANTS InPlace NoGhost
PROPERTIES StreamsFall KeepsMoving
