SPECIFICATION Spec
CONSTANTS
  Pi = 720
  lidar_resolution = 4
  Preopened = {0, 1, 2}
  Echoes = {4, 18, 30}
  lidar_min_range = 1
  lidar_max_range = 30
  GoalAngles <- MCGoalAngles
  GoalDists = {0, 8, 30}
  OriginToGoal = 21
  Metre = 20
  Cosine <- MCCosine
  MaxBatch = 2
CHECK_DEADLOCK FALSE
INVARIANTS ReportSound EachAnsweredOnce PhasesSound DestructionSound
