SPECIFICATION Spec
CONSTANTS
  TaskIds = {1, 2, 3}
  Actions = {x}
  Limit = 1
  Windows = {1, 2}
  Horizon = 2
  MaxPages = 8
CHECK_DEADLOCK FALSE
INVARIANTS WalkIsInOrder SteadyTasksAreShown
