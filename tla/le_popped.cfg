\* A leader whose frame left the heap becomes a consumer that nothing schedules.
SPECIFICATION Spec
CONSTANTS
  Subgoals = {"e", "d", "a"}
  Ground = {}
  Values <- MCValues
  Truth = 1
  NoGoal = "user"
  Programs <- PoppedProgram
  Queries <- PoppedQueries
INVARIANT CompletedHasAll
