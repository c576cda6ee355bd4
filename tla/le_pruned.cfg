\* Early completion cuts the consumer by which another subgoal is answered.
SPECIFICATION Spec
CONSTANTS
  Subgoals = {"p", "q", "g"}
  Ground = {"g"}
  Values <- MCValues
  Truth = 1
  NoGoal = "user"
  Programs <- PrunedProgram
  Queries <- PrunedQueries
INVARIANT CompletedHasAll
