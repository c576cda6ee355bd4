\* A consumer drops out of the list of those to be scheduled.
SPECIFICATION Spec
CONSTANTS
  Subgoals = {"t", "p", "q", "a", "b"}
  Ground = {"q"}
  Values <- MCValues
  Truth = 1
  NoGoal = "user"
  Programs <- LostProgram
  Queries <- LostQueries
INVARIANT CompletedHasAll
