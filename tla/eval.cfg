\* Recursive programs of three subgoals, one of them ground.
SPECIFICATION Spec
CONSTANTS
  Subgoals = {"p", "q", "g"}
  Ground = {"g"}
  Values <- MCValues
  Truth = 1
  NoGoal = "user"
  Programs <- GroundPrograms
  Queries <- GroundQueries
INVARIANTS TypeOK QueryAnswered ConsumersFrozen
PROPERTIES ImplementsTables Terminates
