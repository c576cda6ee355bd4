\* 324 ground programs in which one goal's failure decides others in a chain.
SPECIFICATION Spec
CONSTANTS
  Atoms = {"t", "x", "b", "c"}
  MaxClauses = 2
  Programs <- ChainPrograms
  Queries <- ChainQueries
INVARIANTS ListsAgree Decided
PROPERTIES ImplementsResidual Terminates
