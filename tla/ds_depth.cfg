\* The nesting counter of simplifications is not lowered on an early return.
SPECIFICATION Spec
CONSTANTS
  Atoms = {"t", "x", "b", "c"}
  MaxClauses = 2
  Programs <- ChainPrograms
  Queries <- ChainQueries
INVARIANTS DepthIsNesting
