\* The alias of a running thread is removed.
CONSTANTS
    Entries = 3
    MaxCreated = 2
    Callers <- MainOnly
    Kinds = {"joinable", "detached"}
    Aliases = {a1, a2}
    NoAlias = NoAlias
    Results = {"true", "ball"}
    Refusals = {FALSE}
SPECIFICATION Spec
INVARIANT AliasKept
CHECK_DEADLOCK FALSE
