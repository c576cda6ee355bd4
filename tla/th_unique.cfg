\* Two threads get the same alias.
CONSTANTS
    Entries = 4
    MaxCreated = 3
    Callers <- MainAnd1
    Kinds = {"detached"}
    Aliases = {a1}
    NoAlias = NoAlias
    Results = {"true"}
    Refusals = {FALSE}
SPECIFICATION Spec
INVARIANT AliasUnique
CHECK_DEADLOCK FALSE
