\* Two threads create, join and detach others, with and without an alias; fair scheduling.
CONSTANTS
    Entries = 2
    MaxCreated = 3
    Callers <- MainAnd1
    Kinds = {"joinable", "detached"}
    Aliases = {a1}
    NoAlias = NoAlias
    Results = {"ball"}
    Refusals = {TRUE, FALSE}
SPECIFICATION FairSpec
INVARIANT EntryPerThread
INVARIANT StatusPersists
PROPERTY GivenBackOnce
PROPERTY EntryReturns
CHECK_DEADLOCK FALSE
