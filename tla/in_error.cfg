\* An error during a recomputation leaves freed nodes in the graph.
CONSTANTS
    f = f  g = g  h = h  a = a  b = b  c = c  one = one  two = two
    Leaves = {f, g}
    Tabled = {a, b, c}
    Vals = {one}
    Clauses <- Layers
    NoTable = NoTable
    Copies = {1, 2, 3}
    NoCopy = NoCopy
    CountRange = 16
    MaxUpdates = 3
    NestedUpdates = FALSE
SPECIFICATION SpecWithErrors
CHECK_DEADLOCK FALSE
INVARIANT FreedNotWalked
