\* An invalidation stops half way at an incomplete table.
CONSTANTS
    f = f  g = g  h = h  a = a  b = b  c = c  one = one  two = two
    Leaves = {f, g}
    Tabled = {a, b, c}
    Vals = {one}
    Clauses <- Layers
    NoTable = NoTable
    Copies = {1, 2}
    NoCopy = NoCopy
    CountRange = 16
    MaxUpdates = 3
    NestedUpdates = TRUE
SPECIFICATION Spec
CHECK_DEADLOCK FALSE
INVARIANT CurrentAnswers
