\* falsecount wraps around and an invalid table passes for valid.
CONSTANTS
    f = f  g = g  h = h  a = a  b = b  c = c  one = one  two = two
    Leaves = {f, g}
    Tabled = {a, b, c}
    Vals = {one}
    Clauses <- Layers
    NoTable = NoTable
    Copies = {1, 2}
    NoCopy = NoCopy
    CountRange = 2
    MaxUpdates = 3
    NestedUpdates = FALSE
SPECIFICATION Spec
CHECK_DEADLOCK FALSE
INVARIANT CurrentAnswers
