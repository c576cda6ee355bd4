\* A recursive program of three tables, with three updates.
CONSTANTS
    f = f  g = g  h = h  a = a  b = b  c = c  one = one  two = two
    Leaves = {f, g}
    Tabled = {a, b, c}
    Vals = {one}
    Clauses <- Recursive
    NoTable = NoTable
    Copies = {1, 2}
    NoCopy = NoCopy
    CountRange = 16
    MaxUpdates = 3
    NestedUpdates = FALSE
SPECIFICATION FairSpec
INVARIANT TypeOK
INVARIANT CurrentAnswers
INVARIANT InvalidUpwards
PROPERTY DependenciesFirst
PROPERTY IsView
PROPERTY QueryEnds
