\* Two predicates are abolished while tables of both are used: a table is
\* reclaimed under a choice point.
SPECIFICATION Spec
CONSTANTS
    Preds = {"p", "q"}  Goals = {"a", "b"}
    Frames = {f1, f2, f3, f4}
    Tries = {t1, t2, t3}
    DelTFs = {d1, d2, d3}
    None = None
    MaxChoices = 3
    Workloads <- TwoPredicates
SYMMETRY Addresses
INVARIANT InUseKept
