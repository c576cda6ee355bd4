\* Single goals and their predicate are abolished: a list of subgoals is
\* broken and the predicate's tables are reclaimed while one is evaluated.
SPECIFICATION Spec
CONSTANTS
    Preds = {"p", "q"}  Goals = {"a", "b"}
    Frames = {f1, f2, f3, f4}
    Tries = {t1, t2, t3}
    DelTFs = {d1, d2, d3}
    None = None
    MaxChoices = 3
    Workloads <- GoalsAndPredicate
SYMMETRY Addresses
INVARIANT InUseKept
