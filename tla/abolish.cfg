\* Tables of a predicate, of a goal or of all are abolished while older ones
\* are still used, and the addresses of reclaimed ones are used again.
SPECIFICATION Spec
CONSTANTS
    Preds = {"p", "q"}  Goals = {"a", "b"}
    Frames = {f1, f2, f3, f4}
    Tries = {t1, t2, t3}
    DelTFs = {d1, d2, d3}
    None = None
    MaxChoices = 3
    Workloads <- Separate
SYMMETRY Addresses
INVARIANTS ChainsAgree NothingLost
PROPERTIES GcReclaims IsTableStore
