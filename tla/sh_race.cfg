\* A woken thread is reset before it has run.
CONSTANTS
    t1 = t1  t2 = t2  t3 = t3  a = a  b = b  c = c  d = d  s = s
    Threads = {t1, t2}
    Subgoals = {a, b, c}
    Predicate <- OwnPredicate
    Programs <- Diamond
    FifoMutex = FALSE
    NoThread = NoThread
    NoSubgoal = NoSubgoal
SPECIFICATION Spec
INVARIANT ResetSuspended
CHECK_DEADLOCK FALSE
