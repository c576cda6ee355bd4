\* A leader that waited does not know the subgoals it grabbed.
CONSTANTS
    t1 = t1  t2 = t2  t3 = t3  a = a  b = b  c = c  d = d  s = s
    Threads = {t1, t2, t3}
    Subgoals = {a, b, c, d, s}
    Predicate <- OwnPredicate
    Programs <- WaitingLeader
    FifoMutex = TRUE
    NoThread = NoThread
    NoSubgoal = NoSubgoal
SPECIFICATION Spec
INVARIANT ConsumesOwn
CHECK_DEADLOCK FALSE
