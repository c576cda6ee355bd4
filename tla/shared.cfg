\* Three threads and three subgoals with up to two calls each, the third with one; fair scheduling.
CONSTANTS
    t1 = t1  t2 = t2  t3 = t3  a = a  b = b  c = c  d = d  s = s
    Threads = {t1, t2, t3}
    Subgoals = {a, b, c}
    Predicate <- OwnPredicate
    Programs <- SmallPrograms
    FifoMutex = TRUE
    NoThread = NoThread
    NoSubgoal = NoSubgoal
SPECIFICATION FairSpec
INVARIANT TypeOK
INVARIANT OneEvaluator
INVARIANT ConsumesOwn
INVARIANT NoCircle
PROPERTY IsTables
PROPERTY AllAnswered
