\* A reader cancelled between two cells leaves the mutex locked.
SPECIFICATION Spec
CONSTANTS
    p = p  q = q  r = r  a = a  b = b  c1 = c1  c2 = c2  c3 = c3
    Threads <- TwoThreads
    Cells = {c1}
    Terms = {a}
    Goals = {{a}}
    Sizes = {1}
    IncMod = 1024
    MaxGen = 1
    Does <- OneReader
    Signalable = {r}
    Outcomes = {"throw"}
    NoThread = NoThread
    NoCell = NoCell
INVARIANTS
    MutexNotLeaked
