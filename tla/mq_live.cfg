\* Readers are served and a destroyed queue is freed, under fair scheduling.
SPECIFICATION FairSpec
CONSTANTS
    p = p  q = q  r = r  a = a  b = b  c1 = c1  c2 = c2  c3 = c3
    Threads <- AllThreads
    Cells = {c1}
    Terms = {a, b}
    Goals = {{a}}
    Sizes = {1}
    IncMod = 1024
    MaxGen = 1
    Does <- Mixed
    Signalable = {}
    Outcomes = {}
    NoThread = NoThread
    NoCell = NoCell
PROPERTIES
    ReadersServed
    EntryReturns
