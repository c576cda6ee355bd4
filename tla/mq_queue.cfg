\* Senders and readers share a bounded queue that is filled, searched, destroyed
\* and created again.
SPECIFICATION Spec
CONSTANTS
    p = p  q = q  r = r  a = a  b = b  c1 = c1  c2 = c2  c3 = c3
    Threads <- AllThreads
    Cells = {c1, c2}
    Terms = {a, b}
    Goals <- SplitGoals
    Sizes = {2}
    IncMod = 1024
    MaxGen = 2
    Does <- SendersAndReaders
    Signalable = {}
    Outcomes = {}
    NoThread = NoThread
    NoCell = NoCell
SYMMETRY TermSymmetry
INVARIANTS
    SearchHoldsMutex
    FreedOnce
    RightQueue
    NoStrandedSender
    NoStrandedReader
PROPERTIES
    IsMailbox
