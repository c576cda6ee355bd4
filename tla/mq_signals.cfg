\* Signals interrupt senders and readers anywhere.
SPECIFICATION Spec
CONSTANTS
    p = p  q = q  r = r  a = a  b = b  c1 = c1  c2 = c2  c3 = c3
    Threads <- AllThreads
    Cells = {c1, c2}
    Terms = {a}
    Goals = {{a}}
    Sizes = {1}
    IncMod = 1024
    MaxGen = 2
    Does <- TwoSenders
    Signalable = {q, r}
    Outcomes = {"return", "throw"}
    NoThread = NoThread
    NoCell = NoCell
INVARIANTS
    QueueInv
