\* Both tables, never full.
CONSTANTS
    Entries = 4
    Tables <- Both
    MaxUsed = 3
SPECIFICATION Spec
INVARIANT ListHoldsUsed
PROPERTY IsPool
