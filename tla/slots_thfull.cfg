\* All entries of the thread table are in use at a time.
CONSTANTS
    Entries = 3
    Tables = {"th_vec"}
    MaxUsed = 3
SPECIFICATION Spec
INVARIANT FreeIsUnused
