\* Three threads, every kind of mutex, two levels of recursion.
CONSTANTS
    Nobody = "nobody"
    MaxHeld = 2
    Threads <- MCThreads
    Mortal <- MCMortal
    CarelessKinds <- MCCarelessKinds
SPECIFICATION FairSpec
INVARIANTS MutexTypeOK MadeOnceBeforeUse OwnersHold
PROPERTIES MutexIsLock CallsReturn
\* Every thread may wait for one that has ended inside a critical section.
CHECK_DEADLOCK FALSE
