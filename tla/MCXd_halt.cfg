\* The loop of `continue` on a program with a `halt`.
CONSTANTS
    Half = 8
    MaxLen = 0
    StackCap = 2
    CallCap = 1
    MaxBreakpoints = 1
    Registers <- MCRegisters
    Names <- MCNames
    Programs <- HaltPrograms
    Addresses <- MCAddresses
    Indexes <- MCIndexes
SPECIFICATION XdFairSpec
PROPERTIES ContinueUntilEnd
CHECK_DEADLOCK FALSE
