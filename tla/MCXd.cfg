\* Every session with up to three breakpoints on programs of up to three
\* instructions.
CONSTANTS
    Half = 8
    MaxLen = 0
    StackCap = 1
    CallCap = 1
    MaxBreakpoints = 3
    Registers <- MCRegisters
    Names <- MCNames
    Programs <- XdPrograms
    Addresses <- MCAddresses
    Indexes <- MCIndexes
SPECIFICATION XdFairSpec
INVARIANTS XdTypeOK ListIsWhatWasTyped
PROPERTIES DebuggerRunsProgram BreakpointsHold ContinueReturns
\* A session ends.
CHECK_DEADLOCK FALSE
