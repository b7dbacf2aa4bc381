\* Every program of up to four control instructions; both stacks overflow.
CONSTANTS
    Half = 8
    MaxLen = 1
    StackCap = 3
    CallCap = 2
    Registers <- MCRegisters
    Names <- MCNames
    Programs <- ControlPrograms
SPECIFICATION FairSpec
INVARIANTS TypeOK IpInProgram CallSites FaultsStop
PROPERTIES ReturnsAfterCall FirstArgumentOnTop ForwardProgramsEnd
\* A program ends: after the loop, EERROR or a signal nothing happens.
CHECK_DEADLOCK FALSE
