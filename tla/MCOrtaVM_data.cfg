\* Every data instruction on every combination of operand types, and every
\* program of up to four variable instructions.
CONSTANTS
    Half = 8
    MaxLen = 2
    StackCap = 4
    CallCap = 1
    Registers <- MCRegisters
    Names <- MCNames
    Programs <- DataPrograms
SPECIFICATION Spec
INVARIANTS TypeOK RotationsInverse
PROPERTIES LocalScopeShieldsGlobals OnlyPointersAreCut
\* A program ends: after the loop, EERROR or a signal nothing happens.
CHECK_DEADLOCK FALSE
