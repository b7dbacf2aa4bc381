\* `rb` of std.x with 1 to 3 bytes.
CONSTANTS
    Half = 32
    MaxLen = 8
    StackCap = 4
    CallCap = 2
    Registers <- MCRegisters
    Names <- MCNames
    Programs <- RbPrograms
SPECIFICATION Spec
INVARIANTS RbReservesBytes
CHECK_DEADLOCK FALSE
