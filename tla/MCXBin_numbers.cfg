\* A number of one byte with its top bit set.
CONSTANTS
    Half1 = 2
    Half2 = 8
    Half = 128
    Half8 = 32768
    MaxLen = 0
    BinPrograms <- Programs
SPECIFICATION XBinSpec
INVARIANTS BytecodeKeepsNumbers
