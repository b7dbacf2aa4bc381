\* Every main file of up to three lines, with one and with two passes.
CONSTANTS
    Half = 64
    MaxLen = 1
    StackCap = 1
    CallCap = 1
    Registers <- MCRegisters
    Names <- MCNames
    Programs <- NoPrograms
    Projects <- MCProjects
    Main = "main"
    Compounds <- MCCompounds
    MaxIncludeDepth = 2
    MaxText = 24
    Passes = {1, 2}
SPECIFICATION AsmFairSpec
INVARIANTS DepthIsNesting LocalNamesAreUnique AcceptedIsProgram 
PROPERTIES AssemblyEnds
\* The assembler stops once the program is parsed, refused or crashed.
CHECK_DEADLOCK FALSE
