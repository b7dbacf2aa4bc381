\* The example mem.x.
CONSTANTS
    Half = 256
    MaxLen = 1
    StackCap = 1
    CallCap = 1
    Registers <- MCRegisters
    Names <- MemNames
    Programs <- NoPrograms
    Projects <- MemProjects
    Main = "main"
    Compounds <- MCCompounds
    MaxIncludeDepth = 2
    MaxText = 200
    Passes = {1, 2}
SPECIFICATION AsmSpec
INVARIANTS ExampleAssembles
CHECK_DEADLOCK FALSE
