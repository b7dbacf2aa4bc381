\* Every program saved, the file cut anywhere or not, and loaded.
CONSTANTS
    Half1 = 2
    Half2 = 8
    Half = 128
    Half8 = 32768
    MaxLen = 0
    BinPrograms <- Programs
SPECIFICATION XBinSpec
INVARIANTS XBinTypeOK FlagsFit OnlyCompleteFilesLoad LoadedAsSaved XcallIsFlagged
