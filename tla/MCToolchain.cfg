\* Every two commands of one user, with failures and interrupts.
CONSTANTS
    Programs = {"fine", "faulty", "endless", "wrong"}
    Parse = {"fine", "faulty", "endless"}
    Return = {"fine"}
    Exit = {"faulty"}
    DataFiles = {"lib"}
    Bundles <- Brought
    MaxCommands = 2
    MaxEntries = 2
SPECIFICATION Spec
INVARIANTS CommandsTidyUp RunsWhatWasBundled
\* The user stops giving commands.
CHECK_DEADLOCK FALSE
