SPECIFICATION Spec
CONSTANTS
    MaxChars = 3
    OverlapChars = 2
    Directories <- MCDirectories
    Sources <- MCSources
    Editions <- MCEditions
    Ingesters = {i1, i2}
    Providers = {local, fake}
    MaxEdits = 1
    MaxAborts = 1
SYMMETRY MCSymmetry
CONSTRAINT Explored
INVARIANTS
    CaughtUp
    OneEdition
    PassagesCoverDocument
CHECK_DEADLOCK FALSE
