CONSTANTS
    NUM_COLS = 2
    NUM_ROWS = 2
    MAX_VTERMS = 2
    Present = {0, 1}
    ReadSizes = {3}
    KBUF = 3
    Writers = {0, 1}
    MaxKeys = 4
    CtrlL = TRUE
    MaxWrites = 1
SPECIFICATION Spec
INVARIANT TypeOK TerminalIsolation
PROPERTY EnterReleasesReader
