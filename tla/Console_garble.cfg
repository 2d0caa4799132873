CONSTANTS
    NUM_COLS = 2
    NUM_ROWS = 2
    MAX_VTERMS = 1
    Present = {0}
    ReadSizes = {3}
    KBUF = 3
    Writers = {0}
    MaxKeys = 2
    CtrlL = FALSE
    MaxWrites = 2
SPECIFICATION Spec
INVARIANT ScreenShowsText
