CONSTANTS
    NUM_COLS = 2
    NUM_ROWS = 2
    MAX_VTERMS = 2
    Present = {0, 1}
    ReadSizes = {3}
    KBUF = 3
    Writers = {}
    MaxKeys = 3
    CtrlL = FALSE
    MaxWrites = 0
SPECIFICATION Spec
PROPERTY ReadlineReturnsTypedLine
