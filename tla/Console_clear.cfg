\* One terminal and Ctrl+L: whether the screen and the terminal's buffer
\* agree after console_clrsc.
CONSTANTS
    NUM_COLS = 2
    NUM_ROWS = 2
    MAX_VTERMS = 1
    Present = {0}
    ReadSizes = {3}
    KBUF = 3
    Writers = {}
    CtrlL = TRUE
    MaxKeys = 1
    MaxWrites = 0
SPECIFICATION Spec
INVARIANT ScreenShowsText
