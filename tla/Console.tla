------------------------------ MODULE Console ------------------------------
(***************************************************************************)
(* The virtual terminals of console.c and the keyboard driver of          *)
(* keyboard.c.  One shell per terminal (task t is bound to vterms[t], as  *)
(* the bootstrap ticks bind them) writes with console_putchar and reads   *)
(* lines with console_readline_w; the keyboard ISR echoes keys to the     *)
(* on-screen terminal, fills its input line and swaps terminals on        *)
(* Alt+F.  The PIT switches tasks round robin whenever interrupts are on. *)
(*                                                                        *)
(* Where interrupts are on matters, and each action below is a stretch of *)
(* code that runs with them off or touches no shared state:               *)
(*  - system calls come through a trap gate, so console_putchar runs with *)
(*    interrupts on except in its cli/sti section; console_inccur and     *)
(*    console_scroll copy the cursor, work, and write it back unprotected;*)
(*  - the keyboard ISR enters through an interrupt gate, but console_echo *)
(*    executes sti after writing the character, so the PIT may switch     *)
(*    tasks before the ISR has stored the key and written its copy of     *)
(*    current_input back.  IRQ1 stays in service at the PIC until the ISR *)
(*    sends EOI, so no second key arrives meanwhile.                      *)
(*                                                                        *)
(* Data is abstracted: a screen cell holds the terminal its character    *)
(* was written for (or Blank); a kernel line buffer holds "key", "nl" or  *)
(* "nul".  Colours, the hardware cursor and the scancode translation are  *)
(* left out.  Locals that are dead once a step ends are reset to Idle     *)
(* values.                                                                *)
(***************************************************************************)
EXTENDS Integers, Sequences
LOCAL INSTANCE FiniteSetsExt

CONSTANTS
    NUM_COLS,       \* columns of a terminal
    NUM_ROWS,       \* rows of a terminal
    MAX_VTERMS,     \* number of virtual terminals (and of shells)
    Present,        \* terminals with vterms[i].present set
    ReadSizes,      \* nbytes a shell passes to read on fd 0
    KBUF,           \* entries of console_readline_w's kbuf the model keeps
    Writers,        \* the shells that write to their terminal
    MaxKeys,        \* bound on the keys the user presses
    MaxWrites,      \* bound on the characters the shells write
    CtrlL           \* whether the user also types Ctrl+L

ASSUME NUM_COLS \in Nat \ {0} /\ NUM_ROWS \in Nat \ {0}
ASSUME MAX_VTERMS \in Nat \ {0} /\ Present \subseteq 0..MAX_VTERMS-1
ASSUME Writers \subseteq 0..MAX_VTERMS-1 /\ MaxKeys \in Nat /\ MaxWrites \in Nat
ASSUME CtrlL \in BOOLEAN
ASSUME ReadSizes \subseteq 2..128 /\ KBUF \in Nat /\ \A n \in ReadSizes : n <= KBUF

Terms == 0..MAX_VTERMS-1
Tasks == Terms
Cells == 0..NUM_COLS*NUM_ROWS-1
NoCon == -1
Blank == NoCon
Glyphs == {Blank} \cup Terms
NULL == -1          \* current_input.buffer before any read
KbufIdx == 0..KBUF-1
Pos == [x : 0..NUM_COLS-1, y : 0..NUM_ROWS-1]
Origin == [x |-> 0, y |-> 0]
IdleInput == [buffer |-> NULL, buffer_length |-> 0, next |-> 0, complete |-> FALSE]
IdleState == [cur |-> Origin, stop |-> 0]

VARIABLES
    vid_buf,          \* vterms[c].vid_buf
    video,            \* physical video memory
    vcur,             \* vterms[c].constate.vcur_x / vcur_y
    bkspstop,         \* vterms[c].constate.con_bkspstop_col
    current_console,  \* index of current_console
    current_input,    \* vterms[c].current_input
    kbuf,             \* kbuf of each task's console_readline_w frame
    running,          \* the task on the CPU
    pc,               \* per task: where it is in the console code
    inc,              \* per task: the con_inc_t of its console_inccur call
    ccopy,            \* per task: console_inccur's local copy of the cursor
    nb,               \* per task: the n of its console_readline call
    kpc,              \* keyboard ISR: "idle", or "echoed" (after an sti)
    khost,            \* the task whose stack the ISR runs on
    kkey,             \* the key being handled
    kinput,           \* console_inputhandler's local copy of current_input
    kstate,           \* console_bksp's local constate: cursor and stop column
    shown,            \* ghost: screen and cursor if each output were atomic
    line,             \* ghost: the line typed since each reader's getinput
    keys,             \* keys pressed so far (bounded by MaxKeys)
    writes            \* characters written by shells so far (MaxWrites)

vars == <<vid_buf, video, vcur, bkspstop, current_console, current_input,
          kbuf, running, pc, inc, ccopy, nb, kpc, khost, kkey, kinput, kstate,
          shown, line, keys, writes>>

Cell(v) == v.x + v.y * NUM_COLS

\* The memmoves of console_scroll: rows 1.. move up one, the last row stays.
Shift(cells) ==
    [i \in Cells |-> IF i < (NUM_ROWS-1)*NUM_COLS THEN cells[i+NUM_COLS] ELSE cells[i]]

\* console_scroll's blanking of the last row with spaces.
BlankRow(cells) ==
    [i \in Cells |-> IF i >= (NUM_ROWS-1)*NUM_COLS THEN Blank ELSE cells[i]]

\* console_inccur with con_wrap set: CONINC_CHAR advances one cell,
\* CONINC_LINERETURN advances NUM_COLS - vcur_x cells, to the next line.
IncCur(v, k) ==
    IF k = "char" /\ v.x + 1 < NUM_COLS THEN [v EXCEPT !.x = v.x + 1]
    ELSE IF v.y + 1 < NUM_ROWS THEN [x |-> 0, y |-> v.y + 1]
    ELSE [x |-> 0, y |-> NUM_ROWS - 1]

\* The increment that scrolls: one past the last cell of the screen.
Scrolls(v, k) == v.y = NUM_ROWS - 1 /\ (k = "line" \/ v.x = NUM_COLS - 1)

\* console_bksp's new cursor position.
BkspPos(v, stop) ==
    IF v.x <= 0
    THEN IF v.y <= 0 THEN [x |-> 0, y |-> 0] ELSE [x |-> NUM_COLS - 1, y |-> v.y - 1]
    ELSE IF stop = 0 \/ v.x > stop THEN [v EXCEPT !.x = v.x - 1] ELSE v

\* A store through current_input.buffer: NULL or an index past the kbuf
\* the model keeps stores nothing the model reads.
Store(k, buf, i, ch) ==
    IF buf \in Tasks /\ i \in KbufIdx THEN [k EXCEPT ![buf][i] = ch] ELSE k

\* The line discipline of console_inputhandler on its local copy ci for a
\* printable key, and the kbuf it leaves.
KeyInput(ci) ==
    IF ci.complete THEN ci
    ELSE IF ci.next = ci.buffer_length - 2 THEN [ci EXCEPT !.complete = TRUE]
    ELSE [ci EXCEPT !.next = @ + 1]
KeyStore(k, ci) ==
    IF ci.complete THEN k
    ELSE IF ci.next = ci.buffer_length - 2
         THEN IF ci.buffer_length > 1
              THEN Store(Store(k, ci.buffer, ci.next + 1, "nul"), ci.buffer, ci.next, "nl")
              ELSE k
    ELSE Store(k, ci.buffer, ci.next, "key")

\* ... and for Enter, which does not look at complete.
EnterStore(k, ci) ==
    IF ci.buffer_length <= 1 THEN k
    ELSE IF ci.next = ci.buffer_length
         THEN Store(Store(k, ci.buffer, ci.next - 1, "nul"), ci.buffer, ci.next - 2, "nl")
    ELSE Store(Store(k, ci.buffer, ci.next, "nl"), ci.buffer, ci.next + 1, "nul")
-----------------------------------------------------------------------------
(***************************************************************************)
(* The atomic meaning of console output (spec 4.8: put, echo, backspace):  *)
(* each character is written at the cursor and the cursor advanced as one *)
(* step.  shown[c] is the screen terminal c would show if every output    *)
(* were such a step, in the order the outputs were made.                  *)
(***************************************************************************)
Advance(s, k) ==
    IF Scrolls(s.cur, k)
    THEN [cells |-> BlankRow(Shift(s.cells)), cur |-> [x |-> 0, y |-> NUM_ROWS - 1]]
    ELSE [s EXCEPT !.cur = IncCur(s.cur, k)]
ShowPut(s, g) == Advance([s EXCEPT !.cells[Cell(s.cur)] = g], "char")
ShowBksp(s, stop) ==
    LET p == BkspPos(s.cur, stop) IN [cells |-> [s.cells EXCEPT ![Cell(p)] = Blank], cur |-> p]

\* The line readline promises: keys typed since getinput, a backspace
\* deleting the last one, ended by Enter or by the key that finds n - 2
\* characters already stored.
EmptyLine == [chars |-> <<>>, done |-> FALSE, enter |-> FALSE]
LineStep(l, k, n) ==
    IF l.done THEN l
    ELSE CASE k = "char"  -> IF Len(l.chars) = n - 2 THEN [l EXCEPT !.done = TRUE]
                             ELSE [l EXCEPT !.chars = Append(@, "key")]
           [] k = "bksp"  -> [l EXCEPT !.chars = IF @ = <<>> THEN @ ELSE SubSeq(@, 1, Len(@) - 1)]
           [] k = "enter" -> [l EXCEPT !.done = TRUE, !.enter = TRUE]
-----------------------------------------------------------------------------
\* Every shell waits in its first read on fd 0, at the top left of its
\* terminal; vterm_init made terminal 0 current.
Init ==
    /\ vid_buf = [c \in Terms |-> [i \in Cells |-> Blank]]
    /\ video = [i \in Cells |-> Blank]
    /\ vcur = [c \in Terms |-> Origin]
    /\ bkspstop = [c \in Terms |-> 0]
    /\ current_console = 0
    /\ nb \in [Tasks -> ReadSizes]
    /\ current_input = [c \in Terms |->
           [buffer |-> c, buffer_length |-> nb[c], next |-> 0, complete |-> FALSE]]
    /\ kbuf = [t \in Tasks |-> [i \in KbufIdx |-> "nul"]]
    /\ running = 0
    /\ pc = [t \in Tasks |-> "spin"]
    /\ inc = [t \in Tasks |-> "char"]
    /\ ccopy = [t \in Tasks |-> Origin]
    /\ kpc = "idle" /\ khost = 0 /\ kkey = "char"
    /\ kinput = IdleInput
    /\ kstate = IdleState
    /\ shown = [c \in Terms |-> [cells |-> vid_buf[c], cur |-> vcur[c]]]
    /\ line = [c \in Terms |-> EmptyLine]
    /\ keys = 0 /\ writes = 0
-----------------------------------------------------------------------------
\* Task t executes its own code: it is on the CPU and the keyboard ISR is
\* not suspended on its stack.
Runs(t) == running = t /\ ~(kpc = "echoed" /\ khost = t)

SetPc(t, p) == pc' = [pc EXCEPT ![t] = p]

\* A plausible slip: writing through to video memory without testing
\* whether the task's terminal is the one on screen.
PutCharAllScreens(t) ==
    /\ t \in Writers /\ writes < MaxWrites /\ Runs(t) /\ pc[t] = "user"
    /\ LET p == Cell(vcur[t])
       IN /\ vid_buf' = [vid_buf EXCEPT ![t][p] = t]
          /\ video' = [video EXCEPT ![p] = t]
          /\ shown' = [shown EXCEPT ![t] = ShowPut(@, t)]
    /\ SetPc(t, "inc") /\ inc' = [inc EXCEPT ![t] = "char"]
    /\ writes' = writes + 1
    /\ UNCHANGED <<keys, vcur, bkspstop, current_console, current_input, kbuf, running,
                   ccopy, nb, kpc, khost, kkey, kinput, kstate, line>>

\* console_putchar(c), c # '\n': under cli the glyph goes to the task's
\* vid_buf at the cursor and, if its terminal is on screen, to video memory.
PutChar(t) ==
    /\ t \in Writers /\ writes < MaxWrites /\ Runs(t) /\ pc[t] = "user"
    /\ LET g == t
           p == Cell(vcur[t])
       IN /\ vid_buf' = [vid_buf EXCEPT ![t][p] = g]
          /\ video' = IF current_console = t THEN [video EXCEPT ![p] = g] ELSE video
          /\ shown' = [shown EXCEPT ![t] = ShowPut(@, g)]
    /\ SetPc(t, "inc") /\ inc' = [inc EXCEPT ![t] = "char"]
    /\ writes' = writes + 1
    /\ UNCHANGED <<keys, vcur, bkspstop, current_console, current_input, kbuf, running,
                   ccopy, nb, kpc, khost, kkey, kinput, kstate, line>>

\* console_putchar('\n'): straight to console_inccur(CONINC_LINERETURN).
PutNewline(t) ==
    /\ t \in Writers /\ writes < MaxWrites /\ Runs(t) /\ pc[t] = "user"
    /\ shown' = [shown EXCEPT ![t] = Advance(@, "line")]
    /\ SetPc(t, "inc") /\ inc' = [inc EXCEPT ![t] = "line"]
    /\ writes' = writes + 1
    /\ UNCHANGED <<keys, vid_buf, video, vcur, bkspstop, current_console, current_input,
                   kbuf, running, ccopy, nb, kpc, khost, kkey, kinput, kstate, line>>

\* console_inccur copies the constate; the increment that leaves the
\* screen calls console_scroll.
IncRead(t) ==
    /\ Runs(t) /\ pc[t] = "inc"
    /\ ccopy' = [ccopy EXCEPT ![t] = vcur[t]]
    /\ SetPc(t, IF Scrolls(vcur[t], inc[t]) THEN "scr_buf" ELSE "incw")
    /\ UNCHANGED <<vid_buf, video, vcur, bkspstop, current_console, current_input,
                   kbuf, running, inc, nb, kpc, khost, kkey, kinput, kstate, shown, line, keys, writes>>

\* ... and writes its copy, advanced, back.
IncWrite(t) ==
    /\ Runs(t) /\ pc[t] = "incw"
    /\ vcur' = [vcur EXCEPT ![t] = IncCur(ccopy[t], inc[t])]
    /\ SetPc(t, "user")
    /\ inc' = [inc EXCEPT ![t] = "char"] /\ ccopy' = [ccopy EXCEPT ![t] = Origin]
    /\ UNCHANGED <<vid_buf, video, bkspstop, current_console, current_input, kbuf,
                   running, nb, kpc, khost, kkey, kinput, kstate, shown, line, keys, writes>>

\* console_scroll: memmove of the task's vid_buf ...
ScrollBuf(t) ==
    /\ Runs(t) /\ pc[t] = "scr_buf"
    /\ vid_buf' = [vid_buf EXCEPT ![t] = Shift(@)]
    /\ SetPc(t, "scr_chk")
    /\ UNCHANGED <<video, vcur, bkspstop, current_console, current_input, kbuf,
                   running, inc, ccopy, nb, kpc, khost, kkey, kinput, kstate, shown, line, keys, writes>>

\* ... the test of con->current ...
ScrollCheck(t) ==
    /\ Runs(t) /\ pc[t] = "scr_chk"
    /\ SetPc(t, IF current_console = t THEN "scr_vid" ELSE "scr_blank")
    /\ UNCHANGED <<vid_buf, video, vcur, bkspstop, current_console, current_input,
                   kbuf, running, inc, ccopy, nb, kpc, khost, kkey, kinput, kstate, shown, line, keys, writes>>

\* ... the memmove of video memory ...
ScrollVideo(t) ==
    /\ Runs(t) /\ pc[t] = "scr_vid"
    /\ video' = Shift(video)
    /\ SetPc(t, "scr_blank")
    /\ UNCHANGED <<vid_buf, vcur, bkspstop, current_console, current_input, kbuf,
                   running, inc, ccopy, nb, kpc, khost, kkey, kinput, kstate, shown, line, keys, writes>>

\* ... and the NUM_COLS console_putchar(' ') on the last row, the cursor
\* saved and restored around them (taken as one step).
ScrollBlank(t) ==
    /\ Runs(t) /\ pc[t] = "scr_blank"
    /\ vid_buf' = [vid_buf EXCEPT ![t] = BlankRow(@)]
    /\ video' = IF current_console = t THEN BlankRow(video) ELSE video
    /\ SetPc(t, "incw")
    /\ UNCHANGED <<vcur, bkspstop, current_console, current_input, kbuf, running,
                   inc, ccopy, nb, kpc, khost, kkey, kinput, kstate, shown, line, keys, writes>>

\* console_readline_w caps nbytes at 128 (its kbuf holds 129 bytes).
ReadNb(n) == IF n >= 128 THEN 128 ELSE n

\* console_readline points the caller's terminal's current_input at the
\* buffer (n = 0 or a NULL buffer return 0 first; neither reaches it here).
Readline(ci, buf, n) == [ci EXCEPT !.buffer = buf, !.buffer_length = n]

\* read(0, buf, n): console_readline_w zeroes its kbuf and console_readline
\* points current_input at it ...
ReadStart(t, n) ==
    /\ Runs(t) /\ pc[t] = "user"
    /\ kbuf' = [kbuf EXCEPT ![t] = [i \in KbufIdx |-> "nul"]]
    /\ current_input' = [current_input EXCEPT ![t] = Readline(@, t, ReadNb(n))]
    /\ nb' = [nb EXCEPT ![t] = ReadNb(n)]
    /\ SetPc(t, "rl_set")
    /\ UNCHANGED <<vid_buf, video, vcur, bkspstop, current_console, running, inc,
                   ccopy, kpc, khost, kkey, kinput, kstate, shown, line, keys, writes>>

\* ... console_getinput clears it, sets the backspace stop and spins.
ReadReset(t) ==
    /\ Runs(t) /\ pc[t] = "rl_set"
    /\ current_input' = [current_input EXCEPT ![t].next = 0, ![t].complete = FALSE]
    /\ bkspstop' = [bkspstop EXCEPT ![t] = vcur[t].x]
    /\ line' = [line EXCEPT ![t] = EmptyLine]
    /\ SetPc(t, "spin")
    /\ UNCHANGED <<vid_buf, video, vcur, current_console, kbuf, running, inc,
                   ccopy, nb, kpc, khost, kkey, kinput, kstate, shown, keys, writes>>

\* The spin loop finds complete set: the last byte of the buffer is
\* zeroed, the stop cleared, and next + 1 bytes copied out.
ReadReturn(t) ==
    /\ Runs(t) /\ pc[t] = "spin"
    /\ current_input[t].complete
    /\ LET ci == current_input[t] IN
           kbuf' = Store(kbuf, ci.buffer, ci.buffer_length - 1, "nul")
    /\ bkspstop' = [bkspstop EXCEPT ![t] = 0]
    /\ SetPc(t, "user")
    /\ UNCHANGED <<vid_buf, video, vcur, current_console, current_input, running,
                   inc, ccopy, nb, kpc, khost, kkey, kinput, kstate, shown, line, keys, writes>>
-----------------------------------------------------------------------------
(***************************************************************************)
(* The keyboard ISR (kbd_int, interpret_scancode, console_inputhandler).  *)
(* It runs on the stack of the task it interrupted.                       *)
(***************************************************************************)

\* A printable key: console_inputhandler copies current_input, and
\* console_echokbd's console_echo writes the glyph at the cursor of the
\* current console and executes sti.  With Ctrl held the glyph is the
\* '^' console_echokbd writes first (k = "ctrl_l").
KbdEcho(k) ==
    /\ kpc = "idle" /\ keys < MaxKeys
    /\ LET cc == current_console
           g == cc
           p == Cell(vcur[cc])
       IN /\ vid_buf' = [vid_buf EXCEPT ![cc][p] = g]
          /\ video' = [video EXCEPT ![p] = g]
          /\ kinput' = current_input[cc]
          /\ shown' = [shown EXCEPT ![cc] = ShowPut(@, g)]
          /\ line' = IF pc[cc] = "spin"
                     THEN [line EXCEPT ![cc] = LineStep(@, "char", nb[cc])] ELSE line
    /\ kpc' = "echoed" /\ khost' = running /\ kkey' = k
    /\ keys' = keys + 1
    /\ UNCHANGED <<writes, vcur, bkspstop, current_console, current_input, kbuf, running,
                   pc, inc, ccopy, nb, kstate>>

KbdChar == KbdEcho("char")

\* Ctrl+L: console_echokbd echoes '^' and, for 'L', calls console_clrsc
\* instead of echoing the letter.  console_inputhandler's char_pressed
\* is still the lowercase letter, and it goes into the input line.
KbdCtrlL == CtrlL /\ KbdEcho("ctrl_l")

\* Backspace: console_bksp copies the constate of the current console,
\* moves the copy's cursor back (not past its stop column), stores the
\* copy, and console_echo blanks the cell, then sti.
KbdBksp ==
    /\ kpc = "idle" /\ keys < MaxKeys
    /\ LET cc == current_console
           p == BkspPos(vcur[cc], bkspstop[cc])
       IN /\ vcur' = [vcur EXCEPT ![cc] = p]
          /\ vid_buf' = [vid_buf EXCEPT ![cc][Cell(p)] = Blank]
          /\ video' = [video EXCEPT ![Cell(p)] = Blank]
          /\ kstate' = [cur |-> p, stop |-> bkspstop[cc]]
          /\ kinput' = current_input[cc]
          /\ shown' = [shown EXCEPT ![cc] = ShowBksp(@, bkspstop[cc])]
          /\ line' = IF pc[cc] = "spin"
                     THEN [line EXCEPT ![cc] = LineStep(@, "bksp", nb[cc])] ELSE line
    /\ kpc' = "echoed" /\ khost' = running /\ kkey' = "bksp"
    /\ keys' = keys + 1
    /\ UNCHANGED <<writes, bkspstop, current_console, current_input, kbuf, running, pc,
                   inc, ccopy, nb>>

\* console_echo's console_inccur(CONINC_CHAR, true) on the live cursor of
\* the current console, scrolling it (buffer and screen) at the last cell.
EchoScroll(cc) ==
    /\ vid_buf' = IF Scrolls(vcur[cc], "char")
                  THEN [vid_buf EXCEPT ![cc] = BlankRow(Shift(@))] ELSE vid_buf
    /\ video' = IF Scrolls(vcur[cc], "char") THEN BlankRow(Shift(video)) ELSE video

\* send_eoi and iret: the ISR's locals are dead.
KbdIdle ==
    /\ kpc' = "idle" /\ khost' = 0 /\ kkey' = "char"
    /\ kinput' = IdleInput /\ kstate' = IdleState

\* The rest of the ISR for a printable key, once its task has the CPU:
\* the echo's cursor increment, the key stored through the local copy,
\* the copy written back to current_input, EOI.
KbdCharEnd ==
    /\ kpc = "echoed" /\ kkey = "char" /\ running = khost
    /\ LET cc == current_console IN
          /\ EchoScroll(cc)
          /\ vcur' = [vcur EXCEPT ![cc] = IncCur(@, "char")]
          /\ current_input' = [current_input EXCEPT ![cc] = KeyInput(kinput)]
    /\ kbuf' = KeyStore(kbuf, kinput)
    /\ KbdIdle
    /\ UNCHANGED <<bkspstop, current_console, running, pc, inc, ccopy, nb, shown, line, keys, writes>>

\* The rest for Ctrl+L: the echo's increment, then console_clrsc: clear()
\* blanks video memory (not the terminal's vid_buf) and the cursor of
\* current_console goes to 0,0; then the key is stored as a printable one.
KbdCtrlLEnd ==
    /\ kpc = "echoed" /\ kkey = "ctrl_l" /\ running = khost
    /\ LET cc == current_console IN
          /\ vid_buf' = IF Scrolls(vcur[cc], "char")
                        THEN [vid_buf EXCEPT ![cc] = BlankRow(Shift(@))] ELSE vid_buf
          /\ video' = [i \in Cells |-> Blank]
          /\ vcur' = [vcur EXCEPT ![cc] = Origin]
          /\ current_input' = [current_input EXCEPT ![cc] = KeyInput(kinput)]
          /\ shown' = [shown EXCEPT ![cc] = [cells |-> [i \in Cells |-> Blank], cur |-> Origin]]
    /\ kbuf' = KeyStore(kbuf, kinput)
    /\ KbdIdle
    /\ UNCHANGED <<bkspstop, current_console, running, pc, inc, ccopy, nb, line, keys, writes>>

\* The rest for backspace: the echo's increment, console_bksp's resync of
\* the whole constate from its local copy (cursor and the stop column as
\* they were before the sti), one character taken off the local input
\* copy, write-back.
KbdBkspEnd ==
    /\ kpc = "echoed" /\ kkey = "bksp" /\ running = khost
    /\ LET cc == current_console IN
          /\ EchoScroll(cc)
          /\ vcur' = [vcur EXCEPT ![cc] = kstate.cur]
          /\ bkspstop' = [bkspstop EXCEPT ![cc] = kstate.stop]
          /\ current_input' = [current_input EXCEPT ![cc] =
                 IF ~kinput.complete /\ kinput.next > 0
                 THEN [kinput EXCEPT !.next = @ - 1] ELSE kinput]
    /\ KbdIdle
    /\ UNCHANGED <<current_console, kbuf, running, pc, inc, ccopy, nb,
                   shown, line, keys, writes>>

\* A plausible slip: Enter stores "\n\0" but never sets complete.
KbdEnterNoComplete ==
    /\ kpc = "idle" /\ keys < MaxKeys
    /\ LET cc == current_console IN
          /\ ~Scrolls(vcur[cc], "line")
          /\ vcur' = [vcur EXCEPT ![cc] = IncCur(@, "line")]
          /\ kbuf' = EnterStore(kbuf, current_input[cc])
          /\ shown' = [shown EXCEPT ![cc] = Advance(@, "line")]
          /\ line' = IF pc[cc] = "spin"
                     THEN [line EXCEPT ![cc] = LineStep(@, "enter", nb[cc])] ELSE line
    /\ keys' = keys + 1
    /\ UNCHANGED <<writes, vid_buf, video, bkspstop, current_console, current_input,
                   running, pc, inc, ccopy, nb, kpc, khost, kkey, kinput, kstate>>

\* The stores of Enter on console_inputhandler's copy ci of current_input:
\* "\n\0" (at next - 2 when next = buffer_length), complete set, and the
\* copy written back to the terminal's current_input.
EnterInput(cc, ci) ==
    /\ current_input' = [current_input EXCEPT ![cc] = [ci EXCEPT !.complete = TRUE]]
    /\ kbuf' = EnterStore(kbuf, ci)

\* Enter off the last row: console_inccur(CONINC_LINERETURN, true) moves
\* the cursor to the next line, and the stores follow with interrupts off.
KbdEnter ==
    /\ kpc = "idle" /\ keys < MaxKeys
    /\ LET cc == current_console IN
          /\ ~Scrolls(vcur[cc], "line")
          /\ vcur' = [vcur EXCEPT ![cc] = IncCur(@, "line")]
          /\ EnterInput(cc, current_input[cc])
          /\ shown' = [shown EXCEPT ![cc] = Advance(@, "line")]
          /\ line' = IF pc[cc] = "spin"
                     THEN [line EXCEPT ![cc] = LineStep(@, "enter", nb[cc])] ELSE line
    /\ keys' = keys + 1
    /\ UNCHANGED <<writes, vid_buf, video, bkspstop, current_console, running, pc, inc,
                   ccopy, nb, kpc, khost, kkey, kinput, kstate>>

\* Enter on the last row: console_inputhandler has copied current_input;
\* console_inccur copies the cursor and calls console_scroll(1, true),
\* whose memmoves shift the terminal's buffer and the screen and whose
\* console_echo(' ') calls blank the last row, each executing sti (the
\* NUM_COLS echoes taken as one step).  The live cursor is back where it
\* was.
KbdEnterScroll ==
    /\ kpc = "idle" /\ keys < MaxKeys
    /\ LET cc == current_console IN
          /\ Scrolls(vcur[cc], "line")
          /\ vid_buf' = [vid_buf EXCEPT ![cc] = BlankRow(Shift(@))]
          /\ video' = BlankRow(Shift(video))
          /\ kinput' = current_input[cc]
          /\ shown' = [shown EXCEPT ![cc] = Advance(@, "line")]
          /\ line' = IF pc[cc] = "spin"
                     THEN [line EXCEPT ![cc] = LineStep(@, "enter", nb[cc])] ELSE line
    /\ kpc' = "echoed" /\ khost' = running /\ kkey' = "enter"
    /\ keys' = keys + 1
    /\ UNCHANGED <<writes, vcur, bkspstop, current_console, current_input, kbuf, running,
                   pc, inc, ccopy, nb, kstate>>

\* The rest of that Enter, once its task has the CPU: console_inccur
\* writes its copy of the cursor back, at the start of the last row, and
\* the stores go through the copy of current_input taken before the sti.
KbdEnterEnd ==
    /\ kpc = "echoed" /\ kkey = "enter" /\ running = khost
    /\ LET cc == current_console IN
          /\ vcur' = [vcur EXCEPT ![cc] = [x |-> 0, y |-> NUM_ROWS - 1]]
          /\ EnterInput(cc, kinput)
    /\ KbdIdle
    /\ UNCHANGED <<vid_buf, video, bkspstop, current_console, running, pc, inc, ccopy,
                   nb, shown, line, keys, writes>>

\* Alt+F(i+1) with vterms[i].present: vterm_swap_console saves video
\* memory into the outgoing vid_buf and loads the incoming one.
KbdSwitch(i) ==
    /\ kpc = "idle" /\ keys < MaxKeys /\ i \in Present
    /\ LET saved == [vid_buf EXCEPT ![current_console] = video] IN
          /\ vid_buf' = saved
          /\ video' = saved[i]
    /\ current_console' = i
    /\ keys' = keys + 1
    /\ UNCHANGED <<writes, vcur, bkspstop, current_input, kbuf, running, pc, inc, ccopy,
                   nb, kpc, khost, kkey, kinput, kstate, shown, line>>

\* A plausible slip: advancing the queue index without wrapping.
ScheduleNoWrap ==
    /\ running' = running + 1
    /\ UNCHANGED <<vid_buf, video, vcur, bkspstop, current_console, current_input,
                   kbuf, pc, inc, ccopy, nb, kpc, khost, kkey, kinput, kstate, shown, line, keys, writes>>

\* pit_interrupt: the next task in queue order.
Schedule ==
    /\ running' = (running + 1) % MAX_VTERMS
    /\ UNCHANGED <<vid_buf, video, vcur, bkspstop, current_console, current_input,
                   kbuf, pc, inc, ccopy, nb, kpc, khost, kkey, kinput, kstate, shown, line, keys, writes>>

\* interpret_scancode's dispatch of a key press: Backspace, Enter and the
\* printable keys go to console_inputhandler, Alt+F to the terminal swap;
\* modifier keys and releases only change kbd_state.
KbdInt ==
    \/ KbdChar \/ KbdBksp \/ KbdEnter \/ KbdEnterScroll \/ KbdCtrlL
    \/ \E i \in Terms : KbdSwitch(i)

TaskStep(t) ==
    \/ PutChar(t) \/ PutNewline(t) \/ IncRead(t) \/ IncWrite(t)
    \/ ScrollBuf(t) \/ ScrollCheck(t) \/ ScrollVideo(t) \/ ScrollBlank(t)
    \/ \E n \in ReadSizes : ReadStart(t, n)
    \/ ReadReset(t) \/ ReadReturn(t)

Next ==
    \/ Schedule
    \/ KbdInt \/ KbdCharEnd \/ KbdBkspEnd \/ KbdCtrlLEnd \/ KbdEnterEnd
    \/ \E t \in Tasks : TaskStep(t)

(***************************************************************************)
(* The PIT is periodic: Schedule is weakly fair.  A task on the CPU runs  *)
(* on through its quantum, so a suspended ISR finishes, and a spinning    *)
(* reader tests complete, whenever its task is scheduled: these steps are *)
(* strongly fair (scheduling keeps disabling them).  Users need not type  *)
(* and shells need not write.                                             *)
(***************************************************************************)
Fairness ==
    /\ WF_vars(Schedule)
    /\ SF_vars(KbdCharEnd) /\ SF_vars(KbdBkspEnd) /\ SF_vars(KbdCtrlLEnd)
    /\ SF_vars(KbdEnterEnd)
    /\ \A t \in Tasks : SF_vars(ReadReturn(t))

Spec == Init /\ [][Next]_vars /\ Fairness
-----------------------------------------------------------------------------
Pcs == {"user", "inc", "incw", "scr_buf", "scr_chk", "scr_vid", "scr_blank",
        "rl_set", "spin"}
Input == [buffer : Tasks \cup {NULL}, buffer_length : Int, next : Int, complete : BOOLEAN]

TypeOK ==
    /\ vid_buf \in [Terms -> [Cells -> Glyphs]] /\ video \in [Cells -> Glyphs]
    /\ vcur \in [Terms -> Pos] /\ bkspstop \in [Terms -> 0..NUM_COLS-1]
    /\ current_console \in Present \cup {0}
    /\ current_input \in [Terms -> Input] /\ kinput \in Input
    /\ kbuf \in [Tasks -> [KbufIdx -> {"nul", "nl", "key"}]]
    /\ running \in Tasks /\ pc \in [Tasks -> Pcs] /\ inc \in [Tasks -> {"char", "line"}]
    /\ ccopy \in [Tasks -> Pos] /\ nb \in [Tasks -> ReadSizes]
    /\ kpc \in {"idle", "echoed"} /\ khost \in Tasks /\ kkey \in {"char", "bksp", "ctrl_l", "enter"}
    /\ kstate \in [cur : Pos, stop : 0..NUM_COLS-1]
    /\ keys \in 0..MaxKeys /\ writes \in 0..MaxWrites

\* Terminal isolation (vterm_get_buffer, the write-through test of
\* console_putchar, vterm_swap_console): a terminal's buffer only ever
\* holds what was written to that terminal, and video memory only what
\* was written to the terminal on screen, whatever the order in which
\* tasks, echoes and swaps interleave.
TerminalIsolation ==
    /\ \A c \in Terms, i \in Cells : vid_buf[c][i] \in {Blank, c}
    /\ \A i \in Cells : video[i] \in {Blank, current_console}

\* Enter releases the reader: once Enter has been typed on the terminal of
\* a task spinning in console_getinput, the task returns from read, even
\* when the ISR of an earlier key writes a stale current_input back.
EnterReleasesReader ==
    \A t \in Tasks : (pc[t] = "spin" /\ line[t].enter) ~> pc[t] = "user"

\* No console operation is part way on terminal c.
Quiescent(c) ==
    /\ pc[c] \in {"user", "rl_set", "spin"}
    /\ ~(kpc = "echoed" /\ current_console = c)

\* Output is atomic (spec 4.8; the cli/sti of console_putchar and
\* console_echo): whenever no output is part way on a terminal, its buffer
\* and cursor are what the outputs made so far, each done as one step,
\* give, and video memory mirrors the terminal on screen.
ScreenShowsText ==
    \A c \in Terms :
        Quiescent(c) =>
            /\ vid_buf[c] = shown[c].cells
            /\ vcur[c] = shown[c].cur
            /\ (c = current_console => video = vid_buf[c])

\* What strncpy(buf, kbuf, nb + 1) in console_readline_w copies.
Copied(k, nx) ==
    LET stop == {i \in 0..nx : i \notin KbufIdx \/ k[i] = "nul"}
        m == IF stop = {} THEN nx + 1 ELSE Min(stop)
    IN [j \in 1..m |-> k[j-1]]

\* read on fd 0 returns the line typed (spec 4.8, "hello<Enter>" gives
\* "hello\n"): a shell leaves console_getinput only once its line is
\* done, and gets the characters typed since it began, then "\n", with
\* return value one more than their number.
ReadlineReturnsTypedLine ==
    [][\A t \in Tasks :
         pc[t] = "spin" /\ pc'[t] = "user" =>
             /\ line[t].done
             /\ current_input[t].next = Len(line[t].chars)
             /\ Copied(kbuf'[t], current_input[t].next) = line[t].chars \o <<"nl">>
      ]_vars
====
