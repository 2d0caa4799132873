------------------------------ MODULE FileSys ------------------------------
(***************************************************************************)
(* The read-only file system of filesys.c and the file-descriptor table   *)
(* of one PCB, driven by the open, close and read system calls of         *)
(* syscall.c.  The boot image is given by constants; read_dentry_by_name, *)
(* read_dentry_by_index and read_data are operators over it, read_data's  *)
(* byte loop (filesys.c:298-317) a RECURSIVE operator.  The byte at       *)
(* offset b of data block db is the pair <<db, b>>, so a byte fetched     *)
(* from the wrong block or offset differs from the right one.  File names *)
(* are model values; the 32-byte name limit is kept where it decides what *)
(* is written.  Reads of fd 0 (console) and of the RTC block on devices   *)
(* modelled elsewhere and change no descriptor, so they are left out.     *)
(* File names and command lines are sequences of one-character strings,   *)
(* NUL standing for the zero byte past their end.  The program in the     *)
(* slot is replaced by execute(cmd): parse_exec splits cmd, file_to_mem   *)
(* looks the name up, and the argument string is kept in the PCB for      *)
(* getargs.                                                               *)
(***************************************************************************)
EXTENDS Integers, Sequences, FiniteSets
LOCAL INSTANCE FiniteSetsExt
LOCAL INSTANCE SequencesExt

CONSTANTS
    BLOCK_SIZE,      \* types.h:32 (4096 bytes); a small block size here
    NUM_FDS,         \* syscall.h:13, MAX_OPEN_FILES in types.h:36
    Dentries,        \* the dentry slots of the boot block, in order
    NumDirEntries,   \* boot block word 0, get_num_dir_entries()
    NumInodes,       \* boot block word 1, get_num_inodes()
    NumDataBlocks,   \* boot block word 2, get_num_data_blocks()
    InodeLength,     \* inode -> inode_t.length
    DataBlocks,      \* inode -> [0..k -> inode_t.data_blocks[..]]
    Names,           \* the file names user programs pass to open
    ReadSizes,       \* the nbytes arguments user programs pass to read
    EmptyName,       \* fname of an unused dentry slot (all zero bytes)
    Garbage,         \* what lies where a dentry past the boot block is read
    NUL,             \* the byte '\0' that ends a string
    Executables,     \* inodes whose first 40 bytes read in full and hold the ELF magic
    Commands,        \* the command lines passed to execute
    ArgSizes         \* the nbytes arguments user programs pass to getargs

ASSUME /\ BLOCK_SIZE \in Nat \ {0}
       /\ NUM_FDS \in 3..8
       /\ NumDirEntries \in 0..Len(Dentries)
       /\ \A i \in 1..Len(Dentries) :
            Dentries[i].ftype \in 0..2 /\ Dentries[i].inode_num \in 0..NumInodes-1
       /\ ReadSizes \subseteq Int
       /\ ArgSizes \subseteq Int
       /\ Executables \subseteq 0..NumInodes-1

VARIABLES
    fds,       \* cur_pcb->file_array: [in_use, optbl, inode, pos] per fd
    got,       \* ghost: what the reads of each fd delivered since its open
    overflow,  \* ghost: the last call wrote outside the buffer it was given
    args,      \* cur_pcb->args, up to its NUL
    cmd        \* ghost: the command line that started the program in the slot

vars == <<fds, got, overflow, args, cmd>>

MAX_FNAME_SIZE == 32                          \* types.h:34
ARGS_SIZE == 128                              \* types.h:80, filesys.c:517
NULL == -1

FdIdx   == 0..NUM_FDS-1
UserFds == 2..NUM_FDS-1

\* The dentry at index i: slot i of the boot block (which holds 63 slots
\* after its 64-byte header) or, past the last slot, whatever follows it.
Dentry(i) == IF i < Len(Dentries) THEN Dentries[i+1]
             ELSE [fname |-> Garbage, ftype |-> NULL, inode_num |-> NULL]

\* strncmp(a, b, 32) = 0: the strings agree up to 32 bytes or their NUL.
Strn32(s) == SubSeq(s, 1, IF Len(s) < MAX_FNAME_SIZE THEN Len(s) ELSE MAX_FNAME_SIZE)
NamesMatch(a, b) == Strn32(a) = Strn32(b)

\* read_dentry_by_name: the first of the NumDirEntries entries whose name
\* matches, as a set of at most one dentry (empty means it returned -1).
ReadDentryByName(name) ==
    LET hits == {i \in 0..NumDirEntries-1 : NamesMatch(Dentry(i).fname, name)}
    IN  IF hits = {} THEN {} ELSE {Dentry(Min(hits))}

\* read_dentry_by_index: refuses idx > dentry_tot only.
ReadDentryByIndex(idx) == IF idx > NumDirEntries THEN {} ELSE {Dentry(idx)}

Byte(db, b) == <<db, b>>

\* get_data_block, as an offset from filesys_addr (a page-aligned module):
\* the boot block, then NumInodes inode blocks, then data block number db.
GetDataBlock(idx, inode) ==
    BLOCK_SIZE + NumInodes * BLOCK_SIZE + DataBlocks[inode][idx] * BLOCK_SIZE

\* i < length with length a uint32_t: a negative int32 nbytes converts to
\* at least 2^31, more than any count of bytes read here.
BelowLength(i, length) == length < 0 \/ i < length

\* A plausible slip: crossing into the next block without start_flag, so a
\* read that starts on a block boundary skips a whole block.
RECURSIVE ReadLoopNoStartFlag(_, _, _, _, _, _, _)
ReadLoopNoStartFlag(inode, offset, length, byte_offset, index_offset, start_flag, buf) ==
    IF ~BelowLength(Len(buf), length) THEN buf
    ELSE IF Len(buf) + offset > InodeLength[inode] THEN buf
    ELSE IF DataBlocks[inode][index_offset] > NumDataBlocks THEN buf
    ELSE LET cross == (GetDataBlock(index_offset, inode) + byte_offset) % BLOCK_SIZE = 0
             bo == IF cross THEN 0 ELSE byte_offset
             io == IF cross THEN index_offset + 1 ELSE index_offset
         IN  ReadLoopNoStartFlag(inode, offset, length, bo + 1, io, TRUE,
                                 Append(buf, Byte(DataBlocks[inode][io], bo)))

\* The for loop of read_data; buf holds buf[0..bytes_read-1], so
\* Len(buf) is both i and bytes_read.  The end-of-file test is
\* bytes_read + offset > bytes_max and the block test data_blocks[..] >
\* dataBlockCount, exactly as written.
RECURSIVE ReadLoop(_, _, _, _, _, _, _)
ReadLoop(inode, offset, length, byte_offset, index_offset, start_flag, buf) ==
    IF ~BelowLength(Len(buf), length) THEN buf
    ELSE IF Len(buf) + offset > InodeLength[inode] THEN buf
    ELSE IF DataBlocks[inode][index_offset] > NumDataBlocks THEN buf
    ELSE LET cross == /\ (GetDataBlock(index_offset, inode) + byte_offset) % BLOCK_SIZE = 0
                      /\ start_flag
             bo == IF cross THEN 0 ELSE byte_offset
             io == IF cross THEN index_offset + 1 ELSE index_offset
         IN  ReadLoop(inode, offset, length, bo + 1, io, TRUE,
                      Append(buf, Byte(DataBlocks[inode][io], bo)))

\* A plausible slip: starting at byte offset instead of offset % BLOCK_SIZE.
ReadDataNoMod(inode, offset, length) ==
    IF inode > NumInodes THEN <<>>
    ELSE ReadLoop(inode, offset, length, offset,
                  offset \div BLOCK_SIZE, FALSE, <<>>)

\* read_data: the bytes it copies into buf.
ReadData(inode, offset, length) ==
    IF inode > NumInodes THEN <<>>
    ELSE ReadLoop(inode, offset, length, offset % BLOCK_SIZE,
                  offset \div BLOCK_SIZE, FALSE, <<>>)

\* get_free_fd: the lowest descriptor from 2 up that is not in use.
GetFreeFd ==
    LET free == {fd \in UserFds : ~fds[fd].in_use}
    IN  IF free = {} THEN NULL ELSE Min(free)

(***************************************************************************)
(* parse_exec (filesys.c:475-503), loop by loop.  At(s, i) is string[i].  *)
(***************************************************************************)
At(s, i) == IF i < Len(s) THEN s[i+1] ELSE NUL

\* The name loop: the index of the first space or NUL, at most 32.
RECURSIVE NameEnd(_, _)
NameEnd(s, i) ==
    IF At(s, i) # " " /\ At(s, i) # NUL /\ i < MAX_FNAME_SIZE
    THEN NameEnd(s, i + 1) ELSE i

\* The loop that strips the spaces after the name.
RECURSIVE SkipSpaces(_, _)
SkipSpaces(s, i) == IF At(s, i) = " " THEN SkipSpaces(s, i + 1) ELSE i

\* A space followed by the NUL is the one character argstr[j] receives
\* without j++ (the next store or the NUL overwrites it).
Kept(s, i) == At(s, i) # " " \/ At(s, i + 1) # NUL

\* The argument loop, argstr holding argstr[0..j-1].
RECURSIVE ArgLoop(_, _, _)
ArgLoop(s, i, argstr) ==
    IF At(s, i) # NUL /\ Len(argstr) < ARGS_SIZE
    THEN ArgLoop(s, i + 1, IF Kept(s, i) THEN Append(argstr, At(s, i)) ELSE argstr)
    ELSE argstr

\* parse_exec: fname and argstr up to their NUL, and whether a NUL went
\* past the end of fname[32] (filename[32]) or argstr[128] (argstr[128]).
ParseExec(s) ==
    LET n == NameEnd(s, 0)
        a == ArgLoop(s, SkipSpaces(s, n), <<>>)
    IN  [fname |-> SubSeq(s, 1, n), argstr |-> a,
         over  |-> n = MAX_FNAME_SIZE \/ Len(a) = ARGS_SIZE]

\* file_to_mem's checks before it takes a slot (filesys.c:338-352): the
\* name is found and its inode's first 40 bytes are an ELF header.  No
\* check of ftype: a directory or the RTC runs whatever inode 0 holds.
Loadable(fname) == \E d \in ReadDentryByName(fname) : d.inode_num \in Executables

ClosedFd == [in_use |-> FALSE, optbl |-> "none", inode |-> 0, pos |-> 0]
StdioFd  == [in_use |-> TRUE, optbl |-> "stdio", inode |-> 0, pos |-> 0]

FreshFds == [fd \in FdIdx |-> IF fd \in {0, 1} THEN StdioFd ELSE ClosedFd]

\* A PCB slot just after an execute of one of the commands: halt's loop
\* clears every descriptor (filesys.c:692-697) and execute then opens fd 0
\* and 1 on the terminal (559-565) and copies argstr into args (570).
\* The memory of a slot never used before is taken to be zero.
Init ==
    /\ fds = FreshFds
    /\ got = [fd \in FdIdx |-> <<>>]
    /\ overflow = FALSE
    /\ cmd \in {c \in Commands : Loadable(ParseExec(c).fname)}
    /\ args = ParseExec(cmd).argstr

(***************************************************************************)
(* open (syscall.c:178-205): look the name up, then rtc_open, dir_open or  *)
(* file_open by ftype.  Each takes get_free_fd's descriptor and sets it    *)
(* in use with its operations table; only file_open also sets inode and    *)
(* resets pos.  A missing name or a full table returns -1 unchanged.       *)
(***************************************************************************)
\* The descriptor each open function leaves behind.  rtc_open also sets
\* the rate to 2 Hz (RtcDev models the interrupt side); dir_open keeps
\* the stale inode and pos of the descriptor's last user.
RtcOpen(f)     == [f EXCEPT !.in_use = TRUE, !.optbl = "rtc"]
DirOpen(f)     == [f EXCEPT !.in_use = TRUE, !.optbl = "dir"]
FileOpen(f, d) == [in_use |-> TRUE, optbl |-> "file", inode |-> d.inode_num, pos |-> 0]

OpenBy(f, d) ==
    CASE d.ftype = 0 -> RtcOpen(f)
      [] d.ftype = 1 -> DirOpen(f)
      [] d.ftype = 2 -> FileOpen(f, d)

Open(name) ==
    \E d \in ReadDentryByName(name) :
        LET fd == GetFreeFd IN
        /\ fd # NULL
        /\ fds' = [fds EXCEPT ![fd] = OpenBy(@, d)]
        /\ got' = [got EXCEPT ![fd] = <<>>]
        /\ UNCHANGED <<overflow, args, cmd>>

\* The close operation of each table: console_close always fails,
\* file_close and dir_close refuse fd 0, 1 and fds out of 0..7, and
\* rtc_close always succeeds.
CloseOp(optbl, fd) ==
    CASE optbl = "stdio"            -> -1
      [] optbl \in {"file", "dir"}  -> IF fd \in {0, 1} \/ fd < 0 \/ fd > 7 THEN -1 ELSE 0
      [] optbl = "rtc"              -> 0

\* close (syscall.c:158-170): only in_use is cleared; optbl, inode and pos
\* keep their values.
Close(fd) ==
    /\ fds[fd].in_use
    /\ CloseOp(fds[fd].optbl, fd) = 0
    /\ fds' = [fds EXCEPT ![fd].in_use = FALSE]
    /\ UNCHANGED <<got, overflow, args, cmd>>

\* file_read: read_data from pos, then pos += bytes_read.  Bytes go to
\* buf[0..bytes_read-1], outside the caller's buffer when nbytes < 0.
FileRead(fd, nbytes) ==
    LET r == ReadData(fds[fd].inode, fds[fd].pos, nbytes) IN
    /\ fds' = [fds EXCEPT ![fd].pos = @ + Len(r)]
    /\ got' = [got EXCEPT ![fd] = @ \o r]
    /\ overflow' = (nbytes < 0 /\ r # <<>>)

\* dir_read: nothing past NumDirEntries; otherwise the dentry at pos,
\* whose name strncpy writes as 32 bytes, then pos++.  The extra
\* test[nbytes] = '\0' lands past the buffer whenever that caller byte
\* was not already zero.
DirRead(fd, nbytes) ==
    LET pos == fds[fd].pos IN
    \/ /\ NumDirEntries < pos
       /\ overflow' = FALSE
       /\ UNCHANGED <<fds, got>>
    \/ \E d \in ReadDentryByIndex(pos) :
       /\ ~(NumDirEntries < pos)
       /\ fds' = [fds EXCEPT ![fd].pos = @ + 1]
       /\ got' = [got EXCEPT ![fd] = Append(@, d.fname)]
       /\ overflow' \in IF nbytes < MAX_FNAME_SIZE THEN {TRUE} ELSE BOOLEAN

\* read (syscall.c:128-134) through the descriptor's table.
Read(fd, nbytes) ==
    /\ fds[fd].in_use
    /\ UNCHANGED <<args, cmd>>
    /\ \/ fds[fd].optbl = "file" /\ FileRead(fd, nbytes)
       \/ fds[fd].optbl = "dir"  /\ DirRead(fd, nbytes)

\* A plausible slip: copying argstr into args only when it is not empty.
ExecuteKeepsEmptyArgs(c) ==
    LET p == ParseExec(c) IN
    /\ Loadable(p.fname)
    /\ fds' = FreshFds
    /\ got' = [fd \in FdIdx |-> <<>>]
    /\ args' = IF p.argstr = <<>> THEN args ELSE p.argstr
    /\ overflow' = p.over
    /\ cmd' = c

\* The program in the slot halts (its descriptors cleared) and execute(c)
\* (filesys.c:538-570) loads a new one into it: parse_exec, file_to_mem's
\* checks, fd 0 and 1 on the terminal, strcpy(cur_pcb->args, argstr),
\* whose NUL lands past args[128] for a 128-byte argstr.  An execute that
\* fails returns -1 before it touches a slot, and is not a step here.
Execute(c) ==
    LET p == ParseExec(c) IN
    /\ Loadable(p.fname)
    /\ fds' = FreshFds
    /\ got' = [fd \in FdIdx |-> <<>>]
    /\ args' = p.argstr
    /\ overflow' = p.over
    /\ cmd' = c

\* getargs' refusal test (syscall.c:254): nbytes < arg_length.
TooShort(n) == n < Len(args)

\* getargs (syscall.c:238-271) into a valid user buffer: nbytes = 0, an
\* empty args or nbytes < strlen(args) return -1; otherwise buf[0..n-1]
\* is cleared to EMPTY_CHAR and strncpy copies the arg_length bytes, so
\* with nbytes = arg_length no NUL follows them.  The result is the return
\* value and the buffer written.
GetArgsResult(n) ==
    IF n = 0 \/ Len(args) = 0 \/ TooShort(n)
    THEN [ret |-> -1, buf |-> <<>>]
    ELSE [ret |-> 0, buf |-> args \o [k \in 1..n - Len(args) |-> NUL]]

\* getargs returns GetArgsResult(n) and writes only the caller's buffer:
\* no kernel state changes.
GetArgs(n) == UNCHANGED vars

Next ==
    \/ \E name \in Names : Open(name)
    \/ \E fd \in FdIdx : Close(fd)
    \/ \E fd \in FdIdx, n \in ReadSizes : Read(fd, n)
    \/ \E c \in Commands : Execute(c)
    \/ \E n \in ArgSizes : GetArgs(n)

Spec == Init /\ [][Next]_vars

-----------------------------------------------------------------------------
Optbls == {"none", "stdio", "file", "dir", "rtc"}

FileByte(inode, p) == Byte(DataBlocks[inode][p \div BLOCK_SIZE], p % BLOCK_SIZE)

Chars == UNION {{c[i] : i \in DOMAIN c} : c \in Commands}

OpenAs(fd, optbl) == fds[fd].in_use /\ fds[fd].optbl = optbl

\* filedesc_t: the operations table, inode, pos and the in_use flag.
FileDesc == [in_use : BOOLEAN, optbl : Optbls, inode : Nat, pos : Nat]

TypeOK ==
    /\ fds \in [FdIdx -> FileDesc]
    /\ \A fd \in FdIdx :
          got[fd] \in Seq({Dentry(i).fname : i \in 0..Len(Dentries)}
                          \cup {Byte(db, b) : db \in 0..NumDataBlocks, b \in 0..BLOCK_SIZE-1})
    /\ overflow \in BOOLEAN
    /\ cmd \in Commands
    /\ args \in Seq(Chars) /\ Len(args) <= ARGS_SIZE

\* Successive file_read calls on a descriptor walk the file: pos counts
\* the bytes delivered since file_open, and every delivered byte that lies
\* inside the file is the file's byte at that position, across reads that
\* start, end or cross anywhere relative to a block boundary (read_data's
\* byte_offset/index_offset/start_flag bookkeeping, file_read's pos).
FileReadsFollowFile ==
    \A fd \in UserFds : OpenAs(fd, "file") =>
        LET ino == fds[fd].inode IN
        /\ fds[fd].pos = Len(got[fd])
        /\ \A k \in 1..Len(got[fd]) :
              k <= InodeLength[ino] => got[fd][k] = FileByte(ino, k-1)

\* Spec 4.4: read_bytes clamps at inode.length - offset, so reading a file
\* to its end delivers no byte past it (read_data's end-of-file test).
FileReadStopsAtEOF ==
    \A fd \in UserFds : OpenAs(fd, "file") => Len(got[fd]) <= InodeLength[fds[fd].inode]

\* Spec 4.4: the kth dir_read on a descriptor returns the kth dentry's name,
\* and nothing once the entries are exhausted (dir_open's pos, dir_read's
\* bound and read_dentry_by_index's index check).
DirListingInOrder ==
    \A fd \in UserFds : OpenAs(fd, "dir") =>
        \A k \in 1..Len(got[fd]) :
            got[fd][k] = IF k <= NumDirEntries THEN Dentry(k-1).fname ELSE EmptyName

\* A call writes only inside the buffers it is given: a read only
\* buf[0..nbytes-1] (file_read's int32 nbytes as read_data's uint32
\* length, dir_read's 32-byte strncpy and its test[nbytes] store), an
\* execute only fname[32], argstr[128] and the PCB's args[128]
\* (parse_exec's two terminating stores, the strcpy into args).
ReadWithinBuffer == ~overflow

\* Spec 4.6 read plainly: the leading word names the program and the
\* remainder, after the separating spaces, less trailing spaces and cut
\* at 128 bytes, is the argument string.
SpaceAt(c) == SelectInSeq(c, LAMBDA x : x = " ")
LeadingWord(c) == IF SpaceAt(c) = 0 THEN c ELSE SubSeq(c, 1, SpaceAt(c) - 1)
Remainder(c) == SubSeq(c, Len(LeadingWord(c)) + 1, Len(c))
StripSpaces(r) ==
    LET core == {i \in DOMAIN r : r[i] # " "}
    IN  IF core = {} THEN <<>> ELSE SubSeq(r, Min(core), Max(core))
SpecArgs(c) ==
    LET a == StripSpaces(Remainder(c))
    IN  SubSeq(a, 1, IF Len(a) < ARGS_SIZE THEN Len(a) ELSE ARGS_SIZE)

\* A command line of the spec's round-trip example's form, "prog arg1
\* arg2": words split by single spaces, a name of at most 32 bytes, an
\* argument string within 128.
WellFormed(c) ==
    /\ c # <<>> /\ c[1] # " " /\ c[Len(c)] # " "
    /\ \A i \in 1..Len(c) - 1 : ~(c[i] = " " /\ c[i+1] = " ")
    /\ Len(LeadingWord(c)) <= MAX_FNAME_SIZE
    /\ Len(SpecArgs(c)) < ARGS_SIZE

\* Spec 8 round trip: for a command "prog arg1 arg2", getargs in the
\* program it started (through parse_exec, the strcpy into the PCB, any
\* number of file calls and of other programs run in the slot before it)
\* succeeds exactly when "arg1 arg2" is not empty and fits in nbytes, and
\* then returns those bytes, zero-padded to nbytes.
ArgsRoundTrip ==
    WellFormed(cmd) =>
        \A n \in ArgSizes :
            LET a == SpecArgs(cmd)
                r == GetArgsResult(n)
            IN  /\ r.ret = 0 <=> (a # <<>> /\ Len(a) <= n)
                /\ r.ret = 0 => r.buf = a \o [k \in 1..n - Len(a) |-> NUL]

\* Spec 4.4 and 4.6 for any command line: the program runs only if the
\* leading word, at most 32 bytes, names it, and its argument string is
\* the remainder less separating and trailing spaces (parse_exec's loops).
ExecuteAsSpecified ==
    /\ Len(LeadingWord(cmd)) <= MAX_FNAME_SIZE
    /\ args = SpecArgs(cmd)
=============================================================================
