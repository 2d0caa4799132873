----------------------------- MODULE MC_FileSys -----------------------------
(* A boot image for checking FileSys: two-byte blocks; the directory "."   *)
(* and the RTC at inode 0, "frame" (3 bytes, ending inside its second      *)
(* block) at inode 1 and "hello" (2 bytes, exactly one block) at inode 2.  *)
(* Unused data_blocks entries are 0, as in an image padded with zeros.     *)
(* Names are one-letter strings but for frame's, which has the full 32     *)
(* bytes (no NUL on disk).  Inodes 1 and 2 stand for files whose first 40  *)
(* bytes are an ELF header.                                                *)
EXTENDS FileSys, TLC

Rep(ch, n) == [i \in 1..n |-> ch]

dot   == <<".">>
rtc   == <<"r">>
frame == Rep("f", 32)
hello == <<"h">>

MC_EmptyName == <<>>
MC_Executables == {1, 2}

MC_Dentries ==
    << [fname |-> dot,   ftype |-> 1, inode_num |-> 0],
       [fname |-> rtc,   ftype |-> 0, inode_num |-> 0],
       [fname |-> frame, ftype |-> 2, inode_num |-> 1],
       [fname |-> hello, ftype |-> 2, inode_num |-> 2],
       [fname |-> EmptyName, ftype |-> 0, inode_num |-> 0] >>

\* A boot block whose every slot is used: "." and the RTC only.
MC_FullDentries ==
    << [fname |-> dot, ftype |-> 1, inode_num |-> 0],
       [fname |-> rtc, ftype |-> 0, inode_num |-> 0] >>

\* data_blocks[] indexed from 0
Blocks(s) == [i \in 0..Len(s)-1 |-> s[i+1]]

MC_InodeLength == (0 :> 0) @@ (1 :> 3) @@ (2 :> 2)
MC_DataBlocks  == (0 :> Blocks(<<0, 0, 0>>)) @@ (1 :> Blocks(<<2, 1, 0>>))
                     @@ (2 :> Blocks(<<3, 0, 0>>))

MC_Names     == {dot, rtc, frame, hello}
MC_DirNames  == {dot, rtc}
MC_FileNames == {frame, hello}

\* Command lines: the program alone, the spec's "prog arg1 arg2", one
\* trailing space, and a 33-byte word that parse_exec cuts at 32 bytes.
MC_Commands ==
    { hello, hello \o <<" ", "a", " ", "b">>, hello \o <<" ", "a", " ">>,
      frame \o <<"f">> }

\* The program alone, with no argument.
MC_Hello == { hello }

\* One program with two trailing spaces after its argument.
MC_TrailCommands == { hello, hello \o <<" ", "a", " ", " ">> }

\* nbytes as passed in ebx: -1 is 0xFFFFFFFF
MC_NegSizes  == {-1, 1}
=============================================================================
