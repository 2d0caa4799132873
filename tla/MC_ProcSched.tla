--------------------------- MODULE MC_ProcSched ---------------------------
(* Model values and bounds for checking ProcSched with TLC.  sh is the    *)
(* shell, ls another executable, bad a name with no ELF file behind it    *)
(* and short an executable whose data blocks stop before its length.      *)
EXTENDS ProcSched

CONSTANTS sh, ls, bad, short

MC_Programs     == {sh, ls, bad, short}
MC_Executables  == {sh, ls, short}
MC_Short        == {short}
MC_SafePrograms == {sh, ls, bad}
MC_SafeExec     == {sh, ls}
MC_FewPrograms  == {sh, bad}
MC_FewExec      == {sh}
MC_NoShort      == {}

(* con_idx counts bootstrap ticks and only stops once three tasks are     *)
(* queued; MaxBootTicks bounds it for model checking.  Four ticks are     *)
(* enough for a fourth bootstrap, one past the last terminal.             *)
MaxBootTicks == 4
BootTicksBound == con_idx <= MaxBootTicks
=============================================================================
