\* Kernel code runs to completion between PIT ticks, users wait for the
\* three shells: the invariants of process control and scheduling.
CONSTANTS
  sh = sh  ls = ls  bad = bad  short = short  NoProg = NoProg
  Programs <- MC_SafePrograms
  Shell = sh
  Executables <- MC_SafeExec
  ShortImages <- MC_NoShort
  MAX_PROCESS = 5
  PreemptKernel = FALSE
  UsersWaitForBoot = TRUE
SPECIFICATION Spec
CONSTRAINT BootTicksBound
INVARIANTS TypeOK ConsolesInRange QueueIntegrity UserRunsOwnImage ExactlyLeavesEnabled ParentsLive NoHangOrFault
PROPERTY ImplementsProcTree
