\* The PIT may fire wherever the kernel runs with IF = 1.
CONSTANTS
  sh = sh  ls = ls  bad = bad  short = short  NoProg = NoProg
  Programs <- MC_SafePrograms
  Shell = sh
  Executables <- MC_SafeExec
  ShortImages <- MC_NoShort
  MAX_PROCESS = 4
  PreemptKernel = TRUE
  UsersWaitForBoot = TRUE
SPECIFICATION Spec
CONSTRAINT BootTicksBound
INVARIANT ConsolesInRange
