\* Kernel code runs to completion between PIT ticks, users wait for the
\* three shells: no enabled task starves and the boot completes.
CONSTANTS
  sh = sh  ls = ls  bad = bad  short = short  NoProg = NoProg
  Programs <- MC_FewPrograms
  Shell = sh
  Executables <- MC_FewExec
  ShortImages <- MC_NoShort
  MAX_PROCESS = 4
  PreemptKernel = FALSE
  UsersWaitForBoot = TRUE
SPECIFICATION Spec
CONSTRAINT BootTicksBound
PROPERTIES EnabledTasksRun ShellsStarted
