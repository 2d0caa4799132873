\* Tasks map video memory and halt.
CONSTANTS
  sh = sh  ls = ls  bad = bad  short = short  NoProg = NoProg
  Programs <- MC_SafePrograms
  Shell = sh
  Executables <- MC_SafeExec
  ShortImages <- MC_NoShort
  MAX_PROCESS = 4
  PreemptKernel = FALSE
  UsersWaitForBoot = TRUE
SPECIFICATION Spec
CONSTRAINT BootTicksBound
INVARIANT VidmapConsistent
