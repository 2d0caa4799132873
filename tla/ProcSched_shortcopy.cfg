\* An executable whose copy into memory reads back short (file_to_mem).
CONSTANTS
  sh = sh  ls = ls  bad = bad  short = short  NoProg = NoProg
  Programs <- MC_Programs
  Shell = sh
  Executables <- MC_Executables
  ShortImages <- MC_Short
  MAX_PROCESS = 4
  PreemptKernel = FALSE
  UsersWaitForBoot = TRUE
SPECIFICATION Spec
CONSTRAINT BootTicksBound
INVARIANT UserRunsOwnImage
