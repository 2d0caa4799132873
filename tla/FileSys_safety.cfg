\* open, close and read of files, the directory and the RTC on two user
\* descriptors, with halt-and-execute reusing the slot.
CONSTANTS
  EmptyName <- MC_EmptyName  Garbage = Garbage  NUL = NUL
  Executables <- MC_Executables
  BLOCK_SIZE = 2
  NUM_FDS = 4
  NumInodes = 3
  NumDataBlocks = 4
  InodeLength <- MC_InodeLength
  DataBlocks <- MC_DataBlocks
  Dentries <- MC_Dentries
  NumDirEntries = 4
  Names <- MC_Names
  ReadSizes = {1, 2, 3}
  Commands <- MC_Commands
  ArgSizes = {0, 1, 3}
SPECIFICATION Spec
INVARIANTS TypeOK FileReadsFollowFile ArgsRoundTrip

