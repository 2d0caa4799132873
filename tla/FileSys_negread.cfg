\* A file read with a negative byte count.
CONSTANTS
  EmptyName <- MC_EmptyName  Garbage = Garbage  NUL = NUL
  Executables <- MC_Executables
  BLOCK_SIZE = 2
  NUM_FDS = 4
  NumInodes = 3
  NumDataBlocks = 4
  InodeLength <- MC_InodeLength
  DataBlocks <- MC_DataBlocks
  Dentries <- MC_Dentries
  NumDirEntries = 4
  Names <- MC_FileNames
  ReadSizes <- MC_NegSizes
  Commands <- MC_Hello
  ArgSizes = {0, 1, 3}
SPECIFICATION Spec
INVARIANT ReadWithinBuffer
