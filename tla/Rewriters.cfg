CONSTANTS
  Images <- MCImages
  Names <- MCNames
  NoName = NoName
  MachOImages <- MCMachOImages
  MachONames <- MCMachONames
  MaxRewrites = 2
  Programs = {"p", "q"}
  Dirs = {"d"}
  AdHoc = "-"
  Team <- MCTeam
  Binaries <- MCBinaries
  Chars <- MCChars
  CDHash <- MCCDHash
  HashLen = 4
  ShimIdentifier <- MCShimIdentifier
  NotSet <- MCNotSet
  None = None
  MaxShims = 2
  MaxCopies = 1
SPECIFICATION MCSpec
INVARIANTS
  MCTypeOK
  LoaderSeesAdded
  MCOnlyPaddingIsUsed
  MCRefusedOnlyWhenFull
  SignedLoadsShim
  SignedAsAsked
PROPERTY
  MachOImplementsLoadCommands
CHECK_DEADLOCK FALSE
