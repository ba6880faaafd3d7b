CONSTANTS
  Alphabet <- MCAlphabet
  Documents <- MCDocuments
  Uses <- MCUses
  None = None
  AllSymbols = AllSymbols
  Platforms = {"ELF"}
  HostHeaders <- MCHostHeaders
  dlfcn_h <- MCDlfcn
  MaxUses = 2
  MaxCalls = 1
  MaxFrames = 4
SPECIFICATION ShimSpec
INVARIANT
  ForwardsToHost
CHECK_DEADLOCK FALSE
