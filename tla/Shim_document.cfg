CONSTANTS
  Alphabet <- MCAlphabet
  Documents <- MCDocuments
  Uses <- MCUses
  None = None
  AllSymbols = AllSymbols
  Platforms = {"ELF"}
  HostHeaders <- MCHostHeaders
  dlfcn_h <- MCDlfcn
  MaxUses = 0
  MaxCalls = 0
  MaxFrames = 0
SPECIFICATION ShimSpec
INVARIANT
  IngestsTheDocument
CHECK_DEADLOCK FALSE
