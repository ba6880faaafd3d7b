SPECIFICATION MCSpec
CONSTANTS
  Guests <- MCGuests
  Tunnels <- MCTunnels
  Policies <- MCPolicies
  CustomHooks <- MCHooks
  MaxLayers = 2
  MaxAdded = 2
  Abi <- MCAbi
  Requests <- MCRequests
  Alphabet <- MCAlphabet
  Documents <- MCDocuments
  Uses <- MCUses
  None = None
  AllSymbols = AllSymbols
  Platforms = {"Apple", "ELF"}
  HostHeaders <- MCHostHeaders
  dlfcn_h <- MCDlfcn
  MaxUses = 2
  MaxCalls = 1
  MaxFrames = 4
INVARIANTS
  TypeOK RedirectsAreImports IntegratedChangesNoRedirect
  LinksWhatItResolves SkippedNamesAreAnswered ConventionFitsImport
  ReadsTheDocument CallsArriveWhole DaemonOverridesExecve
CHECK_DEADLOCK FALSE
