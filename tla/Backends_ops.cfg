CONSTANTS
  WaxConfigs <- WaxNoScratch
  Wrap <- MCWrap
  Round <- MCRound
  JsConfigs <- JsScoped
  Backends <- AllNative
  Word <- MCWord
  Half <- MCHalf
  Addresses <- MCAddresses
  Widths <- MCWidths
  Memories <- MCMemories
  Targets <- MCTargets
  Helpers <- MCHelpers
  Nowhere = 300
  Read <- MCRead
  Write <- MCWrite
  SignExtend <- MCSignExtend
  StartMemories <- MCStartMemories
  U64s <- MCU64s
  U32s <- SmallU32s
  MaxOps = 5
  MaxStack = 3
  TailsAreBare = TRUE
  X86LeavesNothing = TRUE
  R = 2
  AccessWidths <- MCWidths
  M = 256
  U = 256
  PageSize = 4
  Byte <- MCByte
  Fault = Fault
  LinearSize = 10
  LinearBase = 4
  Kinds <- MCKinds
  Accesses <- MCAccesses
  ValueAt <- MCValueAt
  Values <- MCValues
  MaxWrites = 2
  Tables <- MCTables
  NoTable = NoTable
  TableAt <- MCTableAt
  security_dir_vaddr = 230
  Physical <- MCPhysical
  VirtualPages <- MCVirtualPages
  ByteValues = 2
  LastAddress = 15
  iovec_scratch_offset = 0
  WasiMemories <- MCWasiMemories
  OpenFds = {1, 2}
  Buffers = {12, 14}
  Counts = {0, 2, 18}
  Fds = {1, 3, 17}
  Contents <- MCContents
  Errnos = {8}
  MaxCalls = 3
SPECIFICATION MCSpec
INVARIANTS
  MCTypeOK
  ReturnsToCaller
  TranslatesAsMapped
PROPERTIES
  EveryBackendImplementsOsOp
  MCImplementsFlatMemory
  MCImplementsLinuxCalls
CHECK_DEADLOCK FALSE
