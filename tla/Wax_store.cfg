CONSTANTS
  Word <- MCWord
  Half <- MCHalf
  Addresses <- MCAddresses
  Widths <- Word32
  Memories <- MCMemories
  Targets <- NoU32s
  Helpers <- NoU32s
  Nowhere = 300
  Read <- MCRead
  Write <- MCWrite
  SignExtend <- MCSignExtend
  Wrap <- MCWrap
  StartMemories <- AllOnes
  U64s <- TwoU64s
  U32s <- NoU32s
  MaxOps = 4
  MaxStack = 3
SPECIFICATION MCSpec
INVARIANT
  StoresWhereAsked
CHECK_DEADLOCK FALSE
