SPECIFICATION FairInjSpec
CONSTANTS
  WordSize <- MCWordSize
  MieUnit  = 1
  MpieUnit = 2
  MppUnit  = 4
  UxlField = 0
  TvecSpan = 16
  RegCount = 2
  Lanes = 2
  MCLanes = 2
  MCLaneBits = 2
  MemWords = 2
  RomSize  = 4
  Misa     = 10
  Programs <- MCPrograms
  Images   <- MCImages
  Xor <- MCXor
  Or  <- MCOr
  AndNot <- MCAndNot
  PickLanes  <- MCPickLanes
  MergeLanes <- MCMergeLanes
  HalfSize = 4
  Controls = {}
  Addrs = {}
  Datas = {}
  Setups <- MCSetups
  ResultReg = 1
  UintSize = 4
  Gaps = {1, 2}
  HoldGaps = {1, 3}
INVARIANTS
  InjTypeOK
  InjectedOnce
  ReadsAreStable
  DumpIsFresh
  ResultIsFinal
PROPERTIES
  ImplementsFaultModel
  RunEnds
