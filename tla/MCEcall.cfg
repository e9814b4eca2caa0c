SPECIFICATION HistSpec
CONSTANTS
  WordSize <- MCWordSize
  MieUnit  = 1
  MpieUnit = 2
  MppUnit  = 4
  UxlField = 0
  TvecSpan = 16
  RegCount = 2
  Lanes = 2
  MCLanes = 2
  MCLaneBits = 2
  MemWords = 1
  RomSize  = 4
  Misa     = 10
  Programs <- MCPrograms
  Images   <- MCImages
  Xor <- MCXor
  Or  <- MCOr
  AndNot <- MCAndNot
  PickLanes  <- MCPickLanes
  MergeLanes <- MCMergeLanes
INVARIANTS
  EcallNamesMode
