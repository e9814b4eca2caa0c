SPECIFICATION MCSpec
CONSTANTS
  Bits = 4
  WordSize <- MCWordSize
  MieUnit  = 1
  MpieUnit = 2
  MppUnit  = 4
  UxlField = 0
  TvecSpan = 256
  RegCount = 8
  Lanes = 8
  MCLanes = 8
  MCLaneBits = 1
  LaneSize = 2
  MemWords = 4
  RomSize  = 24
  Misa     = 10
  Temp     = 7
  Programs <- MCPrograms
  Images   <- MCImages
  Sources  <- MCSources
  Mains    <- MCMains
  Xor <- MCXor
  Or  <- MCOr
  AndNot <- MCAndNot
  PickLanes  <- MCPickLanes
  MergeLanes <- MCMergeLanes
  TInit = 3
  TRP   = 2
  TRC   = 8
  TMRD  = 2
  Refreshes = 8
INVARIANTS
  UnitsTypeOK
  MeetsIsaBut
  LoadsSeeStores
  MemTypeOK
PROPERTIES
  EndsOnce
  FollowsPowerUp
  ComesUp
CHECK_DEADLOCK FALSE
