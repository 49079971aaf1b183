INIT Init
NEXT Next
CONSTANTS
  NONE = NONE
  W = 4
  SF <- Small
  DF <- Large
  Operands <- MCOperands
  Parts <- MCParts
  Segments <- MCSegments
  Slide = 2
  PtrSize = 2
  AddrSpace = 32
  DepCount = 1
  Opcodes <- MCOpcodes
  MaxOpcodes = 4
  Names <- MCNames
  Slice = 2
  IntBits = 6
  PtrBits = 4
  MaxBytes = 4
  PageSize = 2
  TopAddr = 24
  ReserveAt = 10
  SegmentLists <- MCSegmentLists
  DynamicLists <- MCDynamicLists
  WordRoles <- MCWordRoles
  Chains <- MCChains
  Slides = {0, 1, 2}
  Chars <- MCChars
  Cases <- MCCases
  ClassNames <- MCClassNames
  DUPMAX = 3
  NPAREN = 4
  Subjects <- MCSubjects
  Expressions <- MCExpressions
  Patterns <- MCPatterns
  LongBits = 12
  MAX_RECURSION = 2
  OPEN_MAX = 2
  PATH_MAX = 8
  SearchPaths <- MCSearchPaths
  PathLength <- MCPathLength
  Verdicts <- MCVerdicts
  ArgVectors <- MCArgVectors
  MaxSpawnCalls = 6
  NumBits = 6
  MaxNumBits = 9
  AddrBase = 16
  NWords = 5
  NumberTexts <- MCNumberTexts
  QuadParts <- MCQuadParts
  QuadTails <- MCQuadTails
  WordValues = {0, 1, 31, 255}
  ColonTexts <- MCColonTexts
  TicksPerUsec = 2
  MAX_ADJUSTMENT = 2
  SeqBits = 3
  TimeBitsLow = 2
  TimeBitsMid = 1
  TimeBitsHigh = 1
  MaxUsec = 3
  MaxUuids = 4
  HexBase = 4
  UuidBytes <- MCUuidBytes
  QSmall = 4
  QNinther = 8
  QStep = 5
  RunThreshold = 4
  Patience = 2
  KeyLists <- MCKeyLists
  ScanBuf = 5
  Piece = 2
  ByteBits = 3
  ShortBits = 4
  ScanTexts <- MCScanTexts
  ScanFormats <- MCScanFormats
INVARIANTS
  
  
  
  
  TextExact
\* A behaviour ends with its answer, or with the end of its program.
CHECK_DEADLOCK FALSE
