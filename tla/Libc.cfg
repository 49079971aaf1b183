INIT Init
NEXT Next
CONSTANTS
  NONE = NONE
  SIZE_T_BITSIZE = 11
  TREEBIN_SHIFT = 6
  NTREEBINS = 4
  Granularity = 128
  MmapThreshold = 160
  TrimThreshold = 200
  MaxReleaseChecks = 2
  Answers <- MCAnswers
  Warmups <- MCWarmups
  Requests = {1, 60, 170}
  Alignments = {32}
  MaxCalls = 2
  SECSPERMIN = 2
  MINSPERHOUR = 2
  HOURSPERDAY = 4
  TimeBits = 17
  IntBits = 13
  TZ_MAX_TIMES = 30
  TZ_MAX_TYPES = 2
  TZ_MAX_CHARS = 4
  TZ_MAX_LEAPS = 2
  Instants <- MCInstants
  LeapTables <- MCLeapTables
  ZoneStrings <- MCZoneStrings
  ZoneBlocks <- MCZoneBlocks
  BrokenDown <- MCBrokenDown
  Blk = 2
  Ubuf = 1
  FileData <- MCFileData
  Texts <- MCTexts
  Plans <- MCPlans
  StreamKinds <- MCStreamKinds
  MaxStreamOps = 4
  HalfBits = 7
  Words <- MCWords
  Factors = {1, 3, 10}
  P = 12
  Emin <- MCEmin
  DBL_MAX_EXP = 30
  DBL_MAX_10_EXP = 9
  DBL_DIG = 3
  WordDigits = 2
  Ten_pmax = 5
  TensBits = 1
  bigtens <- MCBigtens
  tinytens <- MCTinytens
  MaxExp = 25
  ExpDigits = 2
  Quick_max = 2
  Int_max = 2
  ShortDigits = 6
  Strings <- MCStrings
  Decimals <- MCDecimals
  DtoaDoubles <- MCDtoaDoubles
  DtoaDigits <- MCDtoaDigits
  Files <- MCFiles
  Start = 1
  RootLists <- MCRootLists
  OptionSets <- MCOptionSets
  Rank <- MCRank
  MaxAsks = 2
  NIOV = 3
  PADSIZE = 4
  STATIC_ARG_TBL_SIZE = 4
  ShortWidth = 4
  IntWidth = 6
  LongLongWidth = 8
  DEFPREC = 2
  PrintedFields <- MCPrintedFields
  PrintedFormats <- MCPrintedFormats
  DirEntries <- MCDirEntries
  DirBlock = 2
  SizeEstimates = {0, 1, 4}
  DirIncrement = 2
  MaxDirOps = 8
INVARIANTS
  
  TimeExact
  StreamSound
  DecimalsExact
  
\* A behaviour ends with its answer, or when the calls of its bound are made.
CHECK_DEADLOCK FALSE
