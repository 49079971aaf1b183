CONSTANTS
  NULL = NULL
  MaxLibs = 3
  Image <- MCImage
  Loaded <- MCLoaded
SPECIFICATION FairSpec
PROPERTIES InitializesAll
