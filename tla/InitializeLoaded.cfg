CONSTANTS
  NULL = NULL
  MaxLibs = 3
  Image <- MCImage
  Loaded <- MCLoaded
SPECIFICATION FairSpec
INVARIANTS Complete DependenciesFirst CountDown
PROPERTIES AcyclicTerminates
