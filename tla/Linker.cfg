CONSTANTS
  NULL = NULL
  a = a
  b = b
  c = c
  s = s
  t = t
  LibSystem = LibSystem
  Path <- MCPath
  Symbol <- MCSymbol
  Image <- MCImage
  Dylinker = 0
  Main = 1
  LinkerExports = {t}
  AuxPaths <- MCAux
  CasPath = c
  Diverges = Diverges
  Disks <- MCDisks
SPECIFICATION FairSpec
INVARIANTS DependenciesLoaded ChainSound OrdinalsLineUp LibSystemWins
  AtMostOnce BoundToLoaded
PROPERTIES AcyclicStarts
