SPECIFICATION BuildSpec
CONSTANTS
  a = a
  b = b
  f = f
  g = g
  w = w
  plain = plain
  odd = odd
  Name <- MCName
  Forms <- MCForms
  Normal = plain
  Bundles <- MCBundles
  Archives <- MCArchives
  Shim <- MCShim
  Block = 2
  Headroom = 4
  Buf = 3
  MaxMeta = 2
INVARIANTS Once ParentsFirst NothingBelowLinks FilesComplete
INVARIANTS LayersOverlaid RunsOriginal NamesResolve AppFindsPrimed HotFilesPrimed
\* The build has failed, or the satellite is up.
CHECK_DEADLOCK FALSE
