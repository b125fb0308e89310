SPECIFICATION Spec
CONSTANTS
  N = 3
  k1 = k1
  k2 = k2
  s1 = s1
  s2 = s2
  c1 = c1
  c2 = c2
  s3 = s3
  c3 = c3
  NoSet = NoSet
  Keys <- MCKeys
  Sets <- MCSets
  Cursors <- MCCursors
  Ranges <- MCRanges
INVARIANT EveryPassComplete
