SPECIFICATION LastSpec
CONSTANTS
  N = 3
  MaxInner = 2
  B = B
  Prev = Prev
  Source = Source
  Dead = Dead
  FlatCursors <- MCCursors
  Ranges <- MCRanges
INVARIANT LastIsAlive
