SPECIFICATION PassSpec
CONSTANTS
  N = 2
  MaxWrites = 1
  V = V
  It = It
  Bound = Bound
  Tmp = Tmp
  NoCursor = NoCursor
  Views <- MCViews
  Cursors <- MCCursors
  Ranges <- MCRanges
PROPERTY EveryPassEnds
