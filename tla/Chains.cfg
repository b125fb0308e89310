SPECIFICATION ChainSpec
CONSTANTS
  MaxHandles = 4
  Containers = {c}
  Stages = {"where", "scan", "default_if_empty", "where_indexed"}
  Pairings = {"zip"}
  Eagers = {"to_vector"}
  Length = 4
  MaxStages = 3
  MaxReads = 8
  Extra = Extra
  Off = Off
  ViewStages <- ChainStages
  MaxPile = 3
  v1 = v1
  v2 = v2
  c1 = c1
  c2 = c2
  NoCursor = NoCursor
  N = 3
  Views <- WhereViews
  Cursors <- WhereCursors
  Ranges <- WhereRanges
INVARIANTS NoDangling ReferenceLives ChainFolds ChainLast ThrowsArrive TypeOK OnMatch CacheIsFirst NoMatchPassed
PROPERTY Implements
CHECK_DEADLOCK FALSE
