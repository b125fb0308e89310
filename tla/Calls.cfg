SPECIFICATION CallsSpec
CONSTANTS
  N = 3
  Ranges <- WalkRanges
  MaxLen = 4
  MaxInner = 2
  MaxSize = 6
  Values = {0, 1}
  Source = Source
  Dead = Dead
  FlatCursors = {c1, c2}
  Walkers = {c1, c2}
  Views <- WalkViews
  Cursors <- WalkCursors
  MaxLeg = 4
  Scanners = {c1, c2}
  MaxFolded = 3
  MaxRows = 4
  MaxElement = 2
  Keys = {1, 2, 3}
  MaxLeft = 4
  MaxRight = 3
  MaxCount = 6
  MaxSide = 3
  MaxSorted = 3
  MaxRank = 1
  MaxLevels = 2
  MaxWorth = 2
  MaxIndex = 6
  Percents <- AskedPercents
  Nobody = Nobody
  V = V
  It = It
  Bound = Bound
  Tmp = Tmp
  NoCursor = NoCursor
  MaxWrites = 2
  Length = 5
  PtrMax = 7
INVARIANTS ReadInOrder EqualIfSamePlace FoldsEachOnce CarriesShown ReadsFlat ReadsOwnElement
  SetOpCorrect TailCorrect GroupCorrect JoinCorrect OrderCorrect TerminalCorrect StopsInTime RowsAnswered
  ReadsMatches StaleOnlyAtFirst ForwardReadsPrefix ReverseReadsPrefix RestReadsRest
  TakeTypeOK ReadsPrefix ReadsPrefixReversed BaseOnTaken
PROPERTIES StepEnds WalksEnd TakeEnds
