SPECIFICATION RowSpec
CONSTANTS
  MaxElement = 2
  MaxRows = 4
INVARIANT MinMaxAnswers
CHECK_DEADLOCK FALSE
