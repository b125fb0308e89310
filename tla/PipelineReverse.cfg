SPECIFICATION ViewSpec
CONSTANTS
  Length = 4
  MaxStages = 3
  MaxReads = 8
  Extra = Extra
  Off = Off
  ViewStages <- MCStages
INVARIANT ReverseComposes
