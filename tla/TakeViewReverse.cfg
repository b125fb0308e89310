SPECIFICATION TakeSpec
CONSTANTS
  Length = 4
  PtrMax = 7
  IntMax = 3
INVARIANT ReverseIsOfPrefix
