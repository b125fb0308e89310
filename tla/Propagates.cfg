SPECIFICATION ThrowSpec
CONSTANT MaxPile = 2
INVARIANT TerminalsPropagate
CHECK_DEADLOCK FALSE
