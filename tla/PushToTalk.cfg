SPECIFICATION FairSpec
CONSTANTS
  MaxPresses = 3
  MaxDrops = 1
INVARIANTS TurnsStayApart NothingLeftOpen
PROPERTIES ButtonComesBack ShownClosesSession
CHECK_DEADLOCK FALSE
