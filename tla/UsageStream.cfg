SPECIFICATION FairSpec
CONSTANTS
  Procs = {p1, p2}
  BatchSize = 2
  Increment = 2
  MaxSpeech = 3
  MaxEvents = 3
  MaxFaults = 2
INVARIANTS NothingTwice NeverOverbilled
PROPERTIES LedgerSpec UsageRecorded
CHECK_DEADLOCK FALSE
