SPECIFICATION PageSpec
CONSTANTS
  MaxChunks = 3
  MaxCloses = 1
  Msgs = {m1, m2}
  N = 2
  MaxTries = 2
  MaxFaults = 2
INVARIANTS PlayedWhole SentGetsThrough NoEcho
PROPERTIES TurnReachesReceiver GateReopens
CHECK_DEADLOCK FALSE
