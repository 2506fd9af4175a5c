SPECIFICATION FairSpec
CONSTANTS
  Modes = {"ptt", "vad"}
  MaxRetries = 4
  MaxDelay = 3
  ReinjectEvery = 2
  MaxAudio = 3
  MaxCtrl = 2
INVARIANTS OneResponsePerTurn NoGapInSession PromptIsFresh
PROPERTIES HandlerSettles
CHECK_DEADLOCK FALSE
