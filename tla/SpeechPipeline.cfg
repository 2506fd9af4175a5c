SPECIFICATION SpeechSpec
CONSTANTS
    MaxUtterances = 2
    MaxWords = 2
    MaxPipelines = 2
    MaxIntents = 1
INVARIANTS RightDirection InOrder
PROPERTIES TranscriptsHandled
CHECK_DEADLOCK FALSE
