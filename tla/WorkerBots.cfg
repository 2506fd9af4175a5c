SPECIFICATION WorkerSpec
CONSTANTS
    Workers = {w1, w2}
    Broadcasts = {}
    Conversations = {c1}
    Languages = {en}
    Source = en
    MaxJobs = 2
    MaxCrashes = 1
    MaxLangs = 0
PROPERTIES LiveBotIsSeen
CHECK_DEADLOCK FALSE
