SPECIFICATION WorkerSpec
CONSTANTS
    Workers = {w1, w2}
    Broadcasts = {b1}
    Conversations = {c1}
    Languages = {en, English}
    Source = English
    MaxJobs = 2
    MaxCrashes = 1
    MaxLangs = 2
SYMMETRY SameWorkers
INVARIANTS LanguagesServed OneBot
CHECK_DEADLOCK FALSE
