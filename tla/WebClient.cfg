SPECIFICATION ClientSpec
CONSTANTS
    Keys = {1, 2}
    Rows = {r1, r2}
    MaxCalls = 3
    MaxAttempts = 2
    MaxTime = 2
    MaxTurns = 2
    MaxLine = 4
    MaxDrops = 2
INVARIANTS SettledRows OneSubmission ActsOnItsRows PageMatchesRooms BilledOnce LiveIsBilled CaptionsApart
CHECK_DEADLOCK FALSE
