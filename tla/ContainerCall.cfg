SPECIFICATION FairDockerSpec
CONSTANTS
    Calls = {c1, c2}
    Runtimes <- AllRuntimes
    Settings <- AllSettings
    Stoppable = {c1}
    Orphans = {c2}
    MaxEvents = 1
    Nobody = Nobody
INVARIANTS SuccessIsEarned FailsForAReason LogsAreWhole CommandsKeepTheirWord
PROPERTIES EveryCallReturns NetworkHeals
CHECK_DEADLOCK FALSE
CONSTRAINT CancelledAlone
