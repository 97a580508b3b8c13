SPECIFICATION FairSpec
CONSTANTS
    Events <- MCEvents
    Kind <- MCKind
    Subject <- MCSubject
    Subjects <- MCSubjects
    Prefixes <- MCPrefixes
    Length <- MCLength
    Time <- MCTime
    Second = 2
    Zone = 0
    MaxLag = 4
    MaxCrashes = 2
    None = None
INVARIANTS NothingSkipped LatestRequestWins AddedIsFound
PROPERTY EventuallyApplied
CHECK_DEADLOCK FALSE
