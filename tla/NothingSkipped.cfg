SPECIFICATION Spec
CONSTANTS
    Events <- MCEvents
    Kind <- MCKind
    Subject <- MCSubject
    Subjects <- MCSubjects
    Prefixes <- MCPrefixes
    Length <- MCLength
    Time <- MCTime
    Second = 2
    Zone = 10
    MaxLag = 0
    MaxCrashes = 1
    None = None
INVARIANT NothingSkipped
CHECK_DEADLOCK FALSE
