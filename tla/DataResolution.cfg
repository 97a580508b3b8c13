SPECIFICATION FairSpec
CONSTANTS
    Callers = {c1, c2}
    Credentials = {none, right, wrong}
    Accepted = {right}
    NoOne = NoOne
    MaxVersion = 2
    MaxCrashes = 1
    Local = {c1}
    Nested = {c2}
    NoCreds = none
    MaxTries = 2
INVARIANTS MarkedIsWhole RightCredsAreUsed
PROPERTIES AnsweredIsCurrent EveryOpIsAnswered
CHECK_DEADLOCK FALSE
