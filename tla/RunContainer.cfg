SPECIFICATION FairSpec
CONSTANTS
    c1 = c1
    c2 = c2
    ip1 = ip1
    ip2 = ip2
    Calls <- BothCalls
    Faulty <- OneCall
    Cancellable <- OneCall
    Linux = TRUE
    IPs <- BothIPs
    NoIP = NoIP
    Absent = Absent
INVARIANTS LeftoversAreKnown NamesGoWithCalls SuccessIsEarned
PROPERTY CancelledCallsReturn
CHECK_DEADLOCK FALSE
