SPECIFICATION Spec
CONSTANTS
    c1 = c1
    c2 = c2
    ip1 = ip1
    ip2 = ip2
    Calls <- BothCalls
    Faulty = {}
    Cancellable = {}
    Linux = FALSE
    IPs <- BothIPs
    NoIP = NoIP
    Absent = Absent
INVARIANT AllOfANameResolve
CHECK_DEADLOCK FALSE
