SPECIFICATION OutputFairSpec
CONSTANTS
    Nodes = {n1, n2}
    Runs = {n1}
    Old = Old
    NoOne = NoOne
    Absent = Absent
    Empty = Empty
    MaxTroubles = 1
    Params <- MCParams
    Offers <- MCOffers
    Root = "op"
    Subcalls = {"serial", "container"}
    ParentOf <- MCParentOf
INVARIANTS LockIsExclusive LeakedCfgsAreSwept ArgsAreFirstValid GraphIsTrue
CHECK_DEADLOCK FALSE
PROPERTIES StoppedNodesExit RunsNoticeTheEnd ForcedRunsLeaveNothing
