SPECIFICATION FairSpec
CONSTANTS
    Events <- MCEvents
    Subs = {s1}
    Roots <- MCRoots
    Root <- MCRoot
    Time <- MCTime
    Filters <- MCFilters
    Sinces <- MCSinces
    Zone = 0
    StoreCanFail = TRUE
    NoEvent = NoEvent
INVARIANTS NoLostEvent
PROPERTIES ImplementsDelivery ReplayInOrder EventuallyDelivered DeliveriesEndOnCancel
CHECK_DEADLOCK FALSE
