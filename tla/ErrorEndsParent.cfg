SPECIFICATION FairSpec
CONSTANTS
    Calls <- Ids
    Ops <- OpWithError
    EndedElsewhere = EndedElsewhere
    OtherEvent = OtherEvent
PROPERTY ErrorEndsParent
CHECK_DEADLOCK FALSE
