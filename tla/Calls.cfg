SPECIFICATION FairSpec
CONSTANTS
    Calls <- Ids
    Ops <- AllOps
    EndedElsewhere = EndedElsewhere
    OtherEvent = OtherEvent
INVARIANTS SuccessIsComplete FailsForAReason OneAtATime NotKilledWhileNeeded
PROPERTY EveryCallEnds
CHECK_DEADLOCK FALSE
