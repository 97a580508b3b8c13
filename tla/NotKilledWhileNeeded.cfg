SPECIFICATION Spec
CONSTANTS
    Calls <- Ids
    Ops <- OpWithService
    EndedElsewhere = EndedElsewhere
    OtherEvent = OtherEvent
INVARIANT NotKilledWhileNeeded
CHECK_DEADLOCK FALSE
