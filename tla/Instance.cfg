SPECIFICATION Spec
CONSTANTS
    Inst = {1, 2}
    Addr = {a1, a2}
    MaxCalls = 4
    MaxDepth = 3
    MaxGrowth = 1
CHECK_DEADLOCK FALSE
INVARIANTS
    TypeOK
    OneAtATime
    OwnOutcome
    AnswersLand
    AddressHeld
PROPERTIES
    ThrowsForCause
    AbandonedStaysSilent
