SPECIFICATION Spec
CONSTANTS
    None = None
    Zeros = 0
    U64 = 40000000
    U128 = 50000000
    U256 = 60000000
    Addr = {0, 1, 2, 3}
    Contract = {3}
    Programs <- AllPrograms
    Artifacts <- Builds
    Defaults <- SomeDefaults
    Stores <- Start0
    MaxNonce = 2
    MaxThrows = 1
INVARIANTS
    TypeOK
    AskedIsServed
    SwitchesHonoured
    NothingInvented
    PaidOnce
PROPERTIES
    CommittedIsValid
