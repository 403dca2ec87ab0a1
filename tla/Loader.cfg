SPECIFICATION Spec
CONSTANTS
    l1 = l1
    l2 = l2
    own = own
    shared = shared
    wallet = wallet
    node = node
    None = None
    Garbage = Garbage
    Load = {l1, l2}
    Response = {own, shared}
    HostCalls = {"basic", "set_code"}
    Sources <- SomeSources
    Versions <- SomeVersions
    Served <- Answers
INVARIANTS
    TypeOK
    FailsForCause
    OneReading
    LoadedIsWhatItSays
PROPERTIES
    Settles
CHECK_DEADLOCK FALSE
