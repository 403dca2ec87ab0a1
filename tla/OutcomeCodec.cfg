SPECIFICATION Spec
CONSTANTS
    Addr = {1, 2}
    Key = {1, 2}
    Val = {zero}
    Zero = zero
    Hash = {h1}
    EmptyHash = none_h
    Purse = {p0}
    EmptyPurse = p0
    Absent = absent
    NotLoaded = unloaded
    Undefined = undefined
    byte = byte
    topic = topic
    Byte = {byte}
    Topic = {topic}
    Result <- Results
    Changes <- AllChanges
    Message <- Messages
    Price = {7}
INVARIANTS
    InStep
    RoundTrip
    Canonical
