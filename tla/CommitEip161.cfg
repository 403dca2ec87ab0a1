SPECIFICATION Spec
CONSTANTS
    Addr = {1}
    Key = {k1}
    Val = {zero, one}
    Zero = zero
    Hash = {h1}
    EmptyHash = none_h
    Purse = {p0, p1}
    EmptyPurse = p0
    Absent = absent
    NotLoaded = unloaded
INVARIANT ClearsOnlyFromEip161
