SPECIFICATION Spec
CONSTANTS
    Usize = 65536
    Data = {0, 5}
    Lists <- AccessLists
    Few = {0, 1, 2}
    Length = {0, 143, 144, 148, 200, 268}
    Count <- Numbers16
INVARIANTS
    EncoderAgrees
    TrapsOnlyOnHugeNumbers
