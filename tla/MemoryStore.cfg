SPECIFICATION Spec
CONSTANTS
    Addr = {1, 2}
    Key = {k1, k2}
    Val = {zero, one}
    Zero = zero
    Hash = {h1}
    EmptyHash = none_h
    Purse <- Funds
    EmptyPurse <- NoFunds
    Absent = absent
    Limb = 2
    Half = 4
    Block <- Blocks
INVARIANT ZeroIsAbsence
PROPERTY ImplementsStore
