SPECIFICATION Spec
CONSTANTS
    Addr = {a1, a2}
    Hash = {h1}
    EmptyHash = no_code
    Absent = absent
    SpecByte = {12, 200}
    Chain = {1, 2}
    FlagWord <- FlagWords
    Word = {0, 7}
    Zero = 0
    None = None
INVARIANTS
    TypeOK
    NothingInherited
    ReadsAreCurrent
    CodeReportedIffChanged
PROPERTIES
    ImplementsStateless
