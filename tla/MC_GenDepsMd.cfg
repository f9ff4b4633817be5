CONSTANTS
    Absent = Absent
    Null = Null
    NotObject = NotObject
    NoMarker = NoMarker
    ModulePath <- MCModule
    Chars <- MCChars
    Ids <- MCIds
    Inputs = {}
    Cap = 1
    Objects <- MCRecords
    Outputs <- MCOutputs
    CodePoint <- MCCodePoint
SPECIFICATION MainSpec
INVARIANTS
    MainTypeOK
    SectionsOrdered
    TruncationCorrect
PROPERTIES
    Terminates
