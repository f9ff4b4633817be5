CONSTANTS
    Absent = Absent
    Null = Null
    NotObject = NotObject
    ModulePath <- MCModule
    Chars <- MCChars
    Ids <- MCIds
    Inputs <- MCInputs
SPECIFICATION Spec
INVARIANTS
    NoCrash
