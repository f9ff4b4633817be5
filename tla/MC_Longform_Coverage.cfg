SPECIFICATION LfSpec
INVARIANTS
    UseCasesAndCommandsShown
