SPECIFICATION LfSpec
INVARIANTS
    LfTypeOK
    TagsDistinct
    RotationCovers
