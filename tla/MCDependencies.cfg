CONSTANTS
    a = a
    b = b
    c = c
    Names = {a, b, c}
    Arguments <- Lines
    Declarations <- ThreeDeclarations
    Installations <- SomeInstallations
SPECIFICATION Spec
INVARIANTS
    DeclarationsKept
    DroppedForAReason
    SucceedsIfPossible
