CONSTANTS
    a = a
    b = b
    c = c
    Names = {a, b, c}
    Arguments <- Lines
    Declarations <- TwoDeclarations
    Installations <- PresentOrNot
SPECIFICATION Spec
INVARIANTS
    RequiresMet
