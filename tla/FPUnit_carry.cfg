CONSTANTS
    MB = 2
    EB = 3
    Operands <- SomeWords
SPECIFICATION Spec
INVARIANTS RoundsRight
