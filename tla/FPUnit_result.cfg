CONSTANTS
    MB = 2
    EB = 3
    Operands <- AllWords
SPECIFICATION PowerOnSpec
INVARIANTS ResultRight
