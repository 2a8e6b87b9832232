CONSTANTS
    MB = 2
    EB = 3
    Operands <- SomeWords
SPECIFICATION FairSpec
INVARIANTS TypeOK ResultRight InStep NoShiftsLeft
PROPERTIES Answered
