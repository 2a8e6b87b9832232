CONSTANTS
    ImageRows = 2
    ImageCols = 1
    Conv1Dim = 1
    Conv2Dim = 1
    LinDim = 1
    Data <- MCData
    Zero = 0
    Answers <- MCAnswers
    Predict <- MCPredict
    StripStarts <- MCStrips
    UninitStarts <- MCUninit
    StripRows = 2
    NoAnswer = NoAnswer
SPECIFICATION FairSpec
INVARIANTS TypeOK AcknowledgedIsStored CalculatesOnLoadedNetwork AnswerIsCurrent
PROPERTIES ImplementsService MemoryStableWhileRunning OnlyAwaitedWordChanges CalcStartsClean AlwaysReturns
