CONSTANTS
    ImageRows = 2
    ImageCols = 1
    Conv1Dim = 2
    Conv2Dim = 1
    LinDim = 2
    Data <- MCData
    Zero = 0
    Answers <- MCAnswers
    Predict <- MCPredict
    StripStarts <- MCStrips
    UninitStarts <- NoUninit
    StripRows = 2
    NoAnswer = NoAnswer
SPECIFICATION Spec
INVARIANT StoredAtItsRow
