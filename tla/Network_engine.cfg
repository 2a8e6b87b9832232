CONSTANTS
    Pictures <- MCPictures
    Conv1 <- MCConv1
    Tap2 <- MCTap2
    Rectified <- NoNegative
    Add <- Plus
    Quarter <- By4
    Zero = 0
    Affine <- MCAffine
    ManSize = 16
    Classes = 4
SPECIFICATION FairSpec
INVARIANTS TypeOK TakenOnce
PROPERTIES ImplementsEngine Finishes
