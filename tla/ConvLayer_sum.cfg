CONSTANTS
    Side = 4
    Kern = 7
    Zero <- NoTerms
    Bias <- BiasTerm
    Mul <- Product
    Add <- Concat
    Negative <- SomeNegative
    Picture <- MCPicture
    Weight <- MCWeight
SPECIFICATION FairSpec
INVARIANTS TypeOK HandsOffConvolution EveryTapOnce
PROPERTIES OutputHolds HandsOff
