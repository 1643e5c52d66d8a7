\* Up to six values of four kinds: the last parent has one child or two.
CONSTANTS
    Values <- FourValues
    MaxSize = 6
    Arrays <- MCArrays
    Exprs <- MCExprs
    DigitValue <- MCDigits
    Input <- MCInput
    DecoderDelay = 1
    EncoderDelay = 2
    MaxErrors = 2
    MsgLen = 3
    MaxKills = 1
SPECIFICATION ProgramsSpec
\* All but one of the programs end.
CHECK_DEADLOCK FALSE
INVARIANTS
    TypeOK
    AllOrdersOnce
    ValueByGrammar
    InStep
    OnlyTailMissing
    WorkDone
PROPERTIES
    IsMaxQueue
    AllEnd
