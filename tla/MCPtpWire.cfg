SPECIFICATION Spec
CONSTANTS
    Mac <- MCMac
    OtherMacs <- MCOtherMacs
    SeqIds <- MCSeqIds
    Fillings <- MCFillings
    Types <- MCTypes
    FlagFields <- MCFlagFields
    Times <- MCTimes
    Residences <- MCResidences
INVARIANTS
    WireInv
    FieldsAreStandard
    HeaderIsRead
    TimeIsRead
    CorrectionIsRead
PROPERTY OwnAnswerTaken
