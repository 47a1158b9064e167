SPECIFICATION Spec
CONSTANTS
    MaxIdLength = 2
    Kinds <- KindNames
    Scopes <- ScopeNames
    Half = 16
    MaxPacketSize = 64
    PrefixTexts <- RawTexts
    IdTexts <- RawTexts
    Alphabet <- Characters
    Payloads <- ShortAndLong
    Plain = FALSE
CHECK_DEADLOCK FALSE
INVARIANTS TypeOK IdIsAccepted BeaconLeadsToTopics FleetsApart FramesAreWhole NothingHeldBack
