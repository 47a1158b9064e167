SPECIFICATION Spec
CONSTANTS
    MaxIdLength = 2
    Kinds <- KindNames
    Scopes <- ScopeNames
    Half = 16
    MaxPacketSize = 64
    PrefixTexts <- OneText
    IdTexts <- OneText
    Alphabet <- Characters
    Payloads <- ShortAndLong
    Plain = TRUE
CHECK_DEADLOCK FALSE
INVARIANT FramesAreWhole
