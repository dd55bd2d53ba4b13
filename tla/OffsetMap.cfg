SPECIFICATION Spec
CONSTANTS
    MaxFrags = 3
    Characters <- MCCharacters
    Texts <- MCTexts
    Gaps = {0, 1}
    Blank = "_"
    Mark <- MCMark
    Ssml = "E002"
    Markdown = "E003"
    FullTag <- MCFullTag
    BareTag <- MCBareTag
    EndTag = "</speak>"
INVARIANTS
    TypeOK
    BoundaryFindsItsWord
    OffsetsNeverGoBack
CHECK_DEADLOCK FALSE
