SPECIFICATION Spec
CONSTANTS
    KeyDigits = 4
    Order = 13
    ByteStrings <- MCByteStrings
    Names <- MCNames
    Descriptors <- MCDescriptors
    Depth = 4
    Limit = 128
    Words <- MCWords
    Salsa <- MCSalsa
    BitXor <- MCXor
    BitAnd <- MCAnd
    Inputs <- MCInputs
    SortedKeys <- MCSortedKeys
INVARIANTS
    TransactionIds
    BlockHeights
    Fees
    AddressTexts
    KeyTextsSign
    JsonThroughCalls
    AmountTexts
    Scrypt
CHECK_DEADLOCK FALSE
