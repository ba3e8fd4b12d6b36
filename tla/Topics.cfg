SPECIFICATION Spec
CONSTANTS
    Byte <- Bytes
    NameTable <- Table
    Message <- Messages
    Prefix <- SigPrefix
    QSize = 12
    ArgLen = 6
    MaxPublish <- MostMessages
INVARIANTS TypeOK HandledInOrder NameInFront
PROPERTIES NewestHandled
