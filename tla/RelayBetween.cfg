SPECIFICATION Spec
CONSTANTS
    BufferLimit = 3
    ReadSize = 2
    DescriptorLimit = 1
    EventBytes = 2
    DescriptorsAt <- MCDescriptorsAt
    MaxBytes <- MCMaxBytes
    MaxChanges = 1
    Ambiguous = TRUE
    Errors = TRUE
INVARIANTS
    EventsBetweenMessages
CHECK_DEADLOCK FALSE
