SPECIFICATION Spec
CONSTANTS
    MaxBody = 5
    MaxChunk = 3
    SizeRange = 8
INVARIANTS
    WindowInBody
    SentIsContiguous
    UploadIsComplete
PROPERTIES
    ImplementsBodyTransfer
