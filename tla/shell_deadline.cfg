SPECIFICATION FairSpec
CONSTANTS
    PipeSize = 1
    MaxChunks = 3
    ExitCodes = {0, 1, 65537}
PROPERTY HonoursTimeout
