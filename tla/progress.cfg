SPECIFICATION Spec
CONSTANTS
    Host = h
    Workers = {w}
    MaxSize = 2
    LongRange = 3
    MaxTransfers = 2
INVARIANTS
    TypeOK
    PlainTransferRunsClean
    ScriptDialogIsLeftAlone
