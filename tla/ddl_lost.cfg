SPECIFICATION Spec
CONSTANTS
    MaxTasks = 2
    Calls = {}
    NoCommand = NoCommand
INVARIANT CompletedSqlIsNotLost
