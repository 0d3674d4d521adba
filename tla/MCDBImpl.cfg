\* The bounds let every thread come to rest.
SPECIFICATION Spec
CHECK_DEADLOCK FALSE
CONSTANTS
    Thread = {t1, t2}
    Key = {1, 2}
    Null = Null
    Op <- MCOp
    write_buffer_size = 0
    CompactionTrigger = 1
    SlowdownTrigger = 1
    StopTrigger = 2
    MaxOutput = 1
    MaxGroup = 2
    MaxWrite = 2
    MaxOther = 2
    MaxFault = 2
INVARIANTS LiveFilesExist SnapshotsReadable ReadersUndisturbed Recoverable SyncWritesSynced AutomaticFindsWork
PROPERTY WritesReturn
