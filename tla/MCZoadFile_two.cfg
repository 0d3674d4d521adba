\* Two readers share the cache of one file.
SPECIFICATION Spec
CHECK_DEADLOCK FALSE
SYMMETRY Symm
CONSTANTS
    Reader = {r1, r2}
    BLOCK_SIZE = 2
    IO_SIZE = 4
    BufSize = 8
    MaxSize = 18
    MaxRead = 8
    Junk = Junk
INVARIANT ReadsRight
