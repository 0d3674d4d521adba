\* One reader; units of two blocks, a buffer of two units, files of more than
\* two buffers, reads of up to a segment.
\* The process may exit, and a deleted file has no further step.
SPECIFICATION Spec
CHECK_DEADLOCK FALSE
CONSTANTS
    Reader = {r1}
    BLOCK_SIZE = 2
    IO_SIZE = 4
    BufSize = 8
    MaxSize = 18
    MaxRead = 8
    Junk = Junk
INVARIANTS FileIntact KeyKnown CacheCoherent ReadsRight ExitsNearEnd
PROPERTY AppendOnly
