---------------------------- MODULE SegmentRead ----------------------------
(***************************************************************************)
(* Userdata::Read of util/zoad/Userdata.cpp, which z_load ends in: find    *)
(* the segments of a file that hold the bytes asked for, read each of them *)
(* from the device, and copy the bytes into the caller's buffer.  It runs  *)
(* in the caller's thread, with the write_lock of the Userdata held.       *)
(*                                                                         *)
(* Every flush makes a segment of SegSize bytes, one transfer unit in each *)
(* zone of the stripe.  Offsets and sizes are counted in blocks, and again *)
(* in bytes (the ori_ variables).  A segment that is not read as a whole   *)
(* goes through the partition's read_buf, into which izg_read puts all of  *)
(* it: the offset it is given skips nothing while a stripe is narrower     *)
(* than a block is long.                                                   *)
(***************************************************************************)
EXTENDS Integers, Sequences

CONSTANTS
    BLOCK_SIZE, \* the device's block
    IO_SIZE,    \* the device's transfer unit
    BufSize,    \* IO_SIZE * izg_cnt: the size of a flush and of a segment
    Junk        \* the value of a byte nothing has put there

ASSUME SegmentAssumption ==
    /\ BLOCK_SIZE \in Nat \ {0}
    /\ IO_SIZE \in Nat \ {0} /\ IO_SIZE % BLOCK_SIZE = 0
    /\ BufSize \in Nat \ {0} /\ BufSize % IO_SIZE = 0
    /\ BufSize \div IO_SIZE <= BLOCK_SIZE
    /\ Junk \notin Int

(* The i-th byte of s, for an i that may lie outside it.                   *)
At(s, i) == IF i \in DOMAIN s THEN s[i] ELSE Junk

(* s with k bytes copied to position at from position from of the source.  *)
Copy(s, at, source, from, k) ==
    [i \in 1 .. (IF at + k > Len(s) THEN at + k ELSE Len(s)) |->
        IF i > at /\ i <= at + k THEN At(source, from + i - at) ELSE At(s, i)]

Blocks(bytes) == (bytes + BLOCK_SIZE - 1) \div BLOCK_SIZE

SegBlocks == BufSize \div BLOCK_SIZE

(* Segment s of the file, from 0.                                          *)
Segment(data, s) == SubSeq(data, s * BufSize + 1, (s + 1) * BufSize)

-----------------------------------------------------------------------------
(* req_size: what of the read is done in this segment, in blocks.          *)
ReqSize(v, start_offset) ==
    IF start_offset = 0
    THEN IF v.req_size > SegBlocks THEN SegBlocks ELSE v.read_size
    ELSE IF start_offset + v.read_size > SegBlocks
         THEN SegBlocks - start_offset ELSE v.read_size

(* Where in its segment the read begins, and how much of the segment is    *)
(* left from there, in bytes.                                              *)
Skip(v) == v.ori_offset % BufSize
Room(v) == BufSize - Skip(v)

(* The segment goes straight to the caller.                                *)
ReadWhole(v, segment, req_size) ==
    [v EXCEPT !.read_size = @ - req_size,
              !.offset = @ + req_size,
              !.req_size = req_size,
              !.buf = Copy(@, v.buf_offset, segment, 0, BufSize),
              !.buf_offset = @ + req_size * BLOCK_SIZE]

(* How many bytes of read_buf are copied.                                  *)
CopySize(v, req_size) ==
    IF v.remain_bytes THEN v.ori_read_size
    ELSE IF req_size < SegBlocks /\ v.ori_read_size <= Room(v)
         THEN v.ori_read_size ELSE Room(v)

(* Mutant: the bytes are taken to be found when the blocks are.            *)
RemainsNever(v, ori_read_size, left) == FALSE

(* The blocks are used up but the bytes are not, because the read does not *)
(* begin with a block.                                                     *)
Remains(v, ori_read_size, left) ==
    ~v.remain_bytes /\ ori_read_size > Room(v) /\ left = 0

(* The segment goes through read_buf; bytes that remain are looked for in  *)
(* the next one.                                                           *)
ReadPart(v, segment, s, req_size) ==
    LET left == v.read_size - req_size
        went_on == ~v.remain_bytes /\ req_size < SegBlocks
                     /\ v.ori_read_size > Room(v) /\ left # 0
        ori == v.ori_read_size - (IF went_on THEN Room(v) ELSE 0)
        remains == Remains(v, ori, left)
        rest == ori - Room(v)
    IN  [v EXCEPT
            !.buf = Copy(@, v.buf_offset, segment,
                         IF v.remain_bytes THEN 0 ELSE Skip(v),
                         CopySize(v, req_size)),
            !.buf_offset = @ + Room(v),
            !.ori_offset = 0,
            !.req_size = 0,
            !.remain_bytes = remains,
            !.ori_read_size = IF remains THEN rest ELSE ori,
            !.read_size = IF remains THEN Blocks(rest) ELSE left,
            !.offset = IF remains THEN (s + 1) * SegBlocks ELSE @ + req_size]

(* One turn of the loop over the segments.                                 *)
ReadSegment(v, data, s) ==
    LET start_offset == v.offset - s * SegBlocks
        req_size == ReqSize(v, start_offset)
    IN  IF v.read_size = 0 \/ start_offset < 0 \/ start_offset >= SegBlocks
        THEN v
        ELSE IF Skip(v) # 0 \/ v.remain_bytes \/ req_size < SegBlocks
        THEN ReadPart(v, Segment(data, s), s, req_size)
        ELSE ReadWhole(v, Segment(data, s), req_size)

(* Userdata::Read: size bytes at offset of a file that holds data, into a  *)
(* buffer that holds buf.  An offset past the end makes it return -1 at    *)
(* once (missed); with read_size blocks not found it ends the process.     *)
UserdataRead(data, buf, offset, size) ==
    LET start == [offset |-> offset \div BLOCK_SIZE, read_size |-> Blocks(size),
                  req_size |-> Blocks(size), ori_offset |-> offset,
                  ori_read_size |-> size, buf_offset |-> 0,
                  remain_bytes |-> FALSE, buf |-> buf]
        segments == Len(data) \div BufSize
        after[s \in 0 .. segments] ==
            IF s = 0 THEN start ELSE ReadSegment(after[s - 1], data, s - 1)
    IN  IF start.offset * BLOCK_SIZE > Len(data)
        THEN [buf |-> buf, exits |-> FALSE, missed |-> TRUE]
        ELSE [buf |-> after[segments].buf, exits |-> after[segments].read_size # 0,
              missed |-> FALSE]
=============================================================================
