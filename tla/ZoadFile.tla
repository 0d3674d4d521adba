------------------------------ MODULE ZoadFile ------------------------------
(***************************************************************************)
(* One file of the ZoAD environment: class ZoadFile of util/env_zoad.cc.   *)
(* The writer's bytes collect in buf_, which goes to the partition with    *)
(* z_flush only when it is full; the tail stays in memory.  Reads are      *)
(* served from buf_, from the partition (z_load), or from read_buf_, a     *)
(* cache of the last IO_SIZE bytes loaded.                                 *)
(*                                                                         *)
(* Data.  A byte is represented by its position in the file, so wherever   *)
(* it turns up it says where it belongs.  z_flush only queues: dev is what *)
(* was flushed and not deleted, and the partition's worker appends it one  *)
(* flush after the other, in order (RequestPath), at its own pace.  What   *)
(* z_load makes of the part appended so far is computed by Userdata::Read, *)
(* in SegmentRead; what it does not fill in of scratch is Junk.            *)
(*                                                                         *)
(* Threads.  A file has one writer at a time, and no reader while it is    *)
(* being written.  Readers of a closed file run concurrently, with each    *)
(* other and with the worker, and the fields of the cache, which no mutex  *)
(* protects, are shared by all.                                            *)
(***************************************************************************)
EXTENDS SegmentRead

CONSTANTS
    Reader,     \* the threads that read the file
    MaxSize,    \* bound: the size of the file
    MaxRead     \* bound: the size of a read

ASSUME SizeAssumption == MaxSize \in Nat /\ MaxRead \in Nat

VARIABLES
    file_size,          \* ZoadFile::file_size
    buf_,               \* the first buf_pos_ bytes of ZoadFile::buf_
    rest,               \* WriteUnbuffered: how much of its data is left
    dev,                \* the bytes handed to z_flush under the file's key
    appended,           \* how many of them the worker has written so far
    known,              \* the partition has a Userdata for the key
    unknownCall,        \* a z_sync or z_del found no Userdata for the key
    sealed,             \* no writer has the file open
    deleted,            \* ZoadFile::Delete has run
    read_buf_,          \* ZoadFile::read_buf_
    read_buf_offset_,   \* ZoadFile::read_buf_offset_
    use_read_buf,       \* ZoadFile::use_read_buf
    read_size,          \* ZoadFile::read_size
    buf_read_size,      \* ZoadFile::buf_read_size
    pc, off, n,         \* a reader: where it is, its offset and its n
    via,                \* a reader: the branch of Read it has taken
    scratch,            \* a reader: the bytes put into scratch so far
    missed,             \* a z_load has returned -1 and read nothing
    exited              \* the process has called exit(0)

writeVars == <<file_size, buf_, rest, dev, appended, known, unknownCall, sealed,
               deleted>>
cacheVars == <<read_buf_, read_buf_offset_, use_read_buf, read_size,
               buf_read_size>>
readVars  == <<pc, off, n, via, scratch>>
outcome   == <<missed, exited>>
vars == <<writeVars, cacheVars, readVars, outcome>>

buf_pos_ == Len(buf_)

Smaller(a, b) == IF a <= b THEN a ELSE b

(* The k bytes of the file from position p.                                *)
Bytes(p, k) == [i \in 1 .. k |-> p + i - 1]

-----------------------------------------------------------------------------
(* The constructor, in NewWritableFile, whose caller then writes.          *)
Init ==
    /\ file_size = 0 /\ buf_ = <<>> /\ rest = 0
    /\ dev = <<>> /\ appended = 0 /\ known = FALSE /\ unknownCall = FALSE
    /\ sealed = FALSE /\ deleted = FALSE
    /\ read_buf_ = [i \in 1 .. IO_SIZE |-> Junk]
    /\ read_buf_offset_ = 0 /\ use_read_buf = FALSE
    /\ read_size = 0 /\ buf_read_size = 0
    /\ pc = [r \in Reader |-> "idle"]
    /\ off = [r \in Reader |-> 0]
    /\ n = [r \in Reader |-> 0]
    /\ via = [r \in Reader |-> "none"]
    /\ scratch = [r \in Reader |-> <<>>]
    /\ missed = FALSE /\ exited = FALSE

-----------------------------------------------------------------------------
(* Mutant: the buffer is not emptied.                                      *)
FlushKeepsBuffer(b) ==
    LET wsize == IF Len(b) >= BufSize THEN Len(b) - (Len(b) % IO_SIZE) ELSE 0
    IN  /\ dev' = dev \o SubSeq(b, 1, wsize)
        /\ buf_' = b
        /\ known' = (known \/ wsize > 0)

(* Mutant: the buffer is emptied without z_flush.                          *)
FlushForgets(b) ==
    LET wsize == IF Len(b) >= BufSize THEN Len(b) - (Len(b) % IO_SIZE) ELSE 0
    IN  /\ buf_' = SubSeq(b, wsize + 1, Len(b))
        /\ UNCHANGED <<dev, known>>

(* Flush_file_buffer, on the buffer b: nothing unless b is full; then the  *)
(* whole transfer units of it are queued by z_flush and the remainder      *)
(* moves to the front.                                                     *)
Flush_file_buffer(b) ==
    LET wsize == IF Len(b) >= BufSize THEN Len(b) - (Len(b) % IO_SIZE) ELSE 0
    IN  /\ dev' = dev \o SubSeq(b, 1, wsize)
        /\ buf_' = SubSeq(b, wsize + 1, Len(b))
        /\ known' = (known \/ wsize > 0)

CanWrite == ~sealed /\ ~deleted /\ rest = 0

(* Append: what fits is copied; if that was all, a buffer that is now full *)
(* stays as it is.  Otherwise it is flushed and WriteUnbuffered goes on.   *)
AppendData(k) ==
    LET copy_size == Smaller(k, BufSize - buf_pos_)
        b == buf_ \o Bytes(file_size, copy_size)
    IN  /\ CanWrite /\ file_size + k <= MaxSize
        /\ file_size' = file_size + k
        /\ rest' = k - copy_size
        /\ \/ /\ copy_size = k
              /\ buf_' = b
              /\ UNCHANGED <<dev, known>>
           \/ /\ copy_size < k
              /\ Flush_file_buffer(b)
        /\ UNCHANGED <<appended, unknownCall, sealed, deleted, cacheVars,
                       readVars, outcome>>

(* One turn of WriteUnbuffered's loop.                                     *)
WriteUnbuffered ==
    LET copy_size == Smaller(rest, BufSize - buf_pos_)
        b == buf_ \o Bytes(file_size - rest, copy_size)
    IN  /\ rest > 0
        /\ rest' = rest - copy_size
        /\ Flush_file_buffer(b)
        /\ UNCHANGED <<file_size, appended, unknownCall, sealed, deleted,
                       cacheVars, readVars, outcome>>

(* Sync: z_sync is called where something is taken to have been flushed;   *)
(* it does not wait for the worker.                                        *)
Sync ==
    /\ CanWrite
    /\ Flush_file_buffer(buf_)
    /\ unknownCall' = (unknownCall \/ (file_size >= BufSize /\ ~known'))
    /\ UNCHANGED <<file_size, rest, appended, sealed, deleted, cacheVars,
                   readVars, outcome>>

(* WritableFile::Flush and ::Close are both FlushBuffer.                   *)
Flush ==
    /\ CanWrite
    /\ Flush_file_buffer(buf_)
    /\ UNCHANGED <<file_size, rest, appended, unknownCall, sealed, deleted,
                   cacheVars, readVars, outcome>>

Close ==
    /\ CanWrite
    /\ Flush_file_buffer(buf_)
    /\ sealed' = TRUE
    /\ UNCHANGED <<file_size, rest, appended, unknownCall, deleted, cacheVars,
                   readVars, outcome>>

Unread == \A r \in Reader : pc[r] = "idle"

(* NewAppendableFile finds the file and hands it to a writer again.        *)
Reopen ==
    /\ sealed /\ ~deleted /\ Unread
    /\ sealed' = FALSE
    /\ UNCHANGED <<file_size, buf_, rest, dev, appended, known, unknownCall,
                   deleted, cacheVars, readVars, outcome>>

(* Mutant: a full buffer is taken for a flushed one.                       *)
WasFlushedWhenFull == file_size >= BufSize

(* Delete's test of whether anything has been flushed.                     *)
WasFlushed ==
    file_size > BufSize \/ (file_size >= BufSize /\ buf_pos_ < BufSize)

Delete ==
    /\ rest = 0 /\ ~deleted /\ Unread
    /\ deleted' = TRUE
    /\ buf_' = <<>>
    /\ \/ /\ WasFlushed
          /\ unknownCall' = (unknownCall \/ ~known)
          /\ known' = FALSE /\ dev' = <<>> /\ appended' = 0
          /\ file_size' = 0
       \/ /\ ~WasFlushed
          /\ UNCHANGED <<unknownCall, known, dev, appended, file_size>>
    /\ UNCHANGED <<rest, sealed, cacheVars, readVars, outcome>>

(* The worker serves the next WRITE of the file: Userdata::Append.         *)
WorkerAppend ==
    /\ appended < Len(dev)
    /\ appended' = appended + BufSize
    /\ UNCHANGED <<file_size, buf_, rest, dev, known, unknownCall, sealed,
                   deleted, cacheVars, readVars, outcome>>

Stored == SubSeq(dev, 1, appended)

-----------------------------------------------------------------------------
(* Read.  n has been cut at the end of the file; a read of nothing changes *)
(* nothing.                                                                *)

OnDevice == file_size - buf_pos_

(* The reader enters a branch, with what it has put into scratch.          *)
Enter(r, o, k, branch, l, s) ==
    /\ off' = [off EXCEPT ![r] = o]
    /\ n' = [n EXCEPT ![r] = k]
    /\ via' = [via EXCEPT ![r] = branch]
    /\ pc' = [pc EXCEPT ![r] = l]
    /\ scratch' = [scratch EXCEPT ![r] = s]

(* All of it is in buf_.                                                   *)
ReadMemory(r, o, k) ==
    /\ o >= OnDevice
    /\ Enter(r, o, k, "memory", "done",
             [i \in 1 .. k |-> At(buf_, o - OnDevice + i)])
    /\ UNCHANGED <<cacheVars, outcome>>

(* The front comes from the partition, the rest from buf_; a load that     *)
(* ends the process does not return.                                       *)
ReadAcross(r, o, k) ==
    /\ o < OnDevice /\ o + k > OnDevice
    /\ LET load == UserdataRead(Stored, <<>>, o, OnDevice - o)
       IN  /\ Enter(r, o, k, "across", IF load.exits THEN "load" ELSE "done",
                    [i \in 1 .. k |-> IF o + i <= OnDevice
                                      THEN At(load.buf, i)
                                      ELSE At(buf_, o + i - OnDevice)])
           /\ missed' = (missed \/ load.missed)
           /\ exited' = load.exits
    /\ UNCHANGED cacheVars

InCache(p) == p >= read_buf_offset_ /\ p < read_buf_offset_ + IO_SIZE

(* All of it is in read_buf_.                                              *)
ReadHit(r, o, k) ==
    /\ o + k <= OnDevice
    /\ use_read_buf /\ o >= read_buf_offset_ /\ o + k <= read_buf_offset_ + IO_SIZE
    /\ Enter(r, o, k, "hit", "copy", <<>>)
    /\ UNCHANGED <<cacheVars, outcome>>

(* Mutant: the unit that a part of one takes is counted from above.        *)
RoundUpTwice(k) == k - (k % IO_SIZE) + 2 * IO_SIZE

RoundUp(k) == k - (k % IO_SIZE) + (IF k % IO_SIZE > 0 THEN IO_SIZE ELSE 0)

(* Its first byte is not in read_buf_: all is loaded, in whole units.      *)
ReadMiss(r, o, k) ==
    /\ o + k <= OnDevice
    /\ ~use_read_buf \/ ~InCache(o)
    /\ read_size' = RoundUp(k)
    /\ Enter(r, o, k, "miss", "load", <<>>)
    /\ UNCHANGED <<read_buf_, read_buf_offset_, use_read_buf, buf_read_size,
                   outcome>>

(* What a read that begins in read_buf_ takes from it: all that is left of *)
(* its unit, if the unit is aligned.                                       *)
CachedPart(o) == IO_SIZE - (o % IO_SIZE)

(* It begins in read_buf_ and goes on after it.                            *)
ReadStitch(r, o, k) ==
    /\ o + k <= OnDevice
    /\ use_read_buf /\ InCache(o) /\ o + k > read_buf_offset_ + IO_SIZE
    /\ read_size' = RoundUp(k)
    /\ buf_read_size' = CachedPart(o)
    /\ Enter(r, o, k, "stitch", "load",
             [i \in 1 .. buf_read_size' |-> At(read_buf_, o - read_buf_offset_ + i)])
    /\ UNCHANGED <<read_buf_, read_buf_offset_, use_read_buf, outcome>>

StartRead(r) ==
    /\ pc[r] = "idle" /\ sealed /\ ~deleted
    /\ \E o \in 0 .. file_size : \E k \in 1 .. Smaller(MaxRead, file_size - o) :
          \/ ReadMemory(r, o, k) \/ ReadAcross(r, o, k)
          \/ ReadHit(r, o, k) \/ ReadMiss(r, o, k) \/ ReadStitch(r, o, k)
    /\ UNCHANGED writeVars

CopyHit(r) ==
    /\ pc[r] = "copy"
    /\ scratch' = [scratch EXCEPT ![r] =
          [i \in 1 .. n[r] |-> At(read_buf_, off[r] - read_buf_offset_ + i)]]
    /\ pc' = [pc EXCEPT ![r] = "done"]
    /\ UNCHANGED <<writeVars, cacheVars, off, n, via, outcome>>

(* How much of scratch precedes what is loaded.                            *)
Lead(r) == IF via[r] = "stitch" THEN buf_read_size ELSE 0

(* z_load of whole units; whether it returns 0 or -1 nobody looks at.  The *)
(* test of the size is made before write_lock is taken; as the size only   *)
(* grows, a load acts as at its test if that fails, else as at its loop.   *)
Load(r) == UserdataRead(Stored, <<>>, off[r] + Lead(r), read_size)

LoadShort(r) ==
    /\ pc[r] = "load"
    /\ Load(r).exits
    /\ exited' = TRUE
    /\ UNCHANGED <<writeVars, cacheVars, readVars, missed>>

LoadUnits(r) ==
    /\ pc[r] = "load"
    /\ ~Load(r).exits
    /\ scratch' = [scratch EXCEPT ![r] =
          [i \in 1 .. Lead(r) + read_size |->
              IF i <= Lead(r) THEN At(@, i) ELSE At(Load(r).buf, i - Lead(r))]]
    /\ missed' = (missed \/ Load(r).missed)
    /\ pc' = [pc EXCEPT ![r] = "fill"]
    /\ UNCHANGED <<writeVars, cacheVars, off, n, via, exited>>

(* The last unit loaded is kept in read_buf_ ...                           *)
FillCache(r) ==
    /\ pc[r] = "fill"
    /\ read_buf_' = [i \in 1 .. IO_SIZE |->
                        At(scratch[r], Lead(r) + read_size - IO_SIZE + i)]
    /\ pc' = [pc EXCEPT ![r] = "mark"]
    /\ UNCHANGED <<writeVars, read_buf_offset_, use_read_buf, read_size,
                   buf_read_size, off, n, via, scratch, outcome>>

(* Mutant: the position noted is that of the first unit loaded.            *)
MarkCacheAtStart(r) ==
    /\ pc[r] = "mark"
    /\ read_buf_offset_' = off[r] + Lead(r)
    /\ use_read_buf' = TRUE
    /\ scratch' = [scratch EXCEPT ![r] = [i \in 1 .. n[r] |-> At(@, i)]]
    /\ pc' = [pc EXCEPT ![r] = "done"]
    /\ UNCHANGED <<writeVars, read_buf_, read_size, buf_read_size, off, n, via,
                   outcome>>

(* ... and then its position is noted.  The result is n bytes of scratch.  *)
MarkCache(r) ==
    /\ pc[r] = "mark"
    /\ read_buf_offset_' = off[r] + Lead(r) + read_size - IO_SIZE
    /\ use_read_buf' = TRUE
    /\ scratch' = [scratch EXCEPT ![r] = [i \in 1 .. n[r] |-> At(@, i)]]
    /\ pc' = [pc EXCEPT ![r] = "done"]
    /\ UNCHANGED <<writeVars, read_buf_, read_size, buf_read_size, off, n, via,
                   outcome>>

EndRead(r) ==
    /\ pc[r] = "done"
    /\ Enter(r, 0, 0, "none", "idle", <<>>)
    /\ UNCHANGED <<writeVars, cacheVars, outcome>>

-----------------------------------------------------------------------------
Write ==
    \/ \E k \in 1 .. MaxSize : AppendData(k)
    \/ WriteUnbuffered
    \/ Sync \/ Flush \/ Close \/ Reopen \/ Delete

Read(r) ==
    \/ StartRead(r) \/ CopyHit(r) \/ LoadShort(r) \/ LoadUnits(r)
    \/ FillCache(r) \/ MarkCache(r) \/ EndRead(r)

Next == ~exited /\ (Write \/ WorkerAppend \/ \E r \in Reader : Read(r))

Spec == Init /\ [][Next]_vars

-----------------------------------------------------------------------------
Byte == Nat \cup {Junk}

(* Every variable keeps its type; the buffer never overflows.              *)
TypeOK ==
    /\ file_size \in 0 .. MaxSize
    /\ buf_ \in Seq(Nat) /\ buf_pos_ <= BufSize
    /\ rest \in 0 .. MaxSize
    /\ dev \in Seq(Nat) /\ appended \in 0 .. Len(dev)
    /\ \A b \in {known, unknownCall, sealed, deleted, use_read_buf, missed,
                 exited} : b \in BOOLEAN
    /\ read_buf_ \in Seq(Byte) /\ Len(read_buf_) = IO_SIZE
    /\ read_buf_offset_ \in Int
    /\ read_size \in Nat /\ buf_read_size \in Nat
    /\ pc \in [Reader -> {"idle", "copy", "load", "fill", "mark", "done"}]
    /\ off \in [Reader -> Nat] /\ n \in [Reader -> Nat]
    /\ via \in [Reader -> {"none", "memory", "across", "hit", "miss", "stitch"}]
    /\ scratch \in [Reader -> Seq(Byte)]

(* Every variable keeps its type, the buffer never overflows, and nothing  *)
(* is lost or moved on the way through buf_: what was flushed followed by  *)
(* what is buffered is the file, short of the bytes that WriteUnbuffered   *)
(* still has to copy; and only whole buffers are flushed and appended.     *)
FileIntact ==
    /\ TypeOK
    /\ ~deleted => /\ dev \o buf_ = Bytes(0, file_size - rest)
                   /\ Len(dev) % BufSize = 0 /\ appended % BufSize = 0

(* Sync and Delete go by file_size and buf_pos_ to decide whether the      *)
(* partition knows the key: they never name one it does not have, and a    *)
(* deleted file leaves no data behind in the partition.                    *)
KeyKnown == ~unknownCall /\ (deleted => ~known /\ dev = <<>>)

(* The byte is the one at position p of the file; or nothing was put there *)
(* and a load has come before the worker had appended what is at its       *)
(* offset, returned -1, and been taken for successful.                     *)
IsByte(byte, p) == byte = p \/ (missed /\ byte = Junk)

(* The cache holds the bytes of the position it claims to hold, whenever   *)
(* no reader is between storing the one and the other; also after the      *)
(* file has been reopened and extended.  It can hold junk once a load has  *)
(* missed, and not otherwise; it never holds bytes of another position.    *)
CacheCoherent ==
    use_read_buf /\ ~deleted /\ (\A r \in Reader : pc[r] # "mark") =>
        \A i \in 1 .. IO_SIZE : IsByte(read_buf_[i], read_buf_offset_ + i - 1)

(* A read returns the n bytes at its offset, whether they come from buf_,  *)
(* from the partition and buf_, from read_buf_, or from the partition,     *)
(* where Userdata::Read finds the bytes of reads of up to a segment        *)
(* whatever blocks and segments they cross, or ends the process.  Junk is  *)
(* returned in two cases only: once a load has missed; and of a read that  *)
(* begins in read_buf_ and goes on after it, for the bytes that are copied *)
(* from beyond the end of read_buf_, because the amount to copy is right   *)
(* for an aligned unit only.  No byte of another position is returned.     *)
ReadsRight ==
    \A r \in Reader :
        /\ pc[r] = "done" /\ via[r] # "stitch" =>
              \A i \in 1 .. n[r] : IsByte(scratch[r][i], off[r] + i - 1)
        /\ pc[r] = "load" /\ via[r] = "stitch" =>
              \A i \in 1 .. buf_read_size :
                  IF InCache(off[r] + i - 1)
                  THEN IsByte(scratch[r][i], off[r] + i - 1)
                  ELSE scratch[r][i] = Junk
        /\ pc[r] = "done" /\ via[r] = "stitch" =>
              \A i \in 1 .. n[r] :
                  \/ IsByte(scratch[r][i], off[r] + i - 1)
                  \/ i <= buf_read_size /\ scratch[r][i] = Junk

(* A load ends the process (exit(0) in Userdata::Read) only when it goes   *)
(* beyond what the worker has appended: a read that ends a unit or more    *)
(* before that is safe, or two units or more if it begins in read_buf_,    *)
(* though more than n bytes are loaded.                                    *)
ExitsNearEnd ==
    exited => \E r \in Reader :
                 /\ pc[r] = "load"
                 /\ off[r] + n[r] > appended - IO_SIZE - Lead(r)

(* The bytes of the file, whichever side of buf_ they are on, change only  *)
(* as an append-only file's may.                                           *)
File == INSTANCE AppendOnlyFile WITH
            contents <- (IF deleted THEN <<>> ELSE dev \o buf_),
            removed  <- deleted
AppendOnly == File!Spec
=============================================================================
