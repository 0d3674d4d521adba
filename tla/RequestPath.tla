---------------------------- MODULE RequestPath ----------------------------
(***************************************************************************)
(* The request path of one ZoAD partition: the host's threads call         *)
(* z_flush, z_load, z_sync and z_del (util/zoad/zoad.cpp); writes and      *)
(* deletions are queued on Partition::io_queue and served in order by the  *)
(* partition's one worker thread (IO_request.cpp, worker_job), loads and   *)
(* syncs run in the caller's thread on the Userdata they looked up         *)
(* (Userdata.cpp).                                                         *)
(*                                                                         *)
(* Data.  env_zoad.cc flushes exactly one full file buffer at a time, so a *)
(* segment is the unit of size here and the i-th WRITE of a Userdata is    *)
(* represented by the number i.  An object of class Userdata is an element *)
(* of Obj; an address is never used for a second object.                   *)
(*                                                                         *)
(* Locks.  Partition::partition_lock covers the whole body of _z_flush and *)
(* _z_del and the lookup of _z_load and _z_sync: each is one action.       *)
(* io_queue_lock is only ever taken by the worker and orders nothing.      *)
(* Userdata::write_lock, a spinning atomic_flag, is a variable.            *)
(***************************************************************************)
EXTENDS Naturals, Sequences

CONSTANTS
    Client,     \* the host's threads
    Name,       \* the data names (keys) they use
    Obj,        \* addresses of Userdata objects
    Worker,     \* the partition's worker thread, as owner of a write_lock
    Null,       \* no owner, no object
    MaxFlush,   \* bound: WRITE requests of a behaviour
    MaxCall     \* bound: z_load and z_sync calls of a behaviour

ASSUME IdAssumption ==
    /\ Null \notin Client \cup Obj \cup {Worker}
    /\ Worker \notin Client

ASSUME BoundAssumption == MaxFlush \in Nat /\ MaxCall \in Nat

VARIABLES
    status,           \* Partition::status
    io_queue,         \* Partition::io_queue
    userdata_map,     \* Partition::userdata_map, Null where a name is absent
    read_buf,         \* Partition::read_buf: the segment read into it last
    state,            \* life of an object: unused, live, gutted, freed
    file_segment,     \* Userdata::file_segment
    remain_write_req, \* Userdata::remain_write_req
    write_lock,       \* Userdata::write_lock, with its owner
    flushed,          \* number of z_flush calls a Userdata has received
    wpc, cur,         \* the worker: where it is, the request it holds
    draining,         \* the worker is in its second loop
    pc, nm, ptr,      \* a client: where it is, its data_name, its pointer
    off, goal,        \* segment asked for; flushes before the call began
    flushes, calls,   \* how much of the bounds is used
    exited            \* the process has called exit(0) or std::terminate

lpVars     == <<status, io_queue, userdata_map, read_buf>>
objVars    == <<state, file_segment, remain_write_req, write_lock, flushed>>
workerVars == <<wpc, cur, draining>>
clientVars == <<pc, nm, ptr, off, goal>>
vars == <<lpVars, objVars, workerVars, clientVars, flushes, calls, exited>>

(* An IO_request.  seq numbers the WRITEs of a Userdata; ok says whether   *)
(* the call that queued it found the partition OPEN (returned 0).          *)
Request == [rw : {"WRITE", "DELETE"}, data : Obj, seq : Nat, ok : BOOLEAN]

-----------------------------------------------------------------------------
(* Partition's constructor: made by z_mklp, not yet opened.                *)
Init ==
    /\ status = "CLOSE"
    /\ io_queue = <<>>
    /\ userdata_map = [n \in Name |-> Null]
    /\ read_buf = Null
    /\ state = [d \in Obj |-> "unused"]
    /\ file_segment = [d \in Obj |-> <<>>]
    /\ remain_write_req = [d \in Obj |-> 0]
    /\ write_lock = [d \in Obj |-> Null]
    /\ flushed = [d \in Obj |-> 0]
    /\ wpc = "none" /\ cur = Null /\ draining = FALSE
    /\ pc = [c \in Client |-> "idle"]
    /\ nm = [c \in Client |-> Null]
    /\ ptr = [c \in Client |-> Null]
    /\ off = [c \in Client |-> 0]
    /\ goal = [c \in Client |-> 0]
    /\ flushes = 0 /\ calls = 0
    /\ exited = FALSE

-----------------------------------------------------------------------------
(* z_openlp, z_closelp: Partition::open and Partition::close.              *)

Open ==
    /\ wpc = "none"
    /\ status' = "OPEN"
    /\ wpc' = "poll"
    /\ UNCHANGED <<io_queue, userdata_map, read_buf, objVars, cur, draining,
                   clientVars, flushes, calls, exited>>

(* A second open: exit(0) while the partition is OPEN; once it is CLOSEd,  *)
(* the assignment to the std::thread nobody joined calls std::terminate.   *)
OpenAgain ==
    /\ wpc # "none"
    /\ exited' = TRUE
    /\ UNCHANGED <<lpVars, objVars, workerVars, clientVars, flushes, calls>>

(* close does not join the worker and leaves what is queued to it.         *)
Close ==
    /\ status = "OPEN"
    /\ status' = "CLOSE"
    /\ UNCHANGED <<io_queue, userdata_map, read_buf, objVars, workerVars,
                   clientVars, flushes, calls, exited>>

CloseAgain ==
    /\ status = "CLOSE"
    /\ exited' = TRUE
    /\ UNCHANGED <<lpVars, objVars, workerVars, clientVars, flushes, calls>>

-----------------------------------------------------------------------------
(* z_flush.  A partition that is not OPEN makes it return -1, after        *)
(* queueing the request all the same.                                      *)

(* Mutant: the request is counted in remain_write_req when it is queued,   *)
(* so that Sync would wait for it, with write_lock held.                   *)
FlushToCounts(d) ==
    /\ flushed' = [flushed EXCEPT ![d] = @ + 1]
    /\ remain_write_req' = [remain_write_req EXCEPT ![d] = @ + 1]
    /\ io_queue' = Append(io_queue, [rw |-> "WRITE", data |-> d,
                                     seq |-> flushed[d] + 1,
                                     ok |-> status = "OPEN"])
    /\ flushes' = flushes + 1
    /\ UNCHANGED <<status, read_buf, file_segment, write_lock, workerVars,
                   clientVars, calls, exited>>

FlushTo(d) ==
    /\ flushed' = [flushed EXCEPT ![d] = @ + 1]
    /\ io_queue' = Append(io_queue, [rw |-> "WRITE", data |-> d,
                                     seq |-> flushed[d] + 1,
                                     ok |-> status = "OPEN"])
    /\ flushes' = flushes + 1
    /\ UNCHANGED <<status, read_buf, file_segment, remain_write_req,
                   write_lock, workerVars, clientVars, calls, exited>>

Flush(c, n) ==
    /\ pc[c] = "idle" /\ flushes < MaxFlush
    /\ \/ /\ userdata_map[n] # Null
          /\ FlushTo(userdata_map[n])
          /\ UNCHANGED <<userdata_map, state>>
       \/ /\ userdata_map[n] = Null
          /\ \E d \in Obj :
                /\ state[d] = "unused"
                /\ state' = [state EXCEPT ![d] = "live"]
                /\ userdata_map' = [userdata_map EXCEPT ![n] = d]
                /\ FlushTo(d)

-----------------------------------------------------------------------------
(* z_del.  The host deletes a file once nothing refers to it any more:     *)
(* DeleteObsoleteFiles spares the live files and evicts a table from the   *)
(* table cache before it deletes it, so no call on the name is in progress.*)

Unreferenced(n) == \A c \in Client : pc[c] # "idle" => nm[c] # n

Del(c, n) ==
    /\ pc[c] = "idle" /\ Unreferenced(n)
    /\ userdata_map[n] # Null
    /\ userdata_map' = [userdata_map EXCEPT ![n] = Null]
    /\ io_queue' = Append(io_queue, [rw |-> "DELETE", data |-> userdata_map[n],
                                     seq |-> 0, ok |-> status = "OPEN"])
    /\ UNCHANGED <<status, read_buf, objVars, workerVars, clientVars,
                   flushes, calls, exited>>

-----------------------------------------------------------------------------
(* z_load, in the caller's thread.  The host asks for what it has flushed  *)
(* (ZoadFile::Read serves the rest from the file's own buffer).            *)

Goto(c, l) == pc' = [pc EXCEPT ![c] = l]

(* The call returns and its locals are gone.                               *)
Return(c) ==
    /\ Goto(c, "idle")
    /\ nm' = [nm EXCEPT ![c] = Null]
    /\ ptr' = [ptr EXCEPT ![c] = Null]
    /\ off' = [off EXCEPT ![c] = 0]
    /\ goal' = [goal EXCEPT ![c] = 0]

Release(d) == write_lock' = [write_lock EXCEPT ![d] = Null]

(* Mutant: the result of test_and_set is ignored.                          *)
AcquireBlind(d, t) == write_lock' = [write_lock EXCEPT ![d] = t]

(* The spin on write_lock ends: thread t has it.                           *)
Acquire(d, t) ==
    /\ write_lock[d] = Null
    /\ write_lock' = [write_lock EXCEPT ![d] = t]

(* _z_load: the lookup under partition_lock, which is then released.       *)
Load(c, n) ==
    /\ pc[c] = "idle" /\ calls < MaxCall
    /\ userdata_map[n] # Null
    /\ \E o \in 0 .. MaxFlush :
          /\ o < flushed[userdata_map[n]]
          /\ off' = [off EXCEPT ![c] = o]
    /\ nm' = [nm EXCEPT ![c] = n]
    /\ ptr' = [ptr EXCEPT ![c] = userdata_map[n]]
    /\ Goto(c, "rd_check")
    /\ calls' = calls + 1
    /\ UNCHANGED <<lpVars, objVars, workerVars, goal, flushes, exited>>

(* The test of offset against size, made without write_lock.  If the       *)
(* offset is past the end, Read returns -1, which _z_load ignores.         *)
ReadCheck(c) ==
    /\ pc[c] = "rd_check"
    /\ \/ /\ off[c] > Len(file_segment[ptr[c]])
          /\ Return(c)
       \/ /\ off[c] <= Len(file_segment[ptr[c]])
          /\ Goto(c, "rd_lock")
          /\ UNCHANGED <<nm, ptr, off, goal>>
    /\ UNCHANGED <<lpVars, objVars, workerVars, flushes, calls, exited>>

ReadLock(c) ==
    /\ pc[c] = "rd_lock"
    /\ Acquire(ptr[c], c)
    /\ Goto(c, "rd_hold")
    /\ UNCHANGED <<lpVars, state, file_segment, remain_write_req, flushed,
                   workerVars, nm, ptr, off, goal, flushes, calls, exited>>

(* "Read size error": the loop over the segments ends with a rest.         *)
ReadShort(c) ==
    /\ pc[c] = "rd_hold"
    /\ off[c] >= Len(file_segment[ptr[c]])
    /\ exited' = TRUE
    /\ UNCHANGED <<lpVars, objVars, workerVars, clientVars, flushes, calls>>

(* A whole aligned segment is read straight into the caller's buffer.      *)
ReadWhole(c) ==
    /\ pc[c] = "rd_hold"
    /\ off[c] < Len(file_segment[ptr[c]])
    /\ Release(ptr[c])
    /\ Return(c)
    /\ UNCHANGED <<lpVars, state, file_segment, remain_write_req, flushed,
                   workerVars, flushes, calls, exited>>

(* Mutant: write_lock is cleared as soon as the device has been read.      *)
ReadDeviceUnlocks(c) ==
    /\ pc[c] = "rd_hold"
    /\ off[c] < Len(file_segment[ptr[c]])
    /\ read_buf' = <<ptr[c], file_segment[ptr[c]][off[c] + 1]>>
    /\ Release(ptr[c])
    /\ Goto(c, "rd_copy")
    /\ UNCHANGED <<status, io_queue, userdata_map, state, file_segment,
                   remain_write_req, flushed, workerVars, nm, ptr, off, goal,
                   flushes, calls, exited>>

(* A part of a segment is read into the partition's read_buf, ...          *)
ReadDevice(c) ==
    /\ pc[c] = "rd_hold"
    /\ off[c] < Len(file_segment[ptr[c]])
    /\ read_buf' = <<ptr[c], file_segment[ptr[c]][off[c] + 1]>>
    /\ Goto(c, "rd_copy")
    /\ UNCHANGED <<status, io_queue, userdata_map, objVars, workerVars, nm,
                   ptr, off, goal, flushes, calls, exited>>

(* Mutant: this path returns without clearing write_lock.                  *)
ReadCopyKeepsLock(c) ==
    /\ pc[c] = "rd_copy"
    /\ Return(c)
    /\ UNCHANGED <<lpVars, objVars, workerVars, flushes, calls, exited>>

(* ... and copied from there into the caller's buffer.                     *)
ReadCopy(c) ==
    /\ pc[c] = "rd_copy"
    /\ Release(ptr[c])
    /\ Return(c)
    /\ UNCHANGED <<lpVars, state, file_segment, remain_write_req, flushed,
                   workerVars, flushes, calls, exited>>

-----------------------------------------------------------------------------
(* z_sync, in the caller's thread.                                         *)

(* _z_sync finds the name under partition_lock and unlocks ...             *)
Sync(c, n) ==
    /\ pc[c] = "idle" /\ calls < MaxCall
    /\ userdata_map[n] # Null
    /\ nm' = [nm EXCEPT ![c] = n]
    /\ goal' = [goal EXCEPT ![c] = flushed[userdata_map[n]]]
    /\ Goto(c, "sy_get")
    /\ calls' = calls + 1
    /\ UNCHANGED <<lpVars, objVars, workerVars, ptr, off, flushes, exited>>

(* ... before it fetches the pointer from the map.                         *)
SyncGet(c) ==
    /\ pc[c] = "sy_get"
    /\ ptr' = [ptr EXCEPT ![c] = userdata_map[nm[c]]]
    /\ Goto(c, "sy_lock")
    /\ UNCHANGED <<lpVars, objVars, workerVars, nm, off, goal, flushes, calls,
                   exited>>

SyncLock(c) ==
    /\ pc[c] = "sy_lock"
    /\ Acquire(ptr[c], c)
    /\ Goto(c, "sy_hold")
    /\ UNCHANGED <<lpVars, state, file_segment, remain_write_req, flushed,
                   workerVars, nm, ptr, off, goal, flushes, calls, exited>>

(* The second spin, on remain_write_req, with write_lock held.             *)
SyncReturn(c) ==
    /\ pc[c] = "sy_hold"
    /\ remain_write_req[ptr[c]] = 0
    /\ Release(ptr[c])
    /\ Return(c)
    /\ UNCHANGED <<lpVars, state, file_segment, remain_write_req, flushed,
                   workerVars, flushes, calls, exited>>

-----------------------------------------------------------------------------
(* worker_job.  The first loop serves one request per turn and then looks  *)
(* at status; CLOSE leads to the second loop, which empties the queue.     *)

(* Mutant: the request served is the newest, the one removed the oldest.   *)
PopBack ==
    /\ wpc = "poll"
    /\ io_queue # <<>>
    /\ cur' = io_queue[Len(io_queue)]
    /\ io_queue' = Tail(io_queue)
    /\ wpc' = "serve"
    /\ UNCHANGED <<status, userdata_map, read_buf, objVars, draining,
                   clientVars, flushes, calls, exited>>

Pop ==
    /\ wpc = "poll"
    /\ io_queue # <<>>
    /\ cur' = Head(io_queue)
    /\ io_queue' = Tail(io_queue)
    /\ wpc' = "serve"
    /\ UNCHANGED <<status, userdata_map, read_buf, objVars, draining,
                   clientVars, flushes, calls, exited>>

(* Mutant: the second loop polls an empty queue for ever.                  *)
FoundEmptyLoops ==
    /\ wpc = "poll"
    /\ io_queue = <<>>
    /\ wpc' = "check"
    /\ UNCHANGED <<lpVars, objVars, cur, draining, clientVars, flushes, calls,
                   exited>>

FoundEmpty ==
    /\ wpc = "poll"
    /\ io_queue = <<>>
    /\ wpc' = IF draining THEN "done" ELSE "check"
    /\ UNCHANGED <<lpVars, objVars, cur, draining, clientVars, flushes, calls,
                   exited>>

(* Mutant: the worker ends when it sees CLOSE, without the second loop.    *)
CheckStatusExits ==
    /\ wpc = "check"
    /\ draining' = (status = "CLOSE")
    /\ wpc' = IF status = "CLOSE" THEN "done" ELSE "poll"
    /\ UNCHANGED <<lpVars, objVars, cur, clientVars, flushes, calls, exited>>

CheckStatus ==
    /\ wpc = "check"
    /\ draining' = (status = "CLOSE")
    /\ wpc' = "poll"
    /\ UNCHANGED <<lpVars, objVars, cur, clientVars, flushes, calls, exited>>

(* The request is deleted and the loop goes on.                            *)
Served ==
    /\ cur' = Null
    /\ wpc' = IF draining THEN "poll" ELSE "check"
    /\ UNCHANGED draining

(* Userdata::Append up to the device write, and from there to its end.     *)
AppendBegin ==
    /\ wpc = "serve" /\ cur.rw = "WRITE"
    /\ Acquire(cur.data, Worker)
    /\ remain_write_req' = [remain_write_req EXCEPT ![cur.data] = @ + 1]
    /\ wpc' = "append"
    /\ UNCHANGED <<lpVars, state, file_segment, flushed, cur, draining,
                   clientVars, flushes, calls, exited>>

(* Mutant: the segment written is not inserted into file_segment.          *)
AppendEndForgets ==
    /\ wpc = "append"
    /\ remain_write_req' = [remain_write_req EXCEPT ![cur.data] = @ - 1]
    /\ Release(cur.data)
    /\ Served
    /\ UNCHANGED <<lpVars, state, file_segment, flushed, clientVars, flushes,
                   calls, exited>>

(* Mutant: the worker deletes the Userdata after any request.              *)
AppendEndFrees ==
    /\ wpc = "append"
    /\ file_segment' = [file_segment EXCEPT ![cur.data] = Append(@, cur.seq)]
    /\ remain_write_req' = [remain_write_req EXCEPT ![cur.data] = @ - 1]
    /\ Release(cur.data)
    /\ wpc' = "free"
    /\ UNCHANGED <<lpVars, state, flushed, cur, draining, clientVars, flushes,
                   calls, exited>>

AppendEnd ==
    /\ wpc = "append"
    /\ file_segment' = [file_segment EXCEPT ![cur.data] = Append(@, cur.seq)]
    /\ remain_write_req' = [remain_write_req EXCEPT ![cur.data] = @ - 1]
    /\ Release(cur.data)
    /\ Served
    /\ UNCHANGED <<lpVars, state, flushed, clientVars, flushes, calls, exited>>

(* _write finds no zone to allocate and calls exit(0).                     *)
AppendFails ==
    /\ wpc = "append"
    /\ exited' = TRUE
    /\ UNCHANGED <<lpVars, objVars, workerVars, clientVars, flushes, calls>>

(* Userdata::Delete frees the segments but leaves the vector of pointers;  *)
(* the object itself is deleted after write_lock has been cleared.         *)
DeleteBegin ==
    /\ wpc = "serve" /\ cur.rw = "DELETE"
    /\ Acquire(cur.data, Worker)
    /\ remain_write_req' = [remain_write_req EXCEPT ![cur.data] = @ + 1]
    /\ wpc' = "delete"
    /\ UNCHANGED <<lpVars, state, file_segment, flushed, cur, draining,
                   clientVars, flushes, calls, exited>>

DeleteEnd ==
    /\ wpc = "delete"
    /\ state' = [state EXCEPT ![cur.data] = "gutted"]
    /\ remain_write_req' = [remain_write_req EXCEPT ![cur.data] = @ - 1]
    /\ Release(cur.data)
    /\ wpc' = "free"
    /\ UNCHANGED <<lpVars, file_segment, flushed, cur, draining, clientVars,
                   flushes, calls, exited>>

FreeUserdata ==
    /\ wpc = "free"
    /\ state' = [state EXCEPT ![cur.data] = "freed"]
    /\ Served
    /\ UNCHANGED <<lpVars, file_segment, remain_write_req, write_lock, flushed,
                   clientVars, flushes, calls, exited>>

-----------------------------------------------------------------------------
WorkerStep ==
    /\ ~exited
    /\ \/ Pop \/ FoundEmpty \/ CheckStatus
       \/ AppendBegin \/ AppendEnd \/ AppendFails
       \/ DeleteBegin \/ DeleteEnd \/ FreeUserdata

(* What a client does once its call is under way.                          *)
InCall(c) ==
    /\ ~exited
    /\ \/ ReadCheck(c) \/ ReadLock(c) \/ ReadShort(c) \/ ReadWhole(c)
       \/ ReadDevice(c) \/ ReadCopy(c)
       \/ SyncGet(c) \/ SyncLock(c) \/ SyncReturn(c)

NewCall ==
    /\ ~exited
    /\ \/ Open \/ OpenAgain \/ Close \/ CloseAgain
       \/ \E c \in Client, n \in Name :
             Flush(c, n) \/ Del(c, n) \/ Load(c, n) \/ Sync(c, n)

Next == NewCall \/ WorkerStep \/ \E c \in Client : InCall(c)

Spec == Init /\ [][Next]_vars

(* A thread that can take a step is eventually scheduled.                  *)
FairSpec == Spec /\ WF_vars(WorkerStep) /\ \A c \in Client : WF_vars(InCall(c))

-----------------------------------------------------------------------------
(* Every variable keeps its type.                                          *)
TypeOK ==
    /\ status \in {"OPEN", "CLOSE"}
    /\ io_queue \in Seq(Request)
    /\ userdata_map \in [Name -> Obj \cup {Null}]
    /\ read_buf \in (Obj \X Nat) \cup {Null}
    /\ state \in [Obj -> {"unused", "live", "gutted", "freed"}]
    /\ file_segment \in [Obj -> Seq(Nat)]
    /\ remain_write_req \in [Obj -> Nat]
    /\ write_lock \in [Obj -> Client \cup {Worker, Null}]
    /\ flushed \in [Obj -> Nat]
    /\ wpc \in {"none", "poll", "check", "serve", "append", "delete", "free",
                "done"}
    /\ cur \in Request \cup {Null}
    /\ wpc \in {"serve", "append", "delete", "free"} => cur \in Request
    /\ draining \in BOOLEAN
    /\ pc \in [Client -> {"idle", "rd_check", "rd_lock", "rd_hold", "rd_copy",
                          "sy_get", "sy_lock", "sy_hold"}]
    /\ nm \in [Client -> Name \cup {Null}]
    /\ ptr \in [Client -> Obj \cup {Null}]
    /\ off \in [Client -> Nat] /\ goal \in [Client -> Nat]
    /\ flushes \in 0 .. MaxFlush /\ calls \in 0 .. MaxCall
    /\ exited \in BOOLEAN

(* What has been appended to a Userdata is, segment by segment, what was   *)
(* flushed to it first, second, ...: the unlocked queue, the worker's two  *)
(* loops and the spin lock lose, repeat and reorder nothing.               *)
AppendedInOrder ==
    \A d \in Obj : \A i \in DOMAIN file_segment[d] : file_segment[d][i] = i

(* The WRITEs of d that are queued or in the worker's hands.               *)
Pending(d) ==
    {io_queue[i].seq : i \in {j \in DOMAIN io_queue :
                                io_queue[j].rw = "WRITE" /\ io_queue[j].data = d}}
    \cup (IF wpc \in {"serve", "append"} /\ cur.rw = "WRITE" /\ cur.data = d
          THEN {cur.seq} ELSE {})

(* Conservation: at every moment the flushes of a Userdata are exactly the *)
(* appended ones and the pending ones, and no flush is both.               *)
NothingLost ==
    \A d \in Obj : Pending(d) = Len(file_segment[d]) + 1 .. flushed[d]

(* The worker never touches a Userdata that it has deleted: a DELETE is    *)
(* the last request for its object, whatever is queued around it.          *)
WorkerTouchesLive ==
    /\ wpc \in {"serve", "append", "delete"} => state[cur.data] = "live"
    /\ wpc = "free" => state[cur.data] = "gutted"

(* The pointer a load or a sync carries from its lookup to its last use    *)
(* stays valid, though partition_lock is released after the lookup.        *)
ClientTouchesLive ==
    \A c \in Client :
        /\ pc[c] = "sy_get" => userdata_map[nm[c]] # Null
        /\ pc[c] \notin {"idle", "sy_get"} =>
              ptr[c] # Null /\ state[ptr[c]] = "live"

(* Userdata::Sync spins on remain_write_req while it holds the write_lock  *)
(* the worker needs to bring it down: it must never find it raised.        *)
SyncNeverSpins ==
    \A c \in Client : pc[c] = "sy_hold" => remain_write_req[ptr[c]] = 0

(* A worker that has left its second loop leaves no request behind whose   *)
(* caller was told it had been accepted.                                   *)
AcceptedBeforeDone ==
    wpc = "done" => \A i \in DOMAIN io_queue : ~io_queue[i].ok

(* A load that has read the device and not yet copied finds its segment in *)
(* the partition's one read_buf, or one of another file: no load of the    *)
(* same Userdata comes between.  (Nothing keeps out a load of another      *)
(* file: write_lock is the Userdata's, and read_buf the partition's.)      *)
ReadsIsolated ==
    \A c \in Client : pc[c] = "rd_copy" =>
        read_buf = <<ptr[c], off[c] + 1>> \/ read_buf[1] # ptr[c]

(* Only accepted requests are queued, and the partition is OPEN.           *)
AllAccepted == status = "OPEN" /\ \A i \in DOMAIN io_queue : io_queue[i].ok

(* A load that finds its segment missing, and so ends the process with     *)
(* "Read size error", has come too early and not too late: the flush that  *)
(* carries the data is still in io_queue or in the hands of the worker.    *)
ShortReadIsEarly ==
    \A c \in Client :
        pc[c] = "rd_hold" /\ off[c] >= Len(file_segment[ptr[c]]) =>
            \/ \E i \in DOMAIN io_queue :
                  /\ io_queue[i].rw = "WRITE"
                  /\ io_queue[i].data = ptr[c] /\ io_queue[i].seq = off[c] + 1
            \/ /\ wpc = "serve" /\ cur.rw = "WRITE"
               /\ cur.data = ptr[c] /\ cur.seq = off[c] + 1

(* When z_sync is about to return, with write_lock still held, all that    *)
(* was flushed before the call has been appended.                          *)
SyncCoversFlushes ==
    \A c \in Client : AllAccepted /\ pc[c] = "sy_hold" =>
        Len(file_segment[ptr[c]]) >= goal[c]

Queued(d, k) == \E i \in DOMAIN io_queue :
    /\ io_queue[i].rw = "WRITE" /\ io_queue[i].ok
    /\ io_queue[i].data = d /\ io_queue[i].seq = k

Deleting(d) == \E i \in DOMAIN io_queue :
    io_queue[i].rw = "DELETE" /\ io_queue[i].ok /\ io_queue[i].data = d

(* An accepted request is eventually served, also when the partition is    *)
(* closed right after it, unless the process exits: a flush is appended,   *)
(* and a Userdata whose deletion was accepted is freed.                    *)
AcceptedIsServed ==
    \A d \in Obj :
        /\ \A k \in 1 .. MaxFlush :
              Queued(d, k) ~> (exited \/ Len(file_segment[d]) >= k)
        /\ Deleting(d) ~> (exited \/ state[d] = "freed")

(* Closing the partition ends its worker.                                  *)
CloseEndsWorker ==
    (status = "CLOSE" /\ wpc # "none") ~> (exited \/ wpc = "done")

(* A call in progress ends: the spin locks are always given back.          *)
CallsReturn == \A c \in Client : pc[c] # "idle" ~> (exited \/ pc[c] = "idle")

-----------------------------------------------------------------------------
(* The inductive invariant behind the safety properties.                   *)

InHand(d) == wpc \in {"serve", "append"} /\ cur.rw = "WRITE" /\ cur.data = d

(* The flushes of d that have left the queue.                              *)
Applied(d) == Len(file_segment[d]) + (IF InHand(d) THEN 1 ELSE 0)

(* What holds of the i-th request when it is for d: d is live; a WRITE is  *)
(* a flush still to be applied; a DELETE's object is no longer in the map  *)
(* and nothing follows it; the WRITEs of d are queued in order.            *)
QueuedOK(i, d) ==
    /\ state[d] = "live"
    /\ io_queue[i].rw = "WRITE" =>
          Applied(d) < io_queue[i].seq /\ io_queue[i].seq <= flushed[d]
    /\ io_queue[i].rw = "DELETE" => \A n \in Name : userdata_map[n] # d
    /\ \A j \in i + 1 .. Len(io_queue) : io_queue[j].data = d =>
          /\ io_queue[i].rw = "WRITE"
          /\ io_queue[j].rw = "WRITE" => io_queue[i].seq < io_queue[j].seq

QueueInv ==
    \A i \in 1 .. Len(io_queue) : \A d \in Obj :
        io_queue[i].data = d => QueuedOK(i, d)

(* Flush k of d is the i-th request.                                       *)
IsFlush(i, d, k) ==
    io_queue[i].rw = "WRITE" /\ io_queue[i].data = d /\ io_queue[i].seq = k

(* Every flush that has not left the queue is in it.                       *)
CoverInv ==
    \A d \in Obj :
        /\ Applied(d) <= flushed[d]
        /\ \A k \in Applied(d) + 1 .. flushed[d] :
              \E i \in 1 .. Len(io_queue) : IsFlush(i, d, k)

(* The request in the worker's hands.                                      *)
CurInv ==
    /\ wpc \in {"serve", "append"} /\ cur.rw = "WRITE" =>
          /\ cur.seq = Len(file_segment[cur.data]) + 1
          /\ cur.seq <= flushed[cur.data]
    /\ wpc = "append" => cur.rw = "WRITE"
    /\ wpc \in {"delete", "free"} => cur.rw = "DELETE"
    /\ wpc \in {"serve", "delete", "free"} /\ cur.rw = "DELETE" =>
          /\ \A n \in Name : userdata_map[n] # cur.data
          /\ \A i \in 1 .. Len(io_queue) : io_queue[i].data # cur.data

(* Names lead to live objects, different names to different ones; an       *)
(* object not yet made is empty and has received nothing.                  *)
MapInv ==
    /\ \A n \in Name : userdata_map[n] # Null => state[userdata_map[n]] = "live"
    /\ \A m, n \in Name :
          userdata_map[m] = userdata_map[n] /\ userdata_map[n] # Null => m = n
    /\ \A d \in Obj : state[d] = "unused" =>
          file_segment[d] = <<>> /\ flushed[d] = 0

(* write_lock is held exactly where the code is between its test_and_set   *)
(* and its clear, and remain_write_req is raised only by the worker there. *)
LockOK(d) ==
    /\ write_lock[d] = Worker <=> wpc \in {"append", "delete"} /\ cur.data = d
    /\ \A c \in Client : write_lock[d] = c <=>
          pc[c] \in {"rd_hold", "rd_copy", "sy_hold"} /\ ptr[c] = d
    /\ remain_write_req[d] = IF write_lock[d] = Worker THEN 1 ELSE 0

LockInv == \A d \in Obj : LockOK(d)

(* A call in progress keeps its name in the map and points where it does.  *)
CallInv ==
    \A c \in Client : pc[c] # "idle" =>
        /\ nm[c] \in Name /\ userdata_map[nm[c]] # Null
        /\ pc[c] # "sy_get" => ptr[c] = userdata_map[nm[c]]

(* The partition never leaves CLOSE under a worker that has seen it.       *)
DoneInv ==
    /\ draining => status = "CLOSE" /\ wpc # "none"
    /\ wpc = "none" => status = "CLOSE"
    /\ wpc = "done" => draining

IInv ==
    /\ TypeOK
    /\ QueueInv /\ CoverInv /\ CurInv
    /\ MapInv /\ LockInv /\ CallInv
    /\ DoneInv /\ AcceptedBeforeDone
    /\ AppendedInOrder /\ WorkerTouchesLive
=============================================================================
