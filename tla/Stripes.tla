------------------------------ MODULE Stripes ------------------------------
(***************************************************************************)
(* How a flush becomes writes to zones: izg_write of util/zoad/Zone.cpp    *)
(* splits the stripe of a partition among threads; each thread opens the   *)
(* zones of its share, writes them in turn, one transfer unit at a time,   *)
(* and closes them; util/zoad/controller.c counts the open zones of the    *)
(* device in opened_zone_num and refuses to open one near max_open_res.    *)
(*                                                                         *)
(* Data.  A transfer unit (IO_SIZE bytes) is <<f, p>>: the p-th unit of    *)
(* the buffer of the worker's f-th flush.  A zone is what was written to   *)
(* it, its write pointer is the length.  A flush fills whole rows of one   *)
(* stripe with room for them, as the flushes of env_zoad.cc do; ZonePool   *)
(* shows how the zones of a stripe are found.                              *)
(*                                                                         *)
(* Threads.  Each open partition has one worker, which joins the threads   *)
(* of a flush before it goes on.  The test of the limit, the command to    *)
(* the device and the count are separate steps: only the last is made      *)
(* under c_mutex.                                                          *)
(***************************************************************************)
EXTENDS Integers, Sequences, FiniteSets

CONSTANTS
    Worker,          \* the workers of the open partitions
    Width,           \* izg_cnt of a worker's partition
    THREAD_PER_IZG,  \* the most zones a thread writes
    MaxOpenRes,      \* the values the device may report as max_open_res
    UINT,            \* the number of values of an unsigned int
    ZoneSize,        \* the units a zone holds
    MaxRows,         \* bound: rows of a flush
    MaxFault         \* bound: ioctls that fail

ASSUME StripeAssumption ==
    /\ Width \in [Worker -> Nat \ {0}]
    /\ THREAD_PER_IZG \in Nat \ {0}
    /\ UINT \in Nat \ {0}
    /\ MaxOpenRes \subseteq 0 .. UINT - 1
    /\ ZoneSize \in Nat /\ MaxRows \in Nat /\ MaxFault \in Nat

VARIABLES
    max_open_res,     \* zns_info->max_open_res
    opened_zone_num,  \* zns_info->opened_zone_num
    media,            \* what each zone of a worker's stripe holds
    condition,        \* the device's state of each zone
    flush,            \* the worker's flushes: rows, and the Interval of each zone
    thread,           \* the worker's threads: place, row, zone and buf
    event,            \* what has gone wrong with a management command so far
    faults,           \* how much of the bound is used
    exited            \* the process has called exit(0)

vars == <<max_open_res, opened_zone_num, media, condition, flush, thread, event,
          faults, exited>>

-----------------------------------------------------------------------------
(* The split of the stripe.                                                *)

thread_num(w) == (Width[w] + THREAD_PER_IZG - 1) \div THREAD_PER_IZG

Thread(w) == 0 .. thread_num(w) - 1

ZoneOf(w) == 0 .. Width[w] - 1

(* write_zone_cnt of thread j when left zones have no thread yet.          *)
WriteZoneCnt(izg_cnt, left, j) ==
    LET cnt == IF izg_cnt < left THEN izg_cnt ELSE left
    IN  IF THREAD_PER_IZG < cnt
        THEN IF THREAD_PER_IZG * (j + 1) > izg_cnt
             THEN izg_cnt - THREAD_PER_IZG ELSE THREAD_PER_IZG
        ELSE cnt

(* interval_list_size when thread j is made.                               *)
Left(w) ==
    LET left[j \in 0 .. thread_num(w)] ==
            IF j = 0 THEN Width[w]
            ELSE left[j - 1] - WriteZoneCnt(Width[w], left[j - 1], j - 1)
    IN  left

Share(w, j) == Left(w)[j] - Left(w)[j + 1]

FirstZone(w, j) == Width[w] - Left(w)[j]

-----------------------------------------------------------------------------
AtRest == [at |-> "rest", row |-> 0, i |-> 0, buf |-> 0]

Init ==
    /\ max_open_res \in MaxOpenRes
    /\ opened_zone_num = 0
    /\ media = [w \in Worker |-> [z \in ZoneOf(w) |-> <<>>]]
    /\ condition = [w \in Worker |-> [z \in ZoneOf(w) |-> "closed"]]
    /\ flush = [w \in Worker |-> <<>>]
    /\ thread = [w \in Worker |-> [j \in Thread(w) |-> AtRest]]
    /\ event = {}
    /\ faults = 0
    /\ exited = FALSE

Idle(w) == \A j \in Thread(w) : thread[w][j].at = "rest"

(* The Intervals Userdata::_write hands to izg_write start at the write    *)
(* pointers; thread_write sets their ends.                                 *)
NewIntervals(w) ==
    [z \in ZoneOf(w) |-> [start |-> Len(media[w][z]), end |-> Len(media[w][z])]]

(* izg_write, up to the joins: thread j starts at the first zone of its    *)
(* share and as far into the buffer.                                       *)
IzgWrite(w, rows) ==
    /\ Idle(w)
    /\ \A z \in ZoneOf(w) : Len(media[w][z]) + rows <= ZoneSize
    /\ flush' = [flush EXCEPT ![w] =
                    Append(@, [rows |-> rows, interval |-> NewIntervals(w)])]
    /\ thread' = [thread EXCEPT ![w] =
                    [j \in Thread(w) |-> [at |-> "open", row |-> 1, i |-> 0,
                                          buf |-> FirstZone(w, j)]]]
    /\ UNCHANGED <<max_open_res, opened_zone_num, media, condition, event,
                   faults, exited>>

(* izg_write ends: the threads are joined.                                 *)
Join(w) ==
    /\ \A j \in Thread(w) : thread[w][j].at = "done"
    /\ thread' = [thread EXCEPT ![w] = [j \in Thread(w) |-> AtRest]]
    /\ UNCHANGED <<max_open_res, opened_zone_num, media, condition, flush,
                   event, faults, exited>>

-----------------------------------------------------------------------------
(* The threads.                                                            *)

At(w, j, place) == thread[w][j].at = place

Go(w, j, place) == thread' = [thread EXCEPT ![w][j].at = place]

(* The zone thread j is at.                                                *)
Current(w, j) == FirstZone(w, j) + thread[w][j].i

(* The loop over the thread's zones goes on with place, or ends.           *)
NextZone(w, j, place, end) ==
    thread' = IF thread[w][j].i + 1 < Share(w, j)
              THEN [thread EXCEPT ![w][j].at = place, ![w][j].i = @ + 1]
              ELSE [thread EXCEPT ![w][j].at = end, ![w][j].i = 0]

OpenZones == UNION {{<<w, z>> : z \in {y \in ZoneOf(w) :
                 condition[w][y] \in {"implicit", "explicit"}}} : w \in Worker}

(* The device has open resources left: it reports their number less one.   *)
HasResource == Cardinality(OpenZones) < max_open_res + 1

(* Mutant: opens one zone more.                                            *)
TooManyLate == (opened_zone_num + 1) % UINT > max_open_res

(* zns_management_send: the test of the limit.                             *)
TooMany == (opened_zone_num + 1) % UINT >= max_open_res

(* MAN_OPEN is refused; zns_set_zone drops the answer.                     *)
OpenRefused(w, j) ==
    /\ At(w, j, "open")
    /\ TooMany
    /\ event' = event \cup {"refused"}
    /\ NextZone(w, j, "open", "write")
    /\ UNCHANGED <<max_open_res, opened_zone_num, media, condition, flush,
                   faults, exited>>

OpenTested(w, j) ==
    /\ At(w, j, "open")
    /\ ~TooMany
    /\ Go(w, j, "send open")
    /\ UNCHANGED <<max_open_res, opened_zone_num, media, condition, flush,
                   event, faults, exited>>

(* The ioctl of MAN_OPEN.  A device without resources answers with a       *)
(* status, which is not -1 and passes for success.                         *)
SendOpen(w, j) ==
    /\ At(w, j, "send open")
    /\ IF HasResource \/ condition[w][Current(w, j)] \in {"implicit", "explicit"}
       THEN /\ condition' = [condition EXCEPT ![w][Current(w, j)] = "explicit"]
            /\ UNCHANGED event
       ELSE /\ event' = event \cup {"status"}
            /\ UNCHANGED condition
    /\ Go(w, j, "count open")
    /\ UNCHANGED <<max_open_res, opened_zone_num, media, flush, faults, exited>>

CountOpen(w, j) ==
    /\ At(w, j, "count open")
    /\ opened_zone_num' = (opened_zone_num + 1) % UINT
    /\ NextZone(w, j, "open", "write")
    /\ UNCHANGED <<max_open_res, media, condition, flush, event, faults, exited>>

(* The ioctl of MAN_OPEN or MAN_CLOSE returns -1: nothing is counted.      *)
SendFails(w, j) ==
    /\ faults < MaxFault
    /\ faults' = faults + 1
    /\ event' = event \cup {"failed"}
    /\ \/ At(w, j, "send open") /\ NextZone(w, j, "open", "write")
       \/ At(w, j, "send close") /\ NextZone(w, j, "send close", "done")
    /\ UNCHANGED <<max_open_res, opened_zone_num, media, condition, flush, exited>>

(* The zone's unit is on the device: an open zone stays open until it is   *)
(* full, a closed one is opened implicitly.                                *)
ConditionAfter(w, z) ==
    IF Len(media[w][z]) + 1 = ZoneSize THEN "full"
    ELSE IF condition[w][z] = "explicit" THEN "explicit" ELSE "implicit"

(* Mutant: the threads forget the zones of the other threads.              *)
StrideNone(w, j) == 0

(* buf += IO_SIZE * (izg_cnt - write_zone_cnt), at the end of a row.       *)
Stride(w, j) == Width[w] - Share(w, j)

(* zns_write of one unit, and the loops of thread_write around it.         *)
WriteUnit(w, j) ==
    LET z == Current(w, j)
        t == thread[w][j]
        f == Len(flush[w])
        rows == flush[w][f].rows
        rowDone == t.i + 1 = Share(w, j)
    IN  /\ t.at = "write"
        /\ condition[w][z] \in {"implicit", "explicit"} \/ HasResource
        /\ media' = [media EXCEPT ![w][z] = Append(@, <<f, t.buf>>)]
        /\ condition' = [condition EXCEPT ![w][z] = ConditionAfter(w, z)]
        /\ flush' = IF t.row = rows
                    THEN [flush EXCEPT ![w][f].interval[z].end = Len(media'[w][z])]
                    ELSE flush
        /\ thread' = [thread EXCEPT ![w][j] =
               IF ~rowDone THEN [t EXCEPT !.i = @ + 1, !.buf = @ + 1]
               ELSE IF t.row < rows
               THEN [t EXCEPT !.i = 0, !.row = @ + 1,
                              !.buf = @ + 1 + Stride(w, j)]
               ELSE [t EXCEPT !.i = 0, !.at = "send close"]]
        /\ UNCHANGED <<max_open_res, opened_zone_num, event, faults, exited>>

(* A device without resources closes a zone it had opened implicitly...    *)
DeviceCloses(w, j) ==
    /\ At(w, j, "write")
    /\ condition[w][Current(w, j)] = "closed"
    /\ ~HasResource
    /\ \E v \in Worker : \E y \in ZoneOf(v) :
          /\ condition[v][y] = "implicit"
          /\ condition' = [condition EXCEPT ![v][y] = "closed"]
    /\ UNCHANGED <<max_open_res, opened_zone_num, media, flush, thread, event,
                   faults, exited>>

(* ... or fails the write, and the program exits.                          *)
WriteFails(w, j) ==
    /\ At(w, j, "write")
    /\ condition[w][Current(w, j)] = "closed"
    /\ ~HasResource
    /\ exited' = TRUE
    /\ UNCHANGED <<max_open_res, opened_zone_num, media, condition, flush,
                   thread, event, faults>>

(* Mutant: the status with which the device answers for a full zone is     *)
(* taken for a failure.                                                    *)
SendCloseStatus(w, j) ==
    /\ At(w, j, "send close")
    /\ IF condition[w][Current(w, j)] = "full"
       THEN NextZone(w, j, "send close", "done") /\ UNCHANGED condition
       ELSE /\ condition' = [condition EXCEPT ![w][Current(w, j)] = "closed"]
            /\ Go(w, j, "count close")
    /\ UNCHANGED <<max_open_res, opened_zone_num, media, flush, event, faults,
                   exited>>

(* The ioctl of MAN_CLOSE; a full zone stays full.                         *)
SendClose(w, j) ==
    /\ At(w, j, "send close")
    /\ condition' = [condition EXCEPT ![w][Current(w, j)] =
                        IF @ = "full" THEN "full" ELSE "closed"]
    /\ Go(w, j, "count close")
    /\ UNCHANGED <<max_open_res, opened_zone_num, media, flush, event, faults,
                   exited>>

(* Mutant: a close is not counted.                                         *)
CountCloseNot(w, j) ==
    /\ At(w, j, "count close")
    /\ NextZone(w, j, "send close", "done")
    /\ UNCHANGED <<max_open_res, opened_zone_num, media, condition, flush, event,
                   faults, exited>>

CountClose(w, j) ==
    /\ At(w, j, "count close")
    /\ opened_zone_num' = (opened_zone_num - 1) % UINT
    /\ NextZone(w, j, "send close", "done")
    /\ UNCHANGED <<max_open_res, media, condition, flush, event, faults, exited>>

ThreadStep(w, j) ==
    \/ OpenRefused(w, j) \/ OpenTested(w, j) \/ SendOpen(w, j) \/ CountOpen(w, j)
    \/ SendFails(w, j)
    \/ WriteUnit(w, j) \/ DeviceCloses(w, j) \/ WriteFails(w, j)
    \/ SendClose(w, j) \/ CountClose(w, j)

Next ==
    /\ ~exited
    /\ \E w \in Worker :
          \/ \E rows \in 1 .. MaxRows : IzgWrite(w, rows)
          \/ \E j \in Thread(w) : ThreadStep(w, j)
          \/ Join(w)

Spec == Init /\ [][Next]_vars

-----------------------------------------------------------------------------
(* Every variable keeps its type: in particular no thread is given zones   *)
(* beyond those of its stripe.                                             *)
TypeOK ==
    /\ max_open_res \in MaxOpenRes
    /\ opened_zone_num \in 0 .. UINT - 1
    /\ \A w \in Worker : \A z \in ZoneOf(w) :
          /\ Len(media[w][z]) <= ZoneSize
          /\ condition[w][z] \in {"closed", "implicit", "explicit", "full"}
    /\ \A w \in Worker : \A j \in Thread(w) :
          Share(w, j) >= 1 /\ Current(w, j) \in ZoneOf(w)
    /\ event \subseteq {"refused", "failed", "status"}

(* The zones thread j has counted as open and not yet as closed.           *)
Held(w, j) ==
    LET t == thread[w][j] IN
    CASE t.at \in {"rest", "done"} -> 0
      [] t.at \in {"open", "send open", "count open"} -> t.i
      [] t.at = "write" -> Share(w, j)
      [] OTHER -> Share(w, j) - t.i

WorkerThreads == UNION {{<<w, j>> : j \in Thread(w)} : w \in Worker}

(* opened_zone_num is the number of zones the threads hold, however the    *)
(* threads of all partitions interleave, as long as no management command  *)
(* has been refused or has failed: the counts under c_mutex balance.       *)
(* In any case every variable keeps its type, and every thread its zones.  *)
CountBalances ==
    /\ TypeOK
    /\ event = {} =>
          opened_zone_num =
              Cardinality(UNION {{<<wj, k>> : k \in 1 .. Held(wj[1], wj[2])} :
                                     wj \in WorkerThreads})

(* The test of the limit is not atomic with the command, yet with three    *)
(* threads at most (the partitions of levels 4 and 12) as many zones are   *)
(* opened as the device has resources for: it never has to answer with a   *)
(* status before the program has refused to open a zone itself.            *)
DeviceNeverOverrun ==
    event \cap {"refused", "failed"} = {} => "status" \notin event

Zones == UNION {{<<w, z>> : z \in ZoneOf(w)} : w \in Worker}

(* While no ioctl fails, a device with more resources than there are zones *)
(* in use never makes the program refuse a MAN_OPEN or exit: the count     *)
(* does not creep up from flush to flush.                                  *)
RefusedOnlyWhenScarce ==
    max_open_res > Cardinality(Zones) /\ "failed" \notin event =>
        event = {} /\ ~exited

(* What thread_write lays down: when the threads of a flush have been      *)
(* joined its intervals hold the whole buffer, unit p in zone p % izg_cnt  *)
(* at row p / izg_cnt, whatever was refused or failed on the way.  This is *)
(* the order in which izg_read puts a stripe together again.               *)
LayoutRight ==
    \A w \in Worker : \A f \in 1 .. Len(flush[w]) :
        (f < Len(flush[w]) \/ Idle(w)) =>
            \A z \in ZoneOf(w) :
                LET iv == flush[w][f].interval[z] IN
                /\ iv.end - iv.start = flush[w][f].rows
                /\ \A k \in 1 .. flush[w][f].rows :
                      media[w][z][iv.start + k] = <<f, (k - 1) * Width[w] + z>>
=============================================================================
