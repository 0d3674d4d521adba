----------------------------- MODULE Lifecycle -----------------------------
(***************************************************************************)
(* How partitions are made, opened, closed and deleted: z_mklp, z_openlp,  *)
(* z_closelp and z_dellp of util/zoad/zoad.cpp, the Partition's own open,  *)
(* close and del, and the budget of zone groups in IZG.cpp.  A z_flush,    *)
(* z_load, z_sync or z_del is represented by the locks it takes and the    *)
(* partition it uses; RequestPath models what it does there.               *)
(*                                                                         *)
(* Data.  A partition is its index in the one user's list of partitions,   *)
(* from which none is ever removed.  The process can end with exit(0), by  *)
(* std::terminate, or with the use of freed memory.                        *)
(*                                                                         *)
(* Threads and locks.  Any thread makes calls.  The global partition_lock  *)
(* is held for the whole of the administrative calls; a data call gives it *)
(* back when it has found its partition, and then takes the partition's    *)
(* own lock, for which z_closelp and z_dellp wait too.  Each partition's   *)
(* worker runs by itself and is never joined.                              *)
(***************************************************************************)
EXTENDS Integers, Sequences, FiniteSets, FiniteSetsExt

CONSTANTS
    Thread,     \* the threads that call ZoAD
    LpName,     \* names of partitions
    Distance,   \* the number of zone groups
    IoLevel,    \* the iolevels that may be asked for
    MaxCall,    \* bound: calls made
    Null        \* no thread

ASSUME LifecycleAssumption ==
    /\ Distance \in Nat /\ MaxCall \in Nat
    /\ IoLevel \subseteq Nat
    /\ Null \notin Thread

VARIABLES
    available_izg_cnt,      \* IZG.cpp
    next_partition_id,      \* Partition.cpp
    partitions,             \* user_to_partition_map[uid]
    open_partition_list,    \* for each mk_flag
    partition_lock,         \* the thread that holds the global lock
    pc, lp,                 \* a thread: where it is, and its partition
    calls,                  \* calls made so far
    stray,                  \* partition_lock was unlocked under its holder
    ended                   \* how the process has ended

tableVars == <<available_izg_cnt, next_partition_id, partitions,
               open_partition_list>>
vars == <<tableVars, partition_lock, pc, lp, calls, stray, ended>>

Flag == {"MAX_PARTITION", "QOS_PARTITION"}

Partitions == DOMAIN partitions

(* zoad_init has run.                                                      *)
Init ==
    /\ available_izg_cnt = Distance
    /\ next_partition_id = 1
    /\ partitions = <<>>
    /\ open_partition_list = [f \in Flag |-> <<>>]
    /\ partition_lock = Null
    /\ pc = [t \in Thread |-> "idle"]
    /\ lp = [t \in Thread |-> 0]
    /\ calls = 0
    /\ stray = FALSE
    /\ ended = "no"

(* A call begins by taking partition_lock, ...                             *)
Enter(t) ==
    /\ pc[t] = "idle" /\ partition_lock = Null
    /\ calls < MaxCall
    /\ calls' = calls + 1
    /\ partition_lock' = t
    /\ pc' = [pc EXCEPT ![t] = "entered"]
    /\ UNCHANGED <<tableVars, lp, stray, ended>>

(* ... and gives it back at its end, at once or before it goes on.         *)
Leave(t, place, p) ==
    /\ pc[t] = "entered"
    /\ partition_lock' = Null
    /\ pc' = [pc EXCEPT ![t] = place]
    /\ lp' = [lp EXCEPT ![t] = p]
    /\ UNCHANGED <<calls, stray>>

(* The first partition of the list with this name, or this id; 0 if none.  *)
ByName(name) ==
    LET ps == {p \in Partitions : partitions[p].name = name}
    IN  IF ps = {} THEN 0 ELSE Min(ps)

ById(id) ==
    LET ps == {p \in Partitions : partitions[p].id = id}
    IN  IF ps = {} THEN 0 ELSE Min(ps)

-----------------------------------------------------------------------------
(* Mutant: the groups are not taken off the budget.                        *)
AllocIzgFree(flags, iolevel) ==
    /\ flags = "QOS_PARTITION" => iolevel <= available_izg_cnt
    /\ UNCHANGED available_izg_cnt

(* alloc_izg, when it succeeds.                                            *)
AllocIzg(flags, iolevel) ==
    /\ flags = "QOS_PARTITION" => iolevel <= available_izg_cnt
    /\ available_izg_cnt' =
          available_izg_cnt - (IF flags = "QOS_PARTITION" THEN iolevel ELSE 0)

(* z_mklp and the constructor.                                             *)
MkLp(t, lp_name, flags, iolevel) ==
    /\ Leave(t, "idle", 0)
    /\ ByName(lp_name) = 0
    /\ AllocIzg(flags, iolevel)
    /\ partitions' = Append(partitions,
          [name |-> lp_name, mk_flag |-> flags, id |-> next_partition_id,
           izg_cnt |-> IF flags = "QOS_PARTITION" THEN iolevel
                       ELSE available_izg_cnt,
           status |-> "CLOSE", thread |-> "none", lock |-> Null, freed |-> FALSE])
    /\ next_partition_id' = next_partition_id + 1
    /\ UNCHANGED <<open_partition_list, ended>>

(* ... or it finds the name taken, or the budget too small: -1.            *)
MkLpRefused(t, lp_name, flags, iolevel) ==
    /\ Leave(t, "idle", 0)
    /\ \/ ByName(lp_name) # 0
       \/ flags = "QOS_PARTITION" /\ iolevel > available_izg_cnt
    /\ UNCHANGED <<tableVars, ended>>

(* A name or an id no partition has: -1.                                   *)
NotFound(t) ==
    /\ Leave(t, "idle", 0)
    /\ \E n \in LpName : ByName(n) = 0
    /\ UNCHANGED <<tableVars, ended>>

(* What becomes of the process in Partition::open: the worker of an        *)
(* earlier open was not joined, and its std::thread cannot be assigned to. *)
OpenEnds(p) ==
    IF partitions[p].freed THEN "undefined"
    ELSE IF partitions[p].status = "OPEN" THEN "exit"
    ELSE IF partitions[p].thread # "none" THEN "terminate"
    ELSE "no"

(* z_openlp and Partition::open, without the partition's own lock; a new   *)
(* worker is started each time.                                            *)
OpenLp(t, lp_name) ==
    LET p == ByName(lp_name)
        flag == partitions[p].mk_flag
    IN  /\ Leave(t, "idle", 0)
        /\ p # 0
        /\ ended' = OpenEnds(p)
        /\ partitions' = [partitions EXCEPT ![p].status = "OPEN",
                                            ![p].thread = "running"]
        /\ open_partition_list' =
              [open_partition_list EXCEPT ![flag] = Append(@, p)]
        /\ UNCHANGED <<available_izg_cnt, next_partition_id>>

-----------------------------------------------------------------------------
(* z_closelp and z_dellp, up to the wait for the partition's lock.         *)

Without(list, p) ==
    LET at == Min({k \in DOMAIN list : list[k] = p})
    IN  SubSeq(list, 1, at - 1) \o SubSeq(list, at + 1, Len(list))

(* Mutant: the partition stays in the list.                                *)
UnlistNot(p) == UNCHANGED open_partition_list

(* The first entry with the partition's id is erased from the open list.   *)
Unlist(p) ==
    open_partition_list' =
        [open_partition_list EXCEPT ![partitions[p].mk_flag] =
            IF \E k \in DOMAIN @ : @[k] = p THEN Without(@, p) ELSE @]

Find(t, id, place) ==
    LET p == ById(id)
    IN  /\ pc[t] = "entered"
        /\ p # 0
        /\ Unlist(p)
        /\ pc' = [pc EXCEPT ![t] = place]
        /\ lp' = [lp EXCEPT ![t] = p]
        /\ UNCHANGED <<available_izg_cnt, next_partition_id, partitions,
                       partition_lock, calls, stray, ended>>

CloseLp(t, id) == Find(t, id, "close")
DelLp(t, id) == Find(t, id, "del")

(* The call returns.                                                       *)
Return(t) ==
    /\ pc' = [pc EXCEPT ![t] = "idle"]
    /\ lp' = [lp EXCEPT ![t] = 0]

(* Mutant: z_closelp does not wait for the partition's lock.               *)
CloseUnlocked(t) ==
    LET p == lp[t]
    IN  /\ pc[t] = "close"
        /\ ended' = IF partitions[p].freed THEN "undefined"
                    ELSE IF partitions[p].status = "CLOSE" THEN "exit" ELSE "no"
        /\ partitions' = [partitions EXCEPT ![p].status = "CLOSE"]
        /\ partition_lock' = Null
        /\ Return(t)
        /\ UNCHANGED <<available_izg_cnt, next_partition_id,
                       open_partition_list, calls, stray>>

(* Partition::close under the partition's lock.                            *)
Close(t) ==
    LET p == lp[t]
    IN  /\ pc[t] = "close"
        /\ partitions[p].lock = Null
        /\ ended' = IF partitions[p].freed THEN "undefined"
                    ELSE IF partitions[p].status = "CLOSE" THEN "exit" ELSE "no"
        /\ partitions' = [partitions EXCEPT ![p].status = "CLOSE"]
        /\ partition_lock' = Null
        /\ Return(t)
        /\ UNCHANGED <<available_izg_cnt, next_partition_id,
                       open_partition_list, calls, stray>>

(* Partition::del frees the queue, the locks and the status; neither the   *)
(* list of partitions nor the budget changes.                              *)
Del(t) ==
    LET p == lp[t]
    IN  /\ pc[t] = "del"
        /\ partitions[p].lock = Null
        /\ ended' = IF partitions[p].freed THEN "undefined"
                    ELSE IF partitions[p].status # "CLOSE" THEN "exit" ELSE "no"
        /\ partitions' = [partitions EXCEPT ![p].freed = (ended' = "no")]
        /\ partition_lock' = Null
        /\ Return(t)
        /\ UNCHANGED <<available_izg_cnt, next_partition_id,
                       open_partition_list, calls, stray>>

-----------------------------------------------------------------------------
(* A data call: the partition is found under partition_lock, ...           *)
DataCall(t, id) ==
    /\ Leave(t, "found", ById(id))
    /\ ById(id) # 0
    /\ UNCHANGED <<tableVars, ended>>

(* ... locked after that, ...                                              *)
LockPartition(t) ==
    /\ pc[t] = "found"
    /\ partitions[lp[t]].lock = Null
    /\ partitions' = [partitions EXCEPT ![lp[t]].lock = t]
    /\ pc' = [pc EXCEPT ![t] = "inside"]
    /\ UNCHANGED <<available_izg_cnt, next_partition_id, open_partition_list,
                   partition_lock, lp, calls, stray, ended>>

(* ... its status read, for the value the call will return, ...            *)
ReadStatus(t) ==
    /\ pc[t] = "inside"
    /\ ended' = IF partitions[lp[t]].freed THEN "undefined" ELSE "no"
    /\ pc' = [pc EXCEPT ![t] = IF partitions[lp[t]].status = "OPEN"
                               THEN "accepted" ELSE "refused"]
    /\ UNCHANGED <<tableVars, partition_lock, lp, calls, stray>>

(* Mutant: an error path leaves without unlock_partition.                  *)
UsePartitionKeepsLock(t) ==
    /\ pc[t] \in {"accepted", "refused"}
    /\ ended' = IF partitions[lp[t]].freed THEN "undefined" ELSE "no"
    /\ Return(t)
    /\ UNCHANGED <<tableVars, partition_lock, calls, stray>>

(* ... and used: z_flush and z_del queue a request before they unlock, ... *)
UsePartition(t) ==
    /\ pc[t] \in {"accepted", "refused"}
    /\ ended' = IF partitions[lp[t]].freed THEN "undefined" ELSE "no"
    /\ partitions' = [partitions EXCEPT ![lp[t]].lock = Null]
    /\ Return(t)
    /\ UNCHANGED <<available_izg_cnt, next_partition_id, open_partition_list,
                   partition_lock, calls, stray>>

(* ... z_load unlocks first and reads through read_buf after that.         *)
LoadUnlocks(t) ==
    /\ pc[t] \in {"accepted", "refused"}
    /\ partitions' = [partitions EXCEPT ![lp[t]].lock = Null]
    /\ pc' = [pc EXCEPT ![t] = "reading"]
    /\ UNCHANGED <<available_izg_cnt, next_partition_id, open_partition_list,
                   partition_lock, lp, calls, stray, ended>>

UseReadBuf(t) ==
    /\ pc[t] = "reading"
    /\ ended' = IF partitions[lp[t]].freed THEN "undefined" ELSE "no"
    /\ Return(t)
    /\ UNCHANGED <<tableVars, partition_lock, calls, stray>>

(* z_sync and z_del for a uid without partitions: partition_lock is taken, *)
(* given back, and unlocked once more, whoever has it then.                *)
UnknownUid(t) == Leave(t, "unlock", 0) /\ UNCHANGED <<tableVars, ended>>

UnlockAgain(t) ==
    /\ pc[t] = "unlock"
    /\ stray' = (stray \/ partition_lock # Null)
    /\ partition_lock' = Null
    /\ Return(t)
    /\ UNCHANGED <<tableVars, calls, ended>>

-----------------------------------------------------------------------------
(* worker_job, as far as it looks at the partition: it runs until it sees  *)
(* CLOSE, and ends when it has emptied the queue.                          *)
WorkerStep(p) ==
    /\ \/ /\ partitions[p].thread = "running"
          /\ partitions[p].status = "CLOSE" \/ partitions[p].freed
          /\ partitions' = [partitions EXCEPT ![p].thread = "draining"]
       \/ /\ partitions[p].thread = "draining"
          /\ partitions' = [partitions EXCEPT ![p].thread = "done"]
    /\ ended' = IF partitions[p].freed THEN "undefined" ELSE "no"
    /\ UNCHANGED <<available_izg_cnt, next_partition_id, open_partition_list,
                   partition_lock, pc, lp, calls, stray>>

-----------------------------------------------------------------------------
Body(t) ==
    \/ \E n \in LpName, f \in Flag, l \in IoLevel :
          MkLp(t, n, f, l) \/ MkLpRefused(t, n, f, l)
    \/ \E n \in LpName : OpenLp(t, n)
    \/ \E id \in 1 .. next_partition_id - 1 :
          CloseLp(t, id) \/ DelLp(t, id) \/ DataCall(t, id)
    \/ NotFound(t) \/ UnknownUid(t)

Continue(t) ==
    \/ Body(t)
    \/ Close(t) \/ Del(t)
    \/ LockPartition(t) \/ ReadStatus(t) \/ UsePartition(t)
    \/ LoadUnlocks(t) \/ UseReadBuf(t)
    \/ UnlockAgain(t)

Next ==
    /\ ended = "no"
    /\ \/ \E t \in Thread : Enter(t) \/ Continue(t)
       \/ \E p \in Partitions : WorkerStep(p)

(* A thread that can go on with its call does.                             *)
Fairness == \A t \in Thread : WF_vars(ended = "no" /\ Continue(t))

Spec == Init /\ [][Next]_vars /\ Fairness

-----------------------------------------------------------------------------
(* Every variable keeps its type, and the budget is never overdrawn.       *)
TypeOK ==
    /\ available_izg_cnt \in 0 .. Distance
    /\ partitions \in Seq([name : LpName, mk_flag : Flag, id : Nat,
                           izg_cnt : 0 .. Distance, status : {"OPEN", "CLOSE"},
                           thread : {"none", "running", "draining", "done"},
                           lock : Thread \cup {Null}, freed : BOOLEAN])
    /\ open_partition_list \in [Flag -> Seq(Nat)]
    /\ partition_lock \in Thread \cup {Null}
    /\ pc \in [Thread -> {"idle", "entered", "close", "del", "found", "inside",
                          "accepted", "refused", "reading", "unlock"}]
    /\ lp \in [Thread -> Nat]
    /\ ended \in {"no", "exit", "terminate", "undefined"}

Listed(p, f) == {k \in DOMAIN open_partition_list[f] :
                    open_partition_list[f][k] = p}

Leaving(p) == \E t \in Thread : pc[t] \in {"close", "del"} /\ lp[t] = p

(* The open lists hold exactly the OPEN partitions, each once and under    *)
(* its own flag, but for one that z_closelp or z_dellp has taken off and   *)
(* not closed yet.                                                         *)
OpenListExact ==
    ended = "no" /\ ~stray =>
        \A p \in Partitions : \A f \in Flag :
            Cardinality(Listed(p, f)) =
                IF partitions[p].status = "OPEN" /\ ~Leaving(p)
                   /\ f = partitions[p].mk_flag THEN 1 ELSE 0

(* Every variable keeps its type, and unless partition_lock was unlocked   *)
(* under its holder, the zone groups promised to QOS partitions and those  *)
(* still available (never less than none) add up to what the device has,   *)
(* and no two partitions have one id, nor one name.                        *)
BudgetSound ==
    /\ TypeOK
    /\ ~stray =>
          /\ available_izg_cnt +
                MapThenSumSet(LAMBDA p : partitions[p].izg_cnt,
                              {p \in Partitions :
                                  partitions[p].mk_flag = "QOS_PARTITION"}) = Distance
          /\ \A p, q \in Partitions :
                (partitions[p].id = partitions[q].id
                   \/ partitions[p].name = partitions[q].name) => p = q

(* A flush or a deletion that was told its partition is OPEN is queued     *)
(* while it still is: no z_closelp or z_dellp of another thread comes in   *)
(* between, though z_closelp does not hold the lock that the call found    *)
(* the partition under, and the partition's worker has not been told to    *)
(* end, so that it will serve the request.                                 *)
AcceptedWhileOpen ==
    ended = "no" => \A t \in Thread : pc[t] = "accepted" =>
        LET p == partitions[lp[t]]
        IN  p.status = "OPEN" /\ p.thread = "running" /\ ~p.freed

(* Every call returns unless the process ends: no thread waits for ever    *)
(* for a lock of the other level.                                          *)
CallsReturn == \A t \in Thread : pc[t] # "idle" ~> (pc[t] = "idle" \/ ended # "no")
=============================================================================
