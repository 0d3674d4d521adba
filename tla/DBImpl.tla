------------------------------- MODULE DBImpl -------------------------------
(***************************************************************************)
(* The host of the zone environment: class DBImpl in db/db_impl.cc.  Its   *)
(* queue of writers with group commit, the switch of memtables and logs,   *)
(* the background call that writes a full memtable to a table or merges    *)
(* tables, manual compactions, readers and snapshots, the deletion of      *)
(* files nobody needs, and closing and reopening the database.             *)
(*                                                                         *)
(* Data.  A batch holds one Put or Delete.  An entry is its key, sequence  *)
(* number and whether it is a deletion; the sequence number tells values   *)
(* apart.  A memtable has the number of its log.  There are two levels of  *)
(* tables.  VersionSet is not part of this code: what is assumed of it is  *)
(* the section "The version set".                                          *)
(*                                                                         *)
(* Threads and locks.  One action is what a thread does between taking     *)
(* mutex_ and giving it up, or between giving it up and taking it again.   *)
(* There is one background thread (ZoadEnv), so one background call.       *)
(***************************************************************************)
EXTENDS Integers, FiniteSets, SequencesExt

CONSTANTS
    Thread,             \* threads that call the database
    Key,                \* user keys, integers
    Null,               \* no batch, memtable, file, compaction, caller
    write_buffer_size,  \* entries a memtable has room for beyond the first
    CompactionTrigger,  \* level-0 files that make a compaction needed
    SlowdownTrigger,    \* kL0_SlowdownWritesTrigger
    StopTrigger,        \* kL0_StopWritesTrigger
    MaxOutput,          \* MaxOutputFileSize(), in entries
    MaxGroup,           \* batches a group has room for
    Op,                 \* writes: of key k, d: a deletion, sync: WriteOptions
    MaxWrite,           \* bound: writes
    MaxOther,           \* bound: reads, snapshots, manual compactions and
                        \* reopenings together
    MaxFault            \* bound: tables that cannot be read back

ASSUME DBAssumption ==
    /\ Key \subseteq Nat /\ Key # {} /\ Null \notin Nat \cup Thread
    /\ Op \subseteq [k : Key, d : BOOLEAN, sync : BOOLEAN]
    /\ {write_buffer_size, MaxWrite, MaxOther, MaxFault} \subseteq Nat
    /\ {CompactionTrigger, MaxOutput, MaxGroup} \subseteq Nat \ {0}
    /\ SlowdownTrigger \in Nat /\ StopTrigger \in Nat
    /\ CompactionTrigger < StopTrigger

VARIABLES
    pc,                         \* where each thread is
    w,                          \* its Writer
    writers_,                   \* DBImpl::writers_
    group,                      \* writers of the batch group being written
    logfile_number_,            \* the log, and the memtable mem_
    imm_,                       \* number of the memtable imm_
    memtable,                   \* memtables by number
    logs, tables,               \* the files, by number
    synced,                     \* sequence numbers under a Sync of the log
    versions_,                  \* the manifest: current version, log, counters
    next_file, last_sequence,   \* the counters of versions_
    file_to_compact,            \* a read has found a file worth compacting
    pending_outputs_,           \* DBImpl::pending_outputs_
    snapshots_,                 \* DBImpl::snapshots_
    held,                       \* what a reader has referenced
    background_compaction_scheduled_,
    bg,                         \* where the background call is
    level0, compact,            \* its new level-0 table, and CompactionState
    edit,                       \* the counters LogAndApply is writing
    manual_compaction_,         \* the thread that asked
    manual,                     \* its ManualCompaction
    bg_error_, shutting_down_,
    opened,                     \* the object exists
    crashed,                    \* a null pointer has been used, and which
    hist,                       \* all writes so far, by sequence number
    used                        \* calls and faults so far

writerVars == <<w, writers_, group, hist, synced>>
memVars == <<logfile_number_, imm_, memtable>>
versionVars == <<versions_, next_file, last_sequence, file_to_compact>>
readVars == <<snapshots_, held>>
bgVars == <<bg, level0, compact, edit, pending_outputs_>>
errVars == <<bg_error_, shutting_down_, opened, crashed>>
manualVars == <<manual_compaction_, manual>>
vars == <<pc, writerVars, memVars, logs, tables, versionVars, readVars, bgVars,
          errVars, manualVars, background_compaction_scheduled_, used>>

INF == MaxWrite + 2     \* kMaxSequenceNumber

Store(f, n, v) == [m \in DOMAIN f \cup {n} |-> IF m = n THEN v ELSE f[m]]

NoWriter == [batch |-> Null, sync |-> FALSE, force |-> FALSE, delay |-> FALSE]

(* After DB::Open: of a new database, or of one that holds a table with a  *)
(* write of an earlier time.                                               *)
Init ==
    /\ hist \in {<<>>, <<[k |-> Min(Key), d |-> FALSE, sync |-> FALSE]>>}
    /\ last_sequence = Len(hist)
    /\ tables = [n \in {3 : i \in DOMAIN hist} |->
                   {[k |-> Min(Key), s |-> 1, d |-> FALSE]}]
    /\ versions_ = [l0 |-> {}, l1 |-> DOMAIN tables, log |-> 4, next |-> 5,
                    seq |-> Len(hist)]
    /\ logfile_number_ = 4 /\ next_file = 5 /\ imm_ = Null
    /\ memtable = [n \in {4} |-> {}]
    /\ logs = [n \in {4} |-> {}]
    /\ pc = [t \in Thread |-> "idle"]
    /\ w = [t \in Thread |-> NoWriter]
    /\ writers_ = <<>> /\ group = 0
    /\ file_to_compact = FALSE
    /\ pending_outputs_ = {} /\ snapshots_ = {} /\ synced = {}
    /\ held = [t \in Thread |-> Null]
    /\ background_compaction_scheduled_ = FALSE
    /\ bg = "none" /\ level0 = Null /\ compact = Null /\ edit = Null
    /\ manual_compaction_ = Null
    /\ manual = [t \in Thread |-> Null]
    /\ bg_error_ = FALSE /\ shutting_down_ = FALSE
    /\ opened = TRUE /\ crashed = "no"
    /\ used = [write |-> 0, other |-> 0, fault |-> 0]

Use(what, max) ==
    used[what] < max /\ used' = [used EXCEPT ![what] = @ + 1]

-----------------------------------------------------------------------------
(* The version set.                                                        *)

Current == [l0 |-> versions_.l0, l1 |-> versions_.l1]
Files(v) == v.l0 \cup v.l1

Keys(f) == {e.k : e \in tables[f]}
Span(S) == LET K == UNION {Keys(f) : f \in S}
           IN  IF K = {} THEN {} ELSE Min(K) .. Max(K)
Overlap(S, T) == Span(S) \cap Span(T) # {}

Newest(E) == CHOOSE e \in E : \A o \in E : o.s <= e.s

(* Version::Get: the tables of level 0 from the newest, then level 1.      *)
FileFor(v, k, s) ==
    LET Has(f) == /\ f \in DOMAIN tables
                  /\ \E e \in tables[f] : e.k = k /\ e.s <= s
        F0 == {f \in v.l0 : Has(f)}
        F1 == {f \in v.l1 : Has(f)}
    IN  IF F0 # {} THEN {Max(F0)} ELSE F1

NeedsCompaction(v, seek) ==
    Cardinality(v.l0) >= CompactionTrigger \/ (seek /\ v.l0 # {})

(* The level-0 files a compaction of file f must take with it.             *)
WithOverlapping(f) ==
    CHOOSE S \in SUBSET versions_.l0 :
        /\ f \in S
        /\ \A g \in versions_.l0 \ S : ~Overlap({g}, S)
        /\ \A T \in SUBSET S :
              f \in T /\ T # S => \E g \in S \ T : Overlap({g}, T)

Below(S) == {f \in versions_.l1 : Overlap({f}, S)}

(* What PickCompaction may return: input files of level 0.                 *)
PickCompaction ==
    IF NeedsCompaction(Current, file_to_compact)
    THEN {WithOverlapping(f) : f \in versions_.l0} ELSE {}

(* CompactRange: the level-0 files from key b on, and those they overlap.  *)
CompactRange(b) ==
    LET S == {f \in versions_.l0 : \E k \in Span({f}) : k >= b}
    IN  UNION {WithOverlapping(f) : f \in S}

-----------------------------------------------------------------------------
(* Scheduling and the files that stay.                                     *)

(* Mutant: no test that there is work.                                     *)
MaybeScheduleAlways(scheduled, error, imm, man, v, seek) ==
    scheduled \/ (~shutting_down_ /\ ~error)

(* MaybeScheduleCompaction: the flag after the call.                       *)
MaybeScheduleCompaction(scheduled, error, imm, man, v, seek) ==
    \/ scheduled
    \/ /\ ~shutting_down_ /\ ~error
       /\ imm # Null \/ man # Null \/ NeedsCompaction(v, seek)

(* background_work_finished_signal_.SignalAll().                           *)
SignalAll(p) ==
    [t \in Thread |-> CASE p[t] = "bgwait"  -> "room"
                        [] p[t] = "immwait" -> "immtest"
                        [] p[t] = "manwait" -> "mantest"
                        [] OTHER -> p[t]]

(* Mutant: a reader holds no reference to its version.                     *)
ReferencedByMerge(c) == IF c = Null THEN {} ELSE {c.ver}

(* Versions that are referenced besides the current one.                   *)
Referenced(c) ==
    {held[t].ver : t \in {u \in Thread : held[u] # Null}}
        \cup (IF c = Null THEN {} ELSE {c.ver})

(* Mutant: the outputs in the making are not kept.                         *)
LiveInstalled(v, c, pending) ==
    UNION {Files(x) : x \in Referenced(c) \cup {v}}

(* AddLiveFiles and pending_outputs_.                                      *)
LiveTables(v, c, pending) ==
    pending \cup UNION {Files(x) : x \in Referenced(c) \cup {v}}

(* Mutant: the log in use is kept, and the one of imm_ is not.             *)
LogsLast(log) == {n \in DOMAIN logs : n >= logfile_number_}

LogsKept(log) == {n \in DOMAIN logs : n >= log}

(* DeleteObsoleteFiles, given the tables T that there are.                 *)
DeleteObsoleteFiles(T, v, log, c, pending, error) ==
    IF error
    THEN tables' = T /\ UNCHANGED logs
    ELSE /\ tables' = Restrict(T, DOMAIN T \cap LiveTables(v, c, pending))
         /\ logs' = Restrict(logs, LogsKept(log))

(* The memtables somebody refers to.                                       *)
Unref(im, h) ==
    memtable' = Restrict(memtable, DOMAIN memtable \cap
        ({logfile_number_, im} \cup
           UNION {{h[t].mem, h[t].imm} : t \in {u \in Thread : h[u] # Null}}))

-----------------------------------------------------------------------------
(* Writers.                                                                *)

(* Write: the caller queues up and waits unless it is first.               *)
Enqueue(t, writer) ==
    /\ opened /\ ~shutting_down_ /\ pc[t] = "idle"
    /\ w' = [w EXCEPT ![t] = writer]
    /\ writers_' = Append(writers_, t)
    /\ pc' = [pc EXCEPT ![t] = IF writers_ = <<>> THEN "room" ELSE "asleep"]
    /\ UNCHANGED <<group, hist, synced, memVars, logs, tables, versionVars,
                   readVars, bgVars, errVars, manualVars,
                   background_compaction_scheduled_>>

Write(t, op) ==
    /\ Use("write", MaxWrite)
    /\ Enqueue(t, [batch |-> [k |-> op.k, d |-> op.d], sync |-> op.sync,
                   force |-> FALSE, delay |-> TRUE])

(* CompactRange begins with TEST_CompactMemTable: a write of no batch.     *)
BeginCompactRange(t) ==
    /\ Use("other", MaxOther)
    /\ Enqueue(t, [NoWriter EXCEPT !.force = TRUE])

(* Mutant: the next writer is not told.                                    *)
WakesNobody(t) == FALSE

(* The writer a leader signals at the end: the new first one.              *)
Wakes(t) == pc[t] = "asleep"

(* The end of Write: the first n writers are done, and the next is woken.  *)
Finish(n, ok) ==
    LET out == {writers_[i] : i \in 1 .. n}
        rest == SubSeq(writers_, n + 1, Len(writers_))
    IN  /\ writers_' = rest
        /\ w' = [t \in Thread |-> IF t \in out THEN NoWriter ELSE w[t]]
        /\ pc' = [t \in Thread |->
              CASE t \in out /\ w[t].batch # Null -> "idle"
                [] t \in out /\ w[t].batch = Null ->
                      IF ok THEN "immtest" ELSE "manual"
                [] rest # <<>> /\ t = rest[1] /\ Wakes(t) -> "room"
                [] OTHER -> pc[t]]

Batches(n) == SelectSeq(SubSeq(writers_, 1, n), LAMBDA t : w[t].batch # Null)

(* Mutant: a sync write may join the group of one that is not.             *)
MayJoinAny(u) == TRUE

MayJoin(u) == w[writers_[1]].sync \/ ~w[u].sync

(* BuildBatchGroup: how many writers the group takes in.                   *)
BuildBatchGroup ==
    Max({n \in 1 .. Len(writers_) :
            /\ \A i \in 2 .. n : MayJoin(writers_[i])
            /\ Len(Batches(n)) <= MaxGroup})

(* What follows MakeRoomForWrite when there is room.                       *)
Proceed(t) ==
    \/ /\ w[t].batch = Null
       /\ Finish(1, TRUE) /\ UNCHANGED group
    \/ /\ w[t].batch # Null
       /\ group' = BuildBatchGroup
       /\ pc' = [pc EXCEPT ![t] = "log"]
       /\ UNCHANGED <<w, writers_>>

(* MakeRoomForWrite, a round of its loop: a background error ...           *)
RoomError(t) ==
    /\ pc[t] = "room" /\ bg_error_
    /\ Finish(1, FALSE)
    /\ UNCHANGED <<group, hist, synced, memVars, logs, tables, versionVars,
                   readVars, bgVars, errVars, manualVars,
                   background_compaction_scheduled_, used>>

Delays(t) == w[t].delay /\ Cardinality(versions_.l0) >= SlowdownTrigger

(* ... a short sleep ...                                                   *)
RoomDelay(t) ==
    /\ pc[t] = "room" /\ ~bg_error_ /\ Delays(t)
    /\ w' = [w EXCEPT ![t].delay = FALSE]
    /\ UNCHANGED <<pc, writers_, group, hist, synced, memVars, logs, tables,
                   versionVars, readVars, bgVars, errVars, manualVars,
                   background_compaction_scheduled_, used>>

HasRoom(t) ==
    ~w[t].force /\ Cardinality(memtable[logfile_number_]) <= write_buffer_size

(* ... room in the memtable ...                                            *)
RoomFound(t) ==
    /\ pc[t] = "room" /\ ~bg_error_ /\ ~Delays(t)
    /\ HasRoom(t)
    /\ Proceed(t)
    /\ UNCHANGED <<hist, synced, memVars, logs, tables, versionVars, readVars,
                   bgVars, errVars, manualVars,
                   background_compaction_scheduled_, used>>

MustWait == imm_ # Null \/ Cardinality(versions_.l0) >= StopTrigger

(* ... waiting for the background call ...                                 *)
RoomWait(t) ==
    /\ pc[t] = "room" /\ ~bg_error_ /\ ~Delays(t)
    /\ ~HasRoom(t) /\ MustWait
    /\ pc' = [pc EXCEPT ![t] = "bgwait"]
    /\ UNCHANGED <<writerVars, memVars, logs, tables, versionVars, readVars,
                   bgVars, errVars, manualVars,
                   background_compaction_scheduled_, used>>

(* ... or a new log and memtable, in which there is room.                  *)
RoomSwitch(t) ==
    /\ pc[t] = "room" /\ ~bg_error_ /\ ~Delays(t)
    /\ ~HasRoom(t) /\ ~MustWait
    /\ logfile_number_' = next_file
    /\ next_file' = next_file + 1
    /\ logs' = Store(logs, next_file, {})
    /\ memtable' = Store(memtable, next_file, {})
    /\ imm_' = logfile_number_
    /\ background_compaction_scheduled_' =
          MaybeScheduleCompaction(background_compaction_scheduled_, bg_error_,
              logfile_number_, manual_compaction_, Current, file_to_compact)
    /\ Proceed(t)
    /\ UNCHANGED <<hist, synced, tables, versions_, last_sequence,
                   file_to_compact, readVars, bgVars, errVars, manualVars, used>>

(* The entries of the group: numbered on from last_sequence.               *)
Entries ==
    LET b == Batches(group)
    IN  {[k |-> w[b[i]].batch.k, s |-> last_sequence + i,
          d |-> w[b[i]].batch.d] : i \in 1 .. Len(b)}

(* Without mutex_: AddRecord, Sync if the leader asks, InsertInto mem_.    *)
LogAndInsert(t) ==
    /\ pc[t] = "log"
    /\ logs' = [logs EXCEPT ![logfile_number_] = @ \cup Entries]
    /\ synced' = IF w[t].sync
                 THEN synced \cup {e.s : e \in logs[logfile_number_] \cup Entries}
                 ELSE synced
    /\ memtable' = [memtable EXCEPT ![logfile_number_] = @ \cup Entries]
    /\ pc' = [pc EXCEPT ![t] = "commit"]
    /\ UNCHANGED <<w, writers_, group, hist, logfile_number_, imm_, tables,
                   versionVars, readVars, bgVars, errVars, manualVars,
                   background_compaction_scheduled_, used>>

(* With mutex_ again: SetLastSequence and the end of Write.                *)
Commit(t) ==
    LET b == Batches(group)
    IN  /\ pc[t] = "commit"
        /\ last_sequence' = last_sequence + Len(b)
        /\ hist' = hist \o [i \in 1 .. Len(b) |->
              [k |-> w[b[i]].batch.k, d |-> w[b[i]].batch.d,
               sync |-> w[b[i]].sync]]
        /\ Finish(group, TRUE)
        /\ group' = 0
        /\ UNCHANGED <<synced, memVars, logs, tables, versions_, next_file,
                       file_to_compact, readVars, bgVars, errVars, manualVars,
                       background_compaction_scheduled_, used>>

-----------------------------------------------------------------------------
(* Manual compaction.                                                      *)

(* TEST_CompactMemTable waits while imm_ is there.                         *)
WaitForImm(t) ==
    /\ pc[t] = "immtest"
    /\ pc' = [pc EXCEPT ![t] = IF imm_ # Null /\ ~bg_error_
                               THEN "immwait" ELSE "manual"]
    /\ UNCHANGED <<writerVars, memVars, logs, tables, versionVars, readVars,
                   bgVars, errVars, manualVars,
                   background_compaction_scheduled_, used>>

(* TEST_CompactRange: a ManualCompaction is made, and the loop is left     *)
(* when it is done or there is an error, ...                               *)
ManualEnds(t) ==
    /\ \/ pc[t] = "manual" /\ bg_error_
       \/ pc[t] = "mantest" /\ (bg_error_ \/ manual[t].done)
    /\ pc' = [pc EXCEPT ![t] = "idle"]
    /\ manual' = [manual EXCEPT ![t] = Null]
    /\ manual_compaction_' =
          IF manual_compaction_ = t THEN Null ELSE manual_compaction_
    /\ UNCHANGED <<writerVars, memVars, logs, tables, versionVars, readVars,
                   bgVars, errVars, background_compaction_scheduled_, used>>

(* ... or it is handed over, and the caller waits.                         *)
ManualWaits(t) ==
    LET m == IF pc[t] = "manual"
             THEN [done |-> FALSE, begin |-> Min(Key)] ELSE manual[t]
    IN  /\ pc[t] \in {"manual", "mantest"} /\ ~bg_error_ /\ ~m.done
        /\ manual' = [manual EXCEPT ![t] = m]
        /\ pc' = [pc EXCEPT ![t] = "manwait"]
        /\ \/ /\ manual_compaction_ = Null
              /\ manual_compaction_' = t
              /\ background_compaction_scheduled_' =
                    MaybeScheduleCompaction(background_compaction_scheduled_,
                        bg_error_, imm_, t, Current, file_to_compact)
           \/ /\ manual_compaction_ # Null
              /\ UNCHANGED <<manual_compaction_,
                             background_compaction_scheduled_>>
        /\ UNCHANGED <<writerVars, memVars, logs, tables, versionVars,
                       readVars, bgVars, errVars, used>>

-----------------------------------------------------------------------------
(* The background call.                                                    *)

(* A null pointer is used: the process is gone.                            *)
Crash(how) ==
    /\ crashed' = how
    /\ opened' = FALSE
    /\ pc' = [t \in Thread |-> "gone"]
    /\ bg' = "gone"

(* The end of BackgroundCall.                                              *)
EndCall(error, imm, man, v, seek) ==
    /\ bg' = "none"
    /\ background_compaction_scheduled_' =
          MaybeScheduleCompaction(FALSE, error, imm, man, v, seek)
    /\ pc' = SignalAll(pc)

Begins == background_compaction_scheduled_ /\ bg = "none"

(* BackgroundCall does nothing when shutting down or after an error.       *)
CallIdle ==
    /\ Begins /\ (shutting_down_ \/ bg_error_)
    /\ EndCall(bg_error_, imm_, manual_compaction_, Current, file_to_compact)
    /\ UNCHANGED <<writerVars, memVars, logs, tables, versionVars, readVars,
                   level0, compact, edit, pending_outputs_, errVars,
                   manualVars, used>>

(* CompactMemTable, WriteLevel0Table: mutex_ is released for BuildTable.   *)
StartLevel0 ==
    /\ imm_ # Null
    /\ level0' = next_file
    /\ next_file' = next_file + 1
    /\ pending_outputs_' = pending_outputs_ \cup {next_file}
    /\ bg' = "build"
    /\ UNCHANGED <<pc, writerVars, memVars, logs, tables, versions_,
                   last_sequence, file_to_compact, readVars, compact, edit,
                   errVars, manualVars, background_compaction_scheduled_, used>>

CallMemTable ==
    Begins /\ ~shutting_down_ /\ ~bg_error_ /\ StartLevel0

(* The compaction loop does it too when it sees has_imm_, which it reads   *)
(* without mutex_ and may see late.                                        *)
MergeMemTable ==
    /\ bg = "merge" /\ compact.todo # {} /\ ~shutting_down_
    /\ StartLevel0

(* CompactMemTable returns: to the compaction loop, or out of the call.    *)
Level0Returns(error, imm, v, seek) ==
    \/ /\ compact # Null
       /\ bg' = "merge" /\ pc' = SignalAll(pc)
       /\ UNCHANGED background_compaction_scheduled_
    \/ /\ compact = Null
       /\ EndCall(error, imm, manual_compaction_, v, seek)

(* BuildTable leaves no file when the memtable is empty.                   *)
BuildTable ==
    tables' = IF memtable[imm_] = {} THEN tables
              ELSE Store(tables, level0, memtable[imm_])

(* The table is built; LogAndApply releases mutex_ again.                  *)
Level0Built ==
    /\ bg = "build" /\ ~shutting_down_
    /\ BuildTable
    /\ pending_outputs_' = pending_outputs_ \ {level0}
    /\ edit' = [next |-> next_file, seq |-> last_sequence]
    /\ bg' = "apply"
    /\ UNCHANGED <<pc, writerVars, memVars, logs, versionVars, readVars,
                   level0, compact, errVars, manualVars,
                   background_compaction_scheduled_, used>>

(* The table is built too late, or it cannot be read back and is deleted.  *)
Level0Fails ==
    /\ bg = "build"
    /\ \/ /\ shutting_down_
          /\ BuildTable
          /\ UNCHANGED used
       \/ /\ Use("fault", MaxFault)
          /\ UNCHANGED tables
    /\ pending_outputs_' = pending_outputs_ \ {level0}
    /\ level0' = Null
    /\ bg_error_' = TRUE
    /\ Level0Returns(TRUE, imm_, Current, file_to_compact)
    /\ UNCHANGED <<writerVars, memVars, logs, versionVars, readVars, compact,
                   edit, shutting_down_, opened, crashed, manualVars>>

(* LogAndApply installs the version, in which PickLevelForMemTableOutput   *)
(* gives the table its level, and imm_ goes.                               *)
Level0Applied ==
    LET new == {level0} \cap DOMAIN tables
        deep == ~Overlap(new, versions_.l0) /\ ~Overlap(new, versions_.l1)
        v == [l0 |-> versions_.l0 \cup IF deep THEN {} ELSE new,
              l1 |-> versions_.l1 \cup IF deep THEN new ELSE {}]
    IN  /\ bg = "apply"
        /\ versions_' = [l0 |-> v.l0, l1 |-> v.l1, log |-> logfile_number_,
                         next |-> edit.next, seq |-> edit.seq]
        /\ file_to_compact' = FALSE
        /\ imm_' = Null /\ Unref(Null, held)
        /\ DeleteObsoleteFiles(tables, v, logfile_number_, compact,
                               pending_outputs_, bg_error_)
        /\ level0' = Null /\ edit' = Null
        /\ Level0Returns(bg_error_, Null, v, FALSE)
        /\ UNCHANGED <<writerVars, logfile_number_, next_file, last_sequence,
                       readVars, compact, pending_outputs_, errVars,
                       manualVars, used>>

(* BackgroundCompaction with no imm_: the input files there are for a      *)
(* manual or an automatic compaction, if any.                              *)
Inputs ==
    IF manual_compaction_ # Null
    THEN {CompactRange(manual[manual_compaction_].begin)} \ {{}}
    ELSE PickCompaction

Picks == Begins /\ ~shutting_down_ /\ ~bg_error_ /\ imm_ = Null

(* Nothing to do: the level of a null compaction is asked for.             *)
CallNothing ==
    /\ Picks /\ Inputs = {}
    /\ manual' = IF manual_compaction_ = Null THEN manual
                 ELSE [manual EXCEPT ![manual_compaction_].done = TRUE]
    /\ Crash(IF manual_compaction_ = Null THEN "automatic" ELSE "manual")
    /\ UNCHANGED <<writerVars, memVars, logs, tables, versionVars, readVars,
                   level0, compact, edit, pending_outputs_, bg_error_,
                   shutting_down_, manual_compaction_,
                   background_compaction_scheduled_, used>>

(* Mutant: old entries go whatever the snapshots.                          *)
SmallestIgnoring == last_sequence

SmallestSnapshot == IF snapshots_ = {} THEN last_sequence ELSE Min(snapshots_)

IsTrivialMove(S) ==
    manual_compaction_ = Null /\ Cardinality(S) = 1 /\ Below(S) = {}

NewCompaction(S) ==
    [ver |-> Current, in0 |-> S, in1 |-> Below(S),
     todo |-> IF IsTrivialMove(S) THEN {}
              ELSE UNION {tables[f] : f \in S \cup Below(S)},
     small |-> SmallestSnapshot, key |-> Null, last |-> INF,
     out |-> Null, outs |-> {}, manual |-> manual_compaction_]

(* A trivial move only takes LogAndApply; otherwise DoCompactionWork.      *)
CallCompact ==
    /\ Picks
    /\ \E S \in Inputs :
          /\ compact' = NewCompaction(S)
          /\ \/ /\ IsTrivialMove(S)
                /\ bg' = "move"
                /\ edit' = [next |-> next_file, seq |-> last_sequence]
             \/ /\ ~IsTrivialMove(S)
                /\ bg' = "merge"
                /\ UNCHANGED edit
    /\ UNCHANGED <<pc, writerVars, memVars, logs, tables, versionVars,
                   readVars, level0, pending_outputs_, errVars, manualVars,
                   background_compaction_scheduled_, used>>

Moved ==
    LET v == [l0 |-> versions_.l0 \ compact.in0,
              l1 |-> versions_.l1 \cup compact.in0]
    IN  /\ bg = "move"
        /\ versions_' = [versions_ EXCEPT !.l0 = v.l0, !.l1 = v.l1,
                            !.next = edit.next, !.seq = edit.seq]
        /\ file_to_compact' = FALSE
        /\ compact' = Null /\ edit' = Null
        /\ EndCall(bg_error_, imm_, manual_compaction_, v, FALSE)
        /\ UNCHANGED <<writerVars, memVars, logs, tables, next_file,
                       last_sequence, readVars, level0, pending_outputs_,
                       errVars, manualVars, used>>

(* DoCompactionWork, without mutex_: the entry the merge comes to next.    *)
NextEntry ==
    CHOOSE e \in compact.todo :
        \A o \in compact.todo : e.k < o.k \/ (e.k = o.k /\ e.s >= o.s)

LastForKey(e) == IF compact.key = e.k THEN compact.last ELSE INF

(* Entries behind one that every snapshot sees, and deletions that every   *)
(* snapshot sees: there is no level below the output's.                    *)
Drops(e) ==
    \/ LastForKey(e) <= compact.small
    \/ e.d /\ e.s <= compact.small

(* One round of the loop: the entry is dropped ...                         *)
MergeDrop ==
    LET e == NextEntry
    IN  /\ bg = "merge" /\ compact.todo # {} /\ ~shutting_down_
        /\ Drops(e)
        /\ compact' = [compact EXCEPT !.todo = @ \ {e}, !.key = e.k,
                                      !.last = e.s]
        /\ UNCHANGED <<pc, writerVars, memVars, logs, tables, versionVars,
                       readVars, bg, level0, edit, pending_outputs_, errVars,
                       manualVars, background_compaction_scheduled_, used>>

(* ... or added to the output file, which is opened if there is none and   *)
(* finished if it is big enough.                                           *)
MergeAdd ==
    LET e == NextEntry
        n == IF compact.out = Null THEN next_file ELSE compact.out
        T == Store(tables, n,
                   (IF compact.out = Null THEN {} ELSE tables[n]) \cup {e})
    IN  /\ bg = "merge" /\ compact.todo # {} /\ ~shutting_down_
        /\ ~Drops(e)
        /\ \/ /\ compact.out = Null
              /\ next_file' = next_file + 1
              /\ pending_outputs_' = pending_outputs_ \cup {next_file}
           \/ /\ compact.out # Null
              /\ UNCHANGED <<next_file, pending_outputs_>>
        /\ tables' = T
        /\ compact' = [compact EXCEPT
              !.todo = @ \ {e}, !.key = e.k, !.last = e.s,
              !.outs = @ \cup {n},
              !.out = IF Cardinality(T[n]) >= MaxOutput THEN Null ELSE n]
        /\ UNCHANGED <<pc, writerVars, memVars, logs, versions_,
                       last_sequence, file_to_compact, readVars, bg, level0,
                       edit, errVars, manualVars,
                       background_compaction_scheduled_, used>>

(* The loop is over: InstallCompactionResults calls LogAndApply.           *)
MergeDone ==
    /\ bg = "merge" /\ compact.todo = {} /\ ~shutting_down_
    /\ bg' = "install"
    /\ edit' = [next |-> next_file, seq |-> last_sequence]
    /\ UNCHANGED <<pc, writerVars, memVars, logs, tables, versionVars,
                   readVars, level0, compact, pending_outputs_, errVars,
                   manualVars, background_compaction_scheduled_, used>>

(* The end of BackgroundCompaction for a manual compaction, which may have *)
(* been given up meanwhile: then a null pointer is used.                   *)
ManualPart(done) ==
    LET m == manual_compaction_
    IN  \/ /\ compact.manual = Null
           /\ EndCall(bg_error_', imm_, m, [l0 |-> versions_'.l0,
                  l1 |-> versions_'.l1], file_to_compact')
           /\ UNCHANGED <<manualVars, crashed, opened>>
        \/ /\ compact.manual # Null /\ m # Null
           /\ manual_compaction_' = Null
           /\ \E f \in compact.in0 :
                 manual' = [manual EXCEPT ![m] =
                    [done |-> done,
                     begin |-> IF done THEN @.begin ELSE Max(Keys(f))]]
           /\ EndCall(bg_error_', imm_, Null, [l0 |-> versions_'.l0,
                  l1 |-> versions_'.l1], file_to_compact')
           /\ UNCHANGED <<crashed, opened>>
        \/ /\ compact.manual # Null /\ m = Null
           /\ Crash("cancelled")
           /\ UNCHANGED <<manualVars, background_compaction_scheduled_>>

(* The compaction fails: the database is being deleted, or a finished      *)
(* output cannot be read back.  CleanupCompaction; nothing is deleted.     *)
MergeFails ==
    /\ bg = "merge"
    /\ \/ shutting_down_ /\ UNCHANGED used
       \/ compact.outs # {} /\ Use("fault", MaxFault)
    /\ bg_error_' = TRUE
    /\ pending_outputs_' = pending_outputs_ \ compact.outs
    /\ compact' = Null
    /\ UNCHANGED <<versionVars, tables, logs>>
    /\ ManualPart(TRUE)
    /\ UNCHANGED <<writerVars, memVars, readVars, level0, edit,
                   shutting_down_>>

(* LogAndApply installs the outputs; CleanupCompaction, ReleaseInputs and  *)
(* DeleteObsoleteFiles follow.                                             *)
Installed ==
    LET v == [l0 |-> versions_.l0 \ compact.in0,
              l1 |-> (versions_.l1 \ compact.in1) \cup compact.outs]
        pending == pending_outputs_ \ compact.outs
    IN  /\ bg = "install"
        /\ versions_' = [versions_ EXCEPT !.l0 = v.l0, !.l1 = v.l1,
                            !.next = edit.next, !.seq = edit.seq]
        /\ file_to_compact' = FALSE
        /\ pending_outputs_' = pending
        /\ DeleteObsoleteFiles(tables, v, versions_.log, Null, pending,
                               bg_error_)
        /\ compact' = Null /\ edit' = Null
        /\ UNCHANGED <<bg_error_, next_file, last_sequence>>
        /\ ManualPart(FALSE)
        /\ UNCHANGED <<writerVars, memVars, readVars, level0, shutting_down_,
                       used>>

-----------------------------------------------------------------------------
(* Readers and snapshots.                                                  *)

(* Get and NewInternalIterator: references to what there is to read, up to *)
(* the last sequence number or a snapshot.                                 *)
Get(t, s) ==
    /\ opened /\ ~shutting_down_ /\ pc[t] = "idle"
    /\ Use("other", MaxOther)
    /\ held' = [held EXCEPT ![t] = [snap |-> s, mem |-> logfile_number_,
                                    imm |-> imm_, ver |-> Current]]
    /\ pc' = [pc EXCEPT ![t] = "get"]
    /\ UNCHANGED <<writerVars, memVars, logs, tables, versionVars, snapshots_,
                   bgVars, errVars, manualVars,
                   background_compaction_scheduled_>>

(* They are given back: the end of Get, or CleanupIteratorState.  The      *)
(* reads of a file may have made it worth compacting.                      *)
GetEnds(t) ==
    /\ pc[t] = "get"
    /\ held' = [held EXCEPT ![t] = Null]
    /\ pc' = [pc EXCEPT ![t] = "idle"]
    /\ Unref(imm_, held')
    /\ \/ UNCHANGED <<file_to_compact, background_compaction_scheduled_>>
       \/ /\ held[t].ver = Current /\ Current.l0 # {}
          /\ file_to_compact' = TRUE
          /\ background_compaction_scheduled_' =
                MaybeScheduleCompaction(background_compaction_scheduled_,
                    bg_error_, imm_, manual_compaction_, Current, TRUE)
    /\ UNCHANGED <<writerVars, logfile_number_, imm_, logs, tables, versions_,
                   next_file, last_sequence, snapshots_, bgVars, errVars,
                   manualVars, used>>

GetSnapshot ==
    /\ opened /\ ~shutting_down_
    /\ Use("other", MaxOther)
    /\ snapshots_' = snapshots_ \cup {last_sequence}
    /\ UNCHANGED <<pc, writerVars, memVars, logs, tables, versionVars, held,
                   bgVars, errVars, manualVars,
                   background_compaction_scheduled_>>

ReleaseSnapshot(s) ==
    /\ opened /\ ~shutting_down_
    /\ s \in snapshots_
    /\ snapshots_' = snapshots_ \ {s}
    /\ UNCHANGED <<pc, writerVars, memVars, logs, tables, versionVars, held,
                   bgVars, errVars, manualVars,
                   background_compaction_scheduled_, used>>

-----------------------------------------------------------------------------
(* Closing and reopening in one process.                                   *)

(* ~DBImpl, called when no call is under way and no snapshot is out, ...   *)
BeginClose ==
    /\ opened /\ ~shutting_down_ /\ Use("other", MaxOther)
    /\ \A t \in Thread : pc[t] = "idle"
    /\ snapshots_ = {}
    /\ shutting_down_' = TRUE
    /\ UNCHANGED <<pc, writerVars, memVars, logs, tables, versionVars,
                   readVars, bgVars, bg_error_, opened, crashed, manualVars,
                   background_compaction_scheduled_>>

(* ... waits for the background call.                                      *)
Close ==
    /\ opened /\ shutting_down_ /\ ~background_compaction_scheduled_
    /\ opened' = FALSE
    /\ memtable' = Restrict(memtable, {})
    /\ imm_' = Null
    /\ UNCHANGED <<pc, writerVars, logfile_number_, logs, tables, versionVars,
                   readVars, bgVars, bg_error_, shutting_down_, crashed,
                   manualVars, background_compaction_scheduled_, used>>

(* RecoverLogFile and MarkFileNumberUsed: a log with records becomes a     *)
(* table of level 0, and one only: it was switched when its memtable was   *)
(* full.                                                                   *)
RecoverLogFile(r, n) ==
    LET made == logs[n] # {}
        next == IF made THEN r.next + 1 ELSE r.next
    IN  [next |-> Max({next, n + 1}),
         tables |-> IF made THEN Store(r.tables, r.next, logs[n]) ELSE r.tables,
         l0 |-> IF made THEN r.l0 \cup {r.next} ELSE r.l0]

(* The logs the manifest has not covered.                                  *)
LogsToRecover == {n \in DOMAIN logs : n >= versions_.log}

(* Recover: the logs in the order in which they were made.                 *)
Recover ==
    FoldLeft(RecoverLogFile,
             [next |-> versions_.next, tables |-> tables, l0 |-> versions_.l0],
             SetToSortSeq(LogsToRecover, LAMBDA a, b : a < b))

(* DB::Open.                                                               *)
Open ==
    LET r == Recover
        v == [l0 |-> r.l0, l1 |-> versions_.l1]
        seq == Max({versions_.seq} \cup
                   UNION {{e.s : e \in logs[n]} : n \in LogsToRecover})
    IN  /\ ~opened /\ crashed = "no"
        /\ opened' = TRUE /\ shutting_down_' = FALSE /\ bg_error_' = FALSE
        /\ logfile_number_' = r.next /\ next_file' = r.next + 1
        /\ memtable' = Store(memtable, r.next, {})
        /\ logs' = Store(Restrict(logs, {}), r.next, {})
        /\ tables' = Restrict(r.tables, DOMAIN r.tables \cap Files(v))
        /\ versions_' = [l0 |-> v.l0, l1 |-> v.l1, log |-> r.next,
                         next |-> r.next + 1, seq |-> seq]
        /\ last_sequence' = seq
        /\ file_to_compact' = FALSE
        /\ pending_outputs_' = {}
        /\ background_compaction_scheduled_' = NeedsCompaction(v, FALSE)
        /\ UNCHANGED <<pc, writerVars, imm_, readVars, bg, level0, compact,
                       edit, crashed, manualVars, used>>

-----------------------------------------------------------------------------
WriteStep(t) ==
    \/ RoomError(t) \/ RoomDelay(t) \/ RoomFound(t) \/ RoomWait(t)
    \/ RoomSwitch(t) \/ LogAndInsert(t) \/ Commit(t)
    \/ WaitForImm(t) \/ ManualEnds(t) \/ ManualWaits(t)

BackgroundStep ==
    \/ CallIdle \/ CallMemTable \/ CallNothing \/ CallCompact
    \/ Level0Built \/ Level0Fails \/ Level0Applied \/ Moved
    \/ MergeMemTable \/ MergeDrop \/ MergeAdd \/ MergeDone \/ MergeFails
    \/ Installed

Calls ==
    \/ \E t \in Thread :
          \/ \E op \in Op : Write(t, op)
          \/ BeginCompactRange(t)
          \/ \E s \in snapshots_ \cup {last_sequence} : Get(t, s)
          \/ GetEnds(t)
    \/ GetSnapshot
    \/ \E s \in snapshots_ : ReleaseSnapshot(s)
    \/ BeginClose \/ Close \/ Open

Next == Calls \/ BackgroundStep \/ \E t \in Thread : WriteStep(t)

(* What every step of a writer, and of the background thread, changes.     *)
writeProgress == <<pc, w>>
bgProgress == <<bg, compact, background_compaction_scheduled_>>

(* Whoever can go on with a write or a manual compaction does, one of them *)
(* at least, and so does the background thread.                            *)
Spec ==
    /\ Init /\ [][Next]_vars
    /\ WF_bgProgress(BackgroundStep)
    /\ WF_writeProgress(\E t \in Thread : WriteStep(t))

-----------------------------------------------------------------------------
(* Every variable keeps its type.                                          *)
TypeOK ==
    /\ pc \in [Thread -> {"idle", "asleep", "room", "bgwait", "log", "commit",
                          "immwait", "immtest", "manual", "manwait",
                          "mantest", "get", "gone"}]
    /\ writers_ \in Seq(Thread)
    /\ imm_ \in DOMAIN memtable \cup {Null}
    /\ opened => logfile_number_ \in DOMAIN memtable \cap DOMAIN logs
    /\ pending_outputs_ \subseteq 1 .. next_file
    /\ snapshots_ \subseteq 0 .. last_sequence
    /\ bg \in {"none", "build", "apply", "move", "merge", "install", "gone"}
    /\ bg # "none" => background_compaction_scheduled_

(* The write a reader at sequence number s should see for key k: the       *)
(* newest up to s, unless it is a deletion.                                *)
Expected(k, s) ==
    LET S == {i \in 1 .. Len(hist) : i <= s /\ hist[i].k = k}
    IN  IF S = {} \/ hist[Max(S)].d THEN 0 ELSE Max(S)

(* What is found for k at s in a memtable, else in imm, else in tables.    *)
Found(mem, imm, v, k, s) ==
    LET At(E) == {e \in E : e.k = k /\ e.s <= s}
        In(n) == IF n \in DOMAIN memtable THEN At(memtable[n]) ELSE {}
        E == IF In(mem) # {} THEN In(mem)
             ELSE IF In(imm) # {} THEN In(imm)
             ELSE UNION {At(tables[f]) : f \in FileFor(v, k, s)}
    IN  IF E = {} \/ Newest(E).d THEN 0 ELSE Newest(E).s

(* Every table of the current version, of a version a reader or the        *)
(* compaction refers to, and every output of the running compaction is     *)
(* there, whoever deletes obsolete files meanwhile; and every variable     *)
(* keeps its type.                                                         *)
LiveFilesExist ==
    /\ TypeOK
    /\ UNION {Files(v) : v \in Referenced(compact) \cup {Current}}
          \subseteq DOMAIN tables
    /\ compact # Null => compact.outs \subseteq DOMAIN tables

(* At the last sequence number and at every snapshot the database holds    *)
(* exactly the writes made up to it: no acknowledged write is lost and     *)
(* none comes back by a switch of memtables, a compaction, a failure of    *)
(* one or a reopening.                                                     *)
SnapshotsReadable ==
    opened => \A k \in Key, s \in snapshots_ \cup {last_sequence} :
        Found(logfile_number_, imm_, Current, k, s) = Expected(k, s)

(* A reader finds in what it has referenced the writes up to its own       *)
(* sequence number, whatever is written, compacted or deleted meanwhile.   *)
ReadersUndisturbed ==
    \A t \in Thread : held[t] # Null =>
        \A k \in Key :
            Found(held[t].mem, held[t].imm, held[t].ver, k, held[t].snap)
                = Expected(k, held[t].snap)

(* Closing now and reopening would bring back every acknowledged write:    *)
(* what is in no table of the manifest is in a log that recovery reads.    *)
Recoverable ==
    LET L == UNION {logs[n] : n \in LogsToRecover}
        T == UNION {tables[f] : f \in Files(Current) \cap DOMAIN tables}
        E(k) == {e \in L \cup T :
                    e.k = k /\ e.s <= last_sequence}
    IN  \A k \in Key :
            Expected(k, last_sequence) =
                IF E(k) = {} \/ Newest(E(k)).d THEN 0 ELSE Newest(E(k)).s

(* A write that asked for sync has been followed by a Sync of its log when *)
(* it returns, also when another thread has written it.                    *)
SyncWritesSynced == \A s \in 1 .. Len(hist) : hist[s].sync => s \in synced

(* An automatic background call always finds work: between scheduling and  *)
(* running it nobody else does it.                                         *)
AutomaticFindsWork == crashed # "automatic"

(* "Nothing to do" ends a manual compaction; it does not end the process.  *)
ManualSurvives == crashed # "manual"

(* Every write returns, with success or an error: whoever is woken, waits  *)
(* for the background call or leads a group, the queue of writers, once it *)
(* is not empty, empties again.  (The calls are bounded.)                  *)
WritesReturn == []<>(writers_ = <<>> \/ crashed # "no")
=============================================================================
