------------------------------ MODULE ZoadEnv ------------------------------
(***************************************************************************)
(* The tables of class ZoadEnv in util/env_zoad.cc: the map from names to  *)
(* files and the keys under which the files have data in a partition, the  *)
(* table of file locks, and the queue of background work with the one      *)
(* thread that serves it.                                                  *)
(*                                                                         *)
(* Data.  A file is represented by its key, which it keeps under every     *)
(* name; what matters here of its contents (ZoadFile) is whether a part of *)
(* them has been flushed to the partition.  Handles are the objects the    *)
(* New...File functions return; nothing is freed when the last one goes.   *)
(* Work items are numbered in the order in which they are scheduled.       *)
(*                                                                         *)
(* Threads and locks.  Every function of the file map runs under mutex_,   *)
(* those of the lock table under mu_, Schedule and the background thread's *)
(* loop under background_work_mutex_, which it gives up only to wait and   *)
(* to run the work.                                                        *)
(***************************************************************************)
EXTENDS Integers, Sequences, FiniteSets

CONSTANTS
    Thread,     \* the threads of the host
    Name,       \* file names
    LockName,   \* names that are locked: the host's LOCK file
    MaxKey,     \* bound: files made
    MaxWork,    \* bound: work items scheduled
    Null        \* no file, no name

ASSUME EnvAssumption ==
    /\ MaxKey \in Nat /\ MaxWork \in Nat
    /\ Null \notin Nat \cup Name \cup LockName

VARIABLES
    global_key,                 \* the next key
    file_map_,                  \* ZoadEnv::file_map_
    name,                       \* ZoadFile::name
    deleted,                    \* files whose Delete has run
    stored,                     \* keys with data in the partition
    dropped,                    \* files a rename has taken out of the map
    handle,                     \* the file a thread has open
    locked_files_,              \* ZoadLockTable::locked_files_
    lock,                       \* the name whose FileLock a thread has
    background_work_queue_,     \* ZoadEnv::background_work_queue_
    background,                 \* the background thread: where it is
    scheduled, running, ran     \* work scheduled, in hand, and done

fileVars == <<global_key, file_map_, name, deleted, stored, dropped, handle>>
lockVars == <<locked_files_, lock>>
workVars == <<background_work_queue_, background, scheduled, running, ran>>
vars == <<fileVars, lockVars, workVars>>

Key == 0 .. MaxKey - 1

Init ==
    /\ global_key = 0
    /\ file_map_ = [n \in Name |-> Null]
    /\ name = [k \in Key |-> Null]
    /\ deleted = {} /\ stored = {} /\ dropped = {}
    /\ handle = [t \in Thread |-> Null]
    /\ locked_files_ = {}
    /\ lock = [t \in Thread |-> Null]
    /\ background_work_queue_ = <<>>
    /\ background = "none"
    /\ scheduled = 0 /\ running = 0 /\ ran = <<>>

-----------------------------------------------------------------------------
(* The file map.                                                           *)

(* The host deletes or replaces a file only when nobody has it open.       *)
Unused(f) == \A t \in Thread : handle[t] # f

(* DeleteFileInternal on a file of the map: ZoadFile::Delete has the data  *)
(* deleted if there is any.                                                *)
DeleteFileInternal(f) ==
    /\ deleted' = deleted \cup {f}
    /\ stored' = stored \ {f}

(* Mutant: the key is not counted on.                                      *)
NewFileSameKey(t, n) ==
    /\ file_map_' = [file_map_ EXCEPT ![n] = global_key]
    /\ name' = [name EXCEPT ![global_key] = n]
    /\ handle' = [handle EXCEPT ![t] = global_key]
    /\ UNCHANGED global_key

(* A ZoadFile with the next key, and a handle to it.                       *)
NewFile(t, n) ==
    /\ file_map_' = [file_map_ EXCEPT ![n] = global_key]
    /\ name' = [name EXCEPT ![global_key] = n]
    /\ handle' = [handle EXCEPT ![t] = global_key]
    /\ global_key' = global_key + 1

NewWritableFile(t, n) ==
    /\ handle[t] = Null /\ global_key < MaxKey
    /\ \/ /\ file_map_[n] # Null /\ Unused(file_map_[n])
          /\ DeleteFileInternal(file_map_[n])
       \/ /\ file_map_[n] = Null
          /\ UNCHANGED <<deleted, stored>>
    /\ NewFile(t, n)
    /\ UNCHANGED <<dropped, lockVars, workVars>>

(* NewAppendableFile finds the file or makes one.                          *)
NewAppendableFile(t, n) ==
    /\ handle[t] = Null
    /\ \/ /\ file_map_[n] # Null
          /\ handle' = [handle EXCEPT ![t] = file_map_[n]]
          /\ UNCHANGED <<global_key, file_map_, name>>
       \/ /\ file_map_[n] = Null /\ global_key < MaxKey
          /\ NewFile(t, n)
    /\ UNCHANGED <<deleted, stored, dropped, lockVars, workVars>>

(* NewSequentialFile, NewRandomAccessFile.                                 *)
OpenFile(t, n) ==
    /\ handle[t] = Null
    /\ file_map_[n] # Null
    /\ handle' = [handle EXCEPT ![t] = file_map_[n]]
    /\ UNCHANGED <<global_key, file_map_, name, deleted, stored, dropped,
                   lockVars, workVars>>

(* The handle's file flushes a full buffer to the partition.               *)
FlushFile(t) ==
    /\ handle[t] # Null
    /\ stored' = stored \cup {handle[t]}
    /\ UNCHANGED <<global_key, file_map_, name, deleted, dropped, handle,
                   lockVars, workVars>>

(* The handle is deleted: Unref.                                           *)
CloseFile(t) ==
    /\ handle[t] # Null
    /\ handle' = [handle EXCEPT ![t] = Null]
    /\ UNCHANGED <<global_key, file_map_, name, deleted, stored, dropped,
                   lockVars, workVars>>

DeleteFile(n) ==
    /\ file_map_[n] # Null /\ Unused(file_map_[n])
    /\ DeleteFileInternal(file_map_[n])
    /\ file_map_' = [file_map_ EXCEPT ![n] = Null]
    /\ UNCHANGED <<global_key, name, dropped, handle, lockVars, workVars>>

(* The map after RenameFile: first the target gets the file, then the      *)
(* source loses it, also when the two are one.                             *)
Renamed(src, target) ==
    [file_map_ EXCEPT ![target] = file_map_[src], ![src] = Null]

(* RenameFile.  A file that had the target's name is not deleted.          *)
RenameFile(src, target) ==
    /\ file_map_[src] # Null
    /\ name' = [name EXCEPT ![file_map_[src]] = target]
    /\ file_map_' = Renamed(src, target)
    /\ dropped' = dropped \cup ({file_map_[target]} \ {Null})
    /\ UNCHANGED <<global_key, deleted, stored, handle, lockVars, workVars>>

-----------------------------------------------------------------------------
(* The lock table.                                                         *)

(* Mutant: what insert says is ignored.                                    *)
LockFileAlways(t, n) ==
    /\ lock[t] = Null
    /\ locked_files_' = locked_files_ \cup {n}
    /\ lock' = [lock EXCEPT ![t] = n]
    /\ UNCHANGED <<fileVars, workVars>>

(* LockFile, when the name is not in the table; otherwise it fails.        *)
LockFile(t, n) ==
    /\ lock[t] = Null
    /\ n \notin locked_files_
    /\ locked_files_' = locked_files_ \cup {n}
    /\ lock' = [lock EXCEPT ![t] = n]
    /\ UNCHANGED <<fileVars, workVars>>

UnlockFile(t) ==
    /\ lock[t] # Null
    /\ locked_files_' = locked_files_ \ {lock[t]}
    /\ lock' = [lock EXCEPT ![t] = Null]
    /\ UNCHANGED <<fileVars, workVars>>

-----------------------------------------------------------------------------
(* Background work.                                                        *)

(* Mutant: the thread is signalled when there is work already.             *)
SignalIfBusy == background_work_queue_ # <<>>

(* Schedule signals only when it finds the queue empty.                    *)
Signals == background_work_queue_ = <<>>

(* Schedule: the thread is started by the first call.                      *)
Schedule ==
    /\ scheduled < MaxWork
    /\ scheduled' = scheduled + 1
    /\ background' =
          IF background = "none" \/ (background = "waiting" /\ Signals)
          THEN "loop" ELSE background
    /\ background_work_queue_' = Append(background_work_queue_, scheduled + 1)
    /\ UNCHANGED <<fileVars, lockVars, running, ran>>

(* BackgroundThreadMain: the queue is empty, ...                           *)
WaitForWork ==
    /\ background = "loop"
    /\ background_work_queue_ = <<>>
    /\ background' = "waiting"
    /\ UNCHANGED <<fileVars, lockVars, background_work_queue_, scheduled,
                   running, ran>>

(* Mutant: the item stays at the head of the queue until it is done, and   *)
(* the newest goes.                                                        *)
TakeWorkDropsLast ==
    /\ background = "loop"
    /\ background_work_queue_ # <<>>
    /\ running' = Head(background_work_queue_)
    /\ background_work_queue_' =
          SubSeq(background_work_queue_, 1, Len(background_work_queue_) - 1)
    /\ background' = "running"
    /\ UNCHANGED <<fileVars, lockVars, scheduled, ran>>

(* ... or has an item, which is taken off it and run.                      *)
TakeWork ==
    /\ background = "loop"
    /\ background_work_queue_ # <<>>
    /\ running' = Head(background_work_queue_)
    /\ background_work_queue_' = Tail(background_work_queue_)
    /\ background' = "running"
    /\ UNCHANGED <<fileVars, lockVars, scheduled, ran>>

WorkDone ==
    /\ background = "running"
    /\ ran' = Append(ran, running)
    /\ running' = 0
    /\ background' = "loop"
    /\ UNCHANGED <<fileVars, lockVars, background_work_queue_, scheduled>>

-----------------------------------------------------------------------------
FileStep ==
    \/ \E t \in Thread, n \in Name :
          NewWritableFile(t, n) \/ NewAppendableFile(t, n) \/ OpenFile(t, n)
    \/ \E t \in Thread : FlushFile(t) \/ CloseFile(t)
    \/ \E n \in Name : DeleteFile(n)
    \/ \E src, target \in Name : RenameFile(src, target)

LockStep ==
    \E t \in Thread : UnlockFile(t) \/ \E n \in LockName : LockFile(t, n)

BackgroundStep == WaitForWork \/ TakeWork \/ WorkDone

Next == FileStep \/ LockStep \/ Schedule \/ BackgroundStep

(* The background thread runs, and the work it is given ends.              *)
Spec == Init /\ [][Next]_vars /\ WF_vars(BackgroundStep)

-----------------------------------------------------------------------------
Live == {f \in Key : f < global_key} \ (deleted \cup dropped)

(* Every variable keeps its type.                                          *)
TypeOK ==
    /\ global_key \in 0 .. MaxKey
    /\ file_map_ \in [Name -> Key \cup {Null}]
    /\ name \in [Key -> Name \cup {Null}]
    /\ deleted \subseteq Key /\ stored \subseteq Key /\ dropped \subseteq Key
    /\ handle \in [Thread -> Key \cup {Null}]
    /\ locked_files_ \subseteq LockName
    /\ lock \in [Thread -> LockName \cup {Null}]
    /\ background_work_queue_ \in Seq(1 .. MaxWork)
    /\ background \in {"none", "loop", "waiting", "running"}

(* The map and the files agree: every file that was neither deleted nor    *)
(* replaced by a rename is in the map once, under the name it believes to  *)
(* have, and nothing else is; so no key is ever used for two files.  And   *)
(* no data is left behind in the partition under a key that no name leads  *)
(* to, except that of a file a rename has put another one in place of, or  *)
(* renamed to its own name.  Every variable keeps its type.                *)
MapExact ==
    /\ TypeOK
    /\ \A f \in Key :
          {n \in Name : file_map_[n] = f} = IF f \in Live THEN {name[f]} ELSE {}
    /\ stored \subseteq Live \cup dropped

(* No two threads have the lock of one name, and the table knows of every  *)
(* lock that is out, and of no other.                                      *)
LocksExclusive ==
    /\ locked_files_ = {lock[t] : t \in Thread} \ {Null}
    /\ \A t, u \in Thread : lock[t] = lock[u] /\ lock[t] # Null => t = u

InHand == IF background = "running" THEN <<running>> ELSE <<>>

(* Every work item is in one place at any time and they are run one after  *)
(* the other in the order of the calls of Schedule, each once.             *)
WorkInOrder ==
    ran \o InHand \o background_work_queue_ = [i \in 1 .. scheduled |-> i]

(* Whatever is scheduled is run: the background thread is never left       *)
(* waiting while there is work, though only some calls signal it.  (The    *)
(* calls are bounded, so it catches up with them.)                         *)
WorkIsRun == (Len(ran) < scheduled) ~> (Len(ran) = scheduled)
=============================================================================
