# TLA+ models of ZenFS+ (ZoAD)

ZoAD is the storage layer of this repository: it gives an LSM store files on a
ZNS SSD, striped over independent zone groups (IZGs). These modules model it
from the sources that `Env::ZoadDefault` uses, `src/util/env_zoad.cc` and
`src/util/zoad/`, and the database that runs on it, `src/db/db_impl.cc`; check
the models with TLC and prove the central safety properties of the request path
with TLAPS.

## The system

| Part | Source | State | Operations |
| --- | --- | --- | --- |
| Database | `db/db_impl.cc` | writer queue, memtables, logs, version, snapshots, manual compaction | `Write`, `Get`, `CompactRange`, background call, `Open`, destructor |
| Environment | `env_zoad.cc`, `ZoadEnv` | `file_map_`, lock table, background queue | new/delete/rename/lock file, `Schedule` |
| File | `env_zoad.cc`, `ZoadFile` | `buf_`, `file_size`, read cache | `Append`, `Sync`, `Close`, `Delete`, `Read` |
| ZoAD calls | `zoad.cpp` | users' partition lists, `partition_lock` | `z_mklp`, `z_openlp`, `z_closelp`, `z_dellp`, `z_flush`, `z_load`, `z_sync`, `z_del` |
| Partition | `Partition.cpp` | status, `io_queue`, `userdata_map`, `zone_vector`, `read_buf` | `open`, `close`, `del`, `new_request`, `alloc_zone` |
| Worker | `IO_request.cpp` | the request in hand | `worker_job`: serve, look at status, drain |
| Userdata | `Userdata.cpp` | `file_segment`, `write_lock`, `remain_write_req` | `Append`, `Read`, `Sync`, `Delete`, `_write` |
| Zone groups | `IZG.cpp` | `inactive_izg_queue`, zone queues, `available_izg_cnt` | `Identify_IZG`, `alloc_izg`, `get_next_zone` |
| Stripes | `Zone.cpp` | intervals | `izg_write`, `izg_read` and their threads |
| Controller | `controller.c` | zone descriptors (write pointers), `opened_zone_num` | write, read, open, close, reset a zone |

A file collects bytes in `buf_`; every full buffer goes to `z_flush`, which
queues a WRITE on the partition (one partition for flushes and logs, one for
compactions). The partition's worker serves WRITEs and DELETEs in order.
`z_load` and `z_sync` run in the caller's thread. A WRITE is striped over the
last `izg_cnt` zones of the partition; when they are full, new ones come from
the groups in turn.

Hard behaviours: the unlocked request queue and the worker's two loops;
pointers used after the lock that protected their lookup; `Sync` spinning with
a lock held; loads that overtake the worker; buffers shared by readers; two
workers allocating zones at once; a limit tested outside the lock of its counter;
buffers and zones at their exact limit; and in the database everything that can
happen while `mutex_` is released: reads, building a table, merging, logging an
edit. Nothing survives the process (the file map and the intervals live in
memory), so the only recovery is a database closed and reopened in one process.
`PROJECT.json` lists the hazards line by line with the properties that address
them.

What each part has to get right:

- request path: flushes applied once, in order; no use of freed objects; no
  self-deadlock; accepted requests served, also across a close;
- file: the bytes handed to the partition and those in `buf_` make up the file;
  the partition is only asked about keys it has; reads return the file's bytes;
- zone allocation: a zone has one owner; a stripe covers different groups;
  intervals keep pointing at their data; giving up only when nothing is left
  (all of it as long as the workers do not meet in the unlocked queues);
- stripes: every unit of a flush lands in the zone and row from which it will be
  read; the count of open zones balances;
- partitions: the lists, the budget and the locks stay consistent whatever the
  order of calls; an accepted request is queued while the partition is open;
- environment: a name leads to one file and a key to one name; locks exclude;
  scheduled work is run;
- database: no file in use is deleted; readers and snapshots see their writes and
  no others; writes survive failures of the background and reopening; writers
  do not wait for ever.

## Modules

### RequestPath (proofs in RequestPathCalls, RequestPathQueue, RequestPathProofs)

One partition, any number of client threads, one worker. A `z_flush` or `z_del`
is one action, since the whole body runs under the partition's lock; a `z_load`
or `z_sync` is a lookup followed by the steps of `Userdata::Read` or `::Sync`
(test, lock, device, copy or spin, return), each an action of its own because
only `write_lock` is held there. `worker_job` is split where another thread can
come between: pop, take `write_lock`, the end of `Append` or `Delete`, free, and
the look at `status`. `draining` tells the second loop from the first.

A segment is the unit of size and the i-th WRITE to a Userdata is the number i.
`ok` in a request records whether its caller was told that it was accepted (a
flush to a closed partition is queued all the same). `state` follows the life
of an object. Addresses are not reused. `exited` stands for `exit(0)` and
`std::terminate`.

Assumed of the host: no call on a file is in progress when it is deleted
(`Unreferenced`; `DBImpl::DeleteObsoleteFiles` in `src/db/db_impl.cc` spares live
files and evicts tables before deleting them), and only what was flushed is loaded. Push and pop
of `std::queue` are taken as single steps.

All loads of a partition bounce through one `read_buf`, under the `write_lock` of
the file they read. `ReadsIsolated` says how far that protects them: what a load
copies out is its own segment or one of another file, never another segment of
its own file. A load of another file does overwrite it, and `request_safety`, with two
names, contains that.

### ZoadFile, AppendOnlyFile

One file: its writer, its readers and the read cache. A byte is its position in
the file, so a byte out of place shows. `dev` is what was handed to `z_flush` under
the file's key, `appended` how much of it the worker has written: `z_flush` only queues, and
nothing, not even `Sync`, makes a read wait for the worker (`WorkerAppend`). `Append` is
one action up to the first flush and then one action per turn of `WriteUnbuffered`'s
loop. A read goes through the branch of `Read` it takes: memory, across, hit, miss,
stitch; loading, filling `read_buf_` and noting its position are separate steps, because
concurrent readers share those fields. Bytes read outside any buffer, and what a load
does not fill in, are `Junk`.

A load that begins past `appended` returns -1, which `Read` ignores: the read returns
`Junk`, and the cache keeps it. `missed` records that this has happened. `CacheCoherent`
and `ReadsRight` allow `Junk` after that and never a byte of another position. A load
that begins earlier and goes beyond `appended` ends the process; `ExitsNearEnd` says which reads
are safe from it. The third way a read goes wrong is the cached part of a read that
begins in a unit which is not aligned (`env_zoad.cc:308`): the bytes copied from beyond
the end of `read_buf_` are `Junk`, and `ReadsRight` says that these and no others are.

`AppendOnlyFile` is the abstract
file; `ZoadFile` implements it with `contents <- dev \o buf_`.

### SegmentRead

What `z_load` makes of `dev`: `Userdata::Read` as a function of the file's bytes,
the offset and the size. The loop over the segments is a recursive function over
a record of the C++ variables (`offset`, `read_size`, `req_size` in blocks, the
`ori_` variables in bytes, `remain_bytes`). It is extended by `ZoadFile`, whose
reads call it, so its arithmetic is checked for every offset and size up to a
segment in the files of that run. Longer reads are not: `req_size` is stale in
the third segment of an aligned read, which then returns too little.

### ZonePool

The zone groups, the shared queue, two partitions' allocation and their stripes.
`alloc_zone` takes the group at the head of the queue, calls its `get_next_zone` (test for
empty, front, pop: three steps), and moves the group to the back (pop, push); nothing of
this is under a lock. Sizes are in units of `IO_SIZE`; the environment flushes
`izg_cnt` units at a time, one for each zone, and the zones hold a whole number of
units (72 MB zones, 192 KB units). `_write` notes the intervals in one step and writes in
another. The two workers allocate at any time. `overlapped` records that they have done
so at once, after which `StripeSpread` and `FailsOnlyWhenUsedUp` are not promised any more:
a stripe can get two zones of one group. `raced` records that they have been in
`get_next_zone` of one group at once, where both can get one zone and the next be
dropped; `ZonesConserved`, `StripeReady` and `SegmentsReadable` hold until then. An
access to an emptied queue, and a full zone met by `_write`, end a behaviour as
`undefined`. `StripeReady` shows that without a race `_write` never meets a full zone, so
that its skip loops and its further rounds of allocation are not reached.

### Stripes

`izg_write` and its threads over the zones of a stripe, and `controller.c`'s count
of open zones, for the workers of all open partitions. `Share` and `FirstZone`
follow the split of the stripe, one thread for every `THREAD_PER_IZG` zones; a
thread opens its zones, writes them row by row and closes them. The test of the
limit, the `ioctl` and the count are separate steps, because only the count is
made under `c_mutex`. A management command can be refused by the program, fail
(`MaxFault`), or be answered with a status that passes for success; `zns_set_zone`
drops all three, and `event` records them. Then the count goes wrong: the zone
is closed and counted down though it was not opened, `opened_zone_num` wraps below
zero and later opens are refused with no zone open. The properties say how far the
count can be relied on before that, and that the data is laid out right even after
it. The device's zone states are external. Flushes are whole rows of one stripe.

### Lifecycle

The partitions of the one user: `z_mklp`, `z_openlp`, `z_closelp`, `z_dellp`, the
open lists, the budget of groups, and the two levels of locks. Administrative
calls hold the global lock throughout; `z_closelp` and `z_dellp` wait inside it for
the partition's lock, so each is several actions. A data call finds the partition,
takes its lock, reads the status, and queues its request under the lock
(`z_flush`, `z_del`) or unlocks and goes on to use `read_buf` (`z_load`).
`AcceptedWhileOpen` says that what was accepted is queued before anybody can close the partition
and while its worker runs. `ended` says how the process ended: an `exit(0)`, `std::terminate` (a
second `open` assigns to a thread that was not joined), or use of freed memory
(after `z_dellp`, which leaves the partition in the list). `stray` records that
`z_sync` or `z_del` with an unknown uid has unlocked the global lock twice while
another thread held it; the budget is promised until then.

### ZoadEnv

The file map, the lock table and the background thread. Each operation of `ZoadEnv`
runs under one mutex and is one action. A file is its key; `stored` holds
the keys with data in a partition and `dropped` those of files a rename has replaced,
whose data nobody deletes. A file is deleted or replaced only when no
thread has it open (`Unused`, the rule of `DeleteObsoleteFiles` that `DBImpl` models).
The background thread takes an item, runs it, and waits when there is none.

### DBImpl

The database: one action for what a thread does between taking and giving
up `mutex_`. Writers queue up; the first makes room, forms a group, and logs and inserts it
without the mutex. The background call writes `imm_` to a table or merges tables,
entry by entry; `LogAndApply` is split where it releases the mutex (`apply`, `move`,
`install`), and `imm_` can be written out in the middle of a merge. Readers hold a
memtable, `imm_` and a version. Obsolete files are deleted where the code does it,
with `pending_outputs_` and all referenced versions spared. `BeginClose`, `Close` and
`Open` are the destructor and recovery. A fault is a table that cannot be read back;
it sets `bg_error_`. An entry is its key, sequence number and kind.

`VersionSet` of this code is not in the repository (`src/db/version_set.cc` is
RocksDB's); the section "The version set" states what is assumed of it, with
two levels. A read may make a compaction due (`file_to_compact`). `crashed` records
the use of a null pointer: `manual` is the finding of `host_manual`; `cancelled` is
reached when an error in a nested `CompactMemTable` makes the caller of a manual
compaction give it up while the background call works for it (`db_impl.cc:783`).

The modules meet at their interfaces: `DBImpl` shows the rule on deletions that
`RequestPath`, `ZoadFile` and `ZoadEnv` assume, `ZoadEnv` the single background thread
and the exclusive lock that `DBImpl` assumes, `ZoadFile` uses `SegmentRead` for its
loads, `RequestPath` the order of appends that makes what a file can load a prefix of
`dev`, `ZonePool` the distinct zones with room that `Stripes` starts from.

## Runs

| Run | Checks | Result |
| --- | --- | --- |
| `request_safety` | order, conservation, object lifetime, no self-deadlock, drain, why a load exits, loads of one file sharing `read_buf`, inductive invariant | holds |
| `request_liveness` | accepted flushes are appended, deletions free, close ends the worker, calls return | holds |
| `request_sync` | `z_sync` covers earlier flushes | violated: Sync only waits for a request the worker has in hand |
| `file_one_reader` | contents, keys, cache, reads and their arithmetic, where a read may end the process, refinement of `AppendOnlyFile` | holds |
| `file_two_readers` | reads by two threads | violated: shared cache fields |
| `pool_workers` | zone ownership, stripes, intervals (until the workers meet in one group), exhaustion | holds |
| `pool_isolation` | partitions use different groups | violated: one queue for all |
| `stripes` | layout of a flush, shares of the threads, count and limit of open zones | holds |
| `lifecycle` | open lists, budget, accepted requests, locks; every call returns | holds |
| `env` | names, keys and data, locks, order of work; work is run | holds |
| `host_db` | files in use, snapshots, readers, recovery, sync, scheduling; every write returns | holds |
| `host_manual` | "Nothing to do" is harmless | violated: `c->level()` with `c` null |

Each module's type invariant is a conjunct of one of its invariants (`IInv`,
`FileIntact`, `ZonesConserved`, `CountBalances`, `BudgetSound`, `MapExact`,
`LiveFilesExist`); `WorkerTouchesLive` and `AcceptedBeforeDone` are conjuncts of
`IInv`. The largest passing run, `pool_workers`, covers 950,000 distinct states.

The violated runs are described with their sources under `findings` in
`PROJECT.json`.

Bounds. `request_safety`: two clients, two names, three objects (a name can be
deleted and made again while the old object's DELETE is queued), three flushes
and two loads or syncs; symmetric in clients and in names/objects as declared in
`MCRequestPath`. `request_liveness`: one name, two objects, two flushes, two
calls, no symmetry. `file_*`: blocks of two bytes, units of two blocks, buffers of two units,
files of a little over two buffers, so appends can fill a buffer exactly, span
two flushes and leave a tail, and reads can start anywhere and cross blocks, units
and segments. `pool_*`: three groups, four zones of two units (groups of unequal
length), partitions of one or two groups, run until the device is used up.
`stripes`: a stripe of two threads with unequal shares beside one of one thread (the
thread counts of levels 12 and 4), flushes of one or two rows, one failing command,
and devices with too few, just enough and plenty of resources. `lifecycle`: two
threads, two names, six calls, so a partition can be made, opened, closed,
opened again and deleted beside a data call. `env`: three keys over two names, enough for a
replaced and a renamed file; three work items. `host_*`: two threads and two keys, one
deleted, one put, so tables overlap or do not; a new database or one with an older
write of the first key in level 1; two writes with every kind of
switch, two other calls (read, snapshot, manual compaction, close) and two faults;
the triggers are at their smallest, so a write can meet the delay, the wait for
`imm_` and the wait for level 0.

Fairness. Liveness assumes weak fairness of the threads inside a call, of the
partition's worker and of the background thread: threads that can run are
eventually scheduled. The locks are only waited for by a bounded number of calls, so
weak fairness suffices; the starvation of a spinning thread by an unbounded
stream of others is not excluded by the code and not claimed. For `WritesReturn` it is
enough that some writer that can go on does. New calls are never assumed.
`CHECK_DEADLOCK FALSE` is set because the process may
exit, a partition may be closed for good and the bounds end behaviours.

## Proofs

`RequestPathProofs` proves for any clients, names, objects and bounds:

| Theorem | States |
| --- | --- |
| `Invariance` | `Spec => []IInv` |
| `TypeSafe` | types |
| `InOrder` | a Userdata's segments are its flushes, in order |
| `Conservation` | what is not appended is exactly what is queued or in hand |
| `WorkerSafe` | the worker never uses a freed object |
| `ClientSafe` | a call's pointer stays valid |
| `NoSelfDeadlock` | `Sync` never spins on `remain_write_req` |
| `DrainedBeforeDone` | a finished worker leaves no accepted request |

They rest on `IdAssumption` and `BoundAssumption` and on one inductive
invariant. `AppendedInOrder` is not inductive: that the next append continues
the file needs the queue to hold exactly the missing flushes, in order
(`QueueInv`, `CoverInv`), and the request in hand to be the first of them
(`CurInv`). That a queued object is alive needs a DELETE to be the last request
of its object, hence the object to be out of the map (`QueueInv`, `MapInv`).
`LockInv` says who holds each `write_lock` and that `remain_write_req` is raised
only by the worker under it, which is why `Sync` cannot find it raised.
`CallInv` keeps the names of calls in progress in the map. `DoneInv` ties the second loop
to a closed partition. TLC checks `IInv` in `request_safety`; the proof has one
lemma for each action or group of like actions: the clients' calls in
`RequestPathCalls`, the steps that change the queue in `RequestPathQueue`, the
worker's other steps and the theorems in `RequestPathProofs`.

Only model-checked: liveness (the prover does not reason about fairness and
ENABLED), `ReadsIsolated`, `ShortReadIsEarly`, and for now everything about the other
modules. What a recursive definition computes for every input is out of the
prover's reach: the arithmetic of `SegmentRead` stays with TLC.

## Not modelled

- Device commands (`ioctl`), identify pages, zone reports and timing measurements.
- Code nothing calls: the READ and READ_RANDOM requests and the whole-file `z_load`;
  `SyncDirIfManifest`; flushes other than whole rows of one stripe, with their uneven
  stripes and rounds in `_write` and `izg_write`; MAN_RESET.
- Memory that is never freed, and what a torn `std::queue` would do.
- The wrap of the 32-bit `global_key`, and a `z_mklp` that fails in
  `Env::ZoadDefault`, whose -1 would become the id of later calls (the budget of a
  new device suffices for its two partitions).
- The second loop of `worker_job` unlocks `io_queue_lock` without holding it; no
  other thread uses that lock, so the models leave it out.
- The bytes a load gets when a load of another file overwrites `read_buf`: `RequestPath`
  has the overwriting, `ZoadFile` one file.
- What follows when two workers take from an emptied zone queue or a call uses a
  freed partition: the models end there.
- The database's formats (tables, logs, manifest), its cache, its repair and
  its options; a process that dies, since no file would survive it.
- The older copies of ZoAD under `src/env` and in `*_old` and variant files, the
  prototypes `env_zone.cc` and `tmp_env_zone.cc`, and `db_bench.cc`.
- The zone garbage collection of the repository's README, which has no code.
- RocksDB. The repository is a copy of RocksDB (more than 370,000 lines) with
  ZoAD and a LevelDB host put beside it; the build files do not mention ZoAD. The
  models cover the part that is particular to this repository, so their share of all
  its lines is small.

## Plan

1. Proofs: the lock table and the work queue of `ZoadEnv`; `BudgetSound` and
   `OpenListExact` of `Lifecycle`; `FileIntact` and the refinement of `AppendOnlyFile`;
   `ZonesConserved` and `SegmentsReadable` for any number of groups and zones;
   `SyncWritesSynced` and `LiveFilesExist` of `DBImpl`.
2. `IoQueue`: push and pop split into steps, as a refinement of the queue of
   `RequestPath`.
