------------------------------ MODULE ZonePool ------------------------------
(***************************************************************************)
(* How the partitions get the zones they write: Identify_IZG deals the     *)
(* zones out to the independent zone groups (IZGs), Partition::alloc_zone  *)
(* takes the next zone of the group at the head of inactive_izg_queue and  *)
(* moves the group to the tail, and Userdata::_write stripes a flush over  *)
(* the partition's last izg_cnt zones (util/zoad/IZG.cpp, Partition.cpp,   *)
(* Userdata.cpp, Zone.cpp).  Every partition has a worker of its own and   *)
(* nothing protects the queues they share.                                 *)
(*                                                                         *)
(* Data.  Sizes are in units of IO_SIZE.  env_zoad.cc flushes a buffer of  *)
(* izg_cnt units, so a flush is one unit for each zone of the stripe, and  *)
(* the zones hold a whole number of units.  Unit j of the f-th flush of p  *)
(* is <<p, f, j>>.  Zones are never reset: deleting a file only marks its  *)
(* intervals.                                                              *)
(***************************************************************************)
EXTENDS Naturals, Sequences, FiniteSets

CONSTANTS
    Part,       \* the partitions
    Level,      \* the io_levels a partition may be made with
    Distance,   \* the number of IZGs
    TotalZone,  \* the number of zones
    ZoneSize,   \* the units a zone holds
    None        \* no group, no zone

ASSUME PoolAssumption ==
    /\ Level \subseteq Nat \ {0}
    /\ Distance \in Nat \ {0} /\ TotalZone \in Nat /\ TotalZone >= Distance
    /\ ZoneSize \in Nat \ {0}
    /\ None \notin Nat

VARIABLES
    available_izg_cnt,  \* IZG.cpp
    inactive_izg_queue, \* IZG.cpp: the groups, by number
    zone_queue,         \* IZG::zone_queue
    izg_cnt,            \* Partition::izg_cnt, 0 before the partition is made
    zone_vector,        \* Partition::zone_vector
    media,              \* the units written to a zone; its length is the wp
    segment,            \* the segments of p's files, with their intervals
    count,              \* flushes p has written
    pc, todo,           \* p's worker: where it is; alloc_zone calls to make
    izg, zone,          \* locals of alloc_zone
    interval,           \* the intervals of the segment p's worker writes
    overlapped,         \* two workers have been in alloc_zone at once
    raced,              \* ... in get_next_zone of one group at once
    ended               \* the end of the process: exit(0), or undefined

poolVars == <<available_izg_cnt, inactive_izg_queue, zone_queue>>
dataVars == <<media, segment, count>>
history == <<overlapped, raced>>
vars == <<poolVars, izg_cnt, zone_vector, dataVars, pc, todo, izg, zone, interval,
          history, ended>>

Zone == 0 .. TotalZone - 1
Izg == 0 .. Distance - 1

GroupOf(z) == z % Distance

-----------------------------------------------------------------------------
(* Identify_IZG: group i gets the zones i, i + distance, i + 2 distance... *)
ZonesOf(i) ==
    [k \in 1 .. (TotalZone - i + Distance - 1) \div Distance |->
        i + (k - 1) * Distance]

Init ==
    /\ available_izg_cnt = Distance
    /\ inactive_izg_queue = [k \in 1 .. Distance |-> k - 1]
    /\ zone_queue = [i \in Izg |-> ZonesOf(i)]
    /\ izg_cnt = [p \in Part |-> 0]
    /\ zone_vector = [p \in Part |-> <<>>]
    /\ media = [z \in Zone |-> <<>>]
    /\ segment = [p \in Part |-> {}]
    /\ count = [p \in Part |-> 0]
    /\ pc = [p \in Part |-> "none"]
    /\ todo = [p \in Part |-> 0]
    /\ izg = [p \in Part |-> None] /\ zone = [p \in Part |-> None]
    /\ interval = [p \in Part |-> <<>>]
    /\ overlapped = FALSE /\ raced = FALSE
    /\ ended = "no"

(* z_mklp with QOS_PARTITION: alloc_izg takes iolevel groups off the       *)
(* budget, or refuses.                                                     *)
MkLp(p, iolevel) ==
    /\ pc[p] = "none"
    /\ iolevel <= available_izg_cnt
    /\ available_izg_cnt' = available_izg_cnt - iolevel
    /\ izg_cnt' = [izg_cnt EXCEPT ![p] = iolevel]
    /\ pc' = [pc EXCEPT ![p] = "idle"]
    /\ UNCHANGED <<inactive_izg_queue, zone_queue, zone_vector, dataVars, todo,
                   izg, zone, interval, history, ended>>

-----------------------------------------------------------------------------
(* _write, up to the allocation.                                           *)

Full(z) == Len(media[z]) >= ZoneSize

(* The places of p's last izg_cnt zones in its zone_vector.                *)
Stripe(p) == Len(zone_vector[p]) - izg_cnt[p] + 1 .. Len(zone_vector[p])

(* Mutant: one zone too few for an empty partition.                        *)
NeededFewer(p) ==
    IF zone_vector[p] = <<>> THEN izg_cnt[p] - 1
    ELSE Cardinality({k \in Stripe(p) : Full(zone_vector[p][k])})

(* A first stripe, or a new zone for every full one of the last stripe.    *)
Needed(p) ==
    IF zone_vector[p] = <<>> THEN izg_cnt[p]
    ELSE Cardinality({k \in Stripe(p) : Full(zone_vector[p][k])})

Allocating(p) == pc[p] \in {"front", "test", "take", "shift", "pop", "push"}

WriteBegin(p) ==
    /\ pc[p] = "idle"
    /\ todo' = [todo EXCEPT ![p] = Needed(p)]
    /\ pc' = [pc EXCEPT ![p] = IF Needed(p) > 0 THEN "front" ELSE "write"]
    /\ overlapped' = (overlapped \/ (Needed(p) > 0 /\ \E q \in Part : Allocating(q)))
    /\ UNCHANGED <<poolVars, izg_cnt, zone_vector, dataVars, izg, zone, interval,
                   raced, ended>>

-----------------------------------------------------------------------------
(* alloc_zone and the get_next_zone it calls: one step for each access to  *)
(* what all partitions share.                                              *)

AllocFront(p) ==
    /\ pc[p] = "front"
    /\ inactive_izg_queue # <<>>
    /\ izg' = [izg EXCEPT ![p] = Head(inactive_izg_queue)]
    /\ pc' = [pc EXCEPT ![p] = "test"]
    /\ UNCHANGED <<poolVars, izg_cnt, zone_vector, dataVars, todo, zone, interval,
                   history, ended>>

(* get_next_zone finds the group's queue not empty.                        *)
NextZoneTest(p) ==
    /\ pc[p] = "test"
    /\ zone_queue[izg[p]] # <<>>
    /\ raced' = (raced \/ \E q \in Part :
                    pc[q] \in {"take", "shift"} /\ izg[q] = izg[p])
    /\ pc' = [pc EXCEPT ![p] = "take"]
    /\ UNCHANGED <<poolVars, izg_cnt, zone_vector, dataVars, todo, izg, zone,
                   interval, overlapped, ended>>

(* The group is used up: alloc_zone returns -1 and _write calls exit(0).   *)
AllocFails(p) ==
    /\ pc[p] = "test"
    /\ zone_queue[izg[p]] = <<>>
    /\ ended' = "exit"
    /\ UNCHANGED <<poolVars, izg_cnt, zone_vector, dataVars, pc, todo, izg, zone,
                   interval, history>>

(* front() of the group's queue; another worker may have emptied it since. *)
NextZoneTake(p) ==
    /\ pc[p] = "take"
    /\ zone_queue[izg[p]] # <<>>
    /\ zone' = [zone EXCEPT ![p] = Head(zone_queue[izg[p]])]
    /\ pc' = [pc EXCEPT ![p] = "shift"]
    /\ UNCHANGED <<poolVars, izg_cnt, zone_vector, dataVars, todo, izg, interval,
                   history, ended>>

(* Mutant: the zone stays in the group's queue.                            *)
NextZoneShiftNot(p) ==
    /\ pc[p] = "shift"
    /\ pc' = [pc EXCEPT ![p] = "pop"]
    /\ UNCHANGED <<poolVars, izg_cnt, zone_vector, dataVars, todo, izg, zone,
                   interval, history, ended>>

(* pop() of the group's queue: it drops the zone taken, or, when another   *)
(* worker has taken the same one and popped before, the zone after it.     *)
NextZoneShift(p) ==
    /\ pc[p] = "shift"
    /\ zone_queue[izg[p]] # <<>>
    /\ zone_queue' = [zone_queue EXCEPT ![izg[p]] = Tail(@)]
    /\ pc' = [pc EXCEPT ![p] = "pop"]
    /\ UNCHANGED <<available_izg_cnt, inactive_izg_queue, izg_cnt, zone_vector,
                   dataVars, todo, izg, zone, interval, history, ended>>

(* front() or pop() of a queue that another worker has emptied since the   *)
(* test: undefined behaviour.                                              *)
NextZoneGone(p) ==
    /\ pc[p] \in {"take", "shift"}
    /\ zone_queue[izg[p]] = <<>>
    /\ ended' = "undefined"
    /\ UNCHANGED <<poolVars, izg_cnt, zone_vector, dataVars, pc, todo, izg, zone,
                   interval, history>>

(* Mutant: the head of the queue stays where it is.                        *)
AllocPopNot(p) ==
    /\ pc[p] = "pop"
    /\ pc' = [pc EXCEPT ![p] = "push"]
    /\ UNCHANGED <<poolVars, izg_cnt, zone_vector, dataVars, todo, izg, zone,
                   interval, history, ended>>

AllocPop(p) ==
    /\ pc[p] = "pop"
    /\ inactive_izg_queue # <<>>
    /\ inactive_izg_queue' = Tail(inactive_izg_queue)
    /\ pc' = [pc EXCEPT ![p] = "push"]
    /\ UNCHANGED <<available_izg_cnt, zone_queue, izg_cnt, zone_vector, dataVars,
                   todo, izg, zone, interval, history, ended>>

(* Mutant: the group goes back to the head of the queue.                   *)
AllocPushFront(p) ==
    /\ pc[p] = "push"
    /\ inactive_izg_queue' = <<izg[p]>> \o inactive_izg_queue
    /\ zone_vector' = [zone_vector EXCEPT ![p] = Append(@, zone[p])]
    /\ izg' = [izg EXCEPT ![p] = None] /\ zone' = [zone EXCEPT ![p] = None]
    /\ todo' = [todo EXCEPT ![p] = @ - 1]
    /\ pc' = [pc EXCEPT ![p] = IF todo[p] > 1 THEN "front" ELSE "write"]
    /\ UNCHANGED <<available_izg_cnt, zone_queue, izg_cnt, dataVars, interval,
                   history, ended>>

AllocPush(p) ==
    /\ pc[p] = "push"
    /\ inactive_izg_queue' = Append(inactive_izg_queue, izg[p])
    /\ zone_vector' = [zone_vector EXCEPT ![p] = Append(@, zone[p])]
    /\ izg' = [izg EXCEPT ![p] = None] /\ zone' = [zone EXCEPT ![p] = None]
    /\ todo' = [todo EXCEPT ![p] = @ - 1]
    /\ pc' = [pc EXCEPT ![p] = IF todo[p] > 1 THEN "front" ELSE "write"]
    /\ UNCHANGED <<available_izg_cnt, zone_queue, izg_cnt, dataVars, interval,
                   history, ended>>

-----------------------------------------------------------------------------
(* The rest of _write: an interval at the wp of every zone of the stripe,  *)
(* and izg_write, whose threads write a unit to each and are joined.       *)

StripeZone(p, j) == zone_vector[p][Len(zone_vector[p]) - izg_cnt[p] + j]

(* Mutant: the interval begins where the zone's wp is after the write.     *)
IntervalsAfter(p) ==
    [j \in 1 .. izg_cnt[p] |->
        [zone |-> StripeZone(p, j), start |-> Len(media[StripeZone(p, j)]) + 1]]

Intervals(p) ==
    [j \in 1 .. izg_cnt[p] |->
        [zone |-> StripeZone(p, j), start |-> Len(media[StripeZone(p, j)])]]

PlaceIntervals(p) ==
    /\ pc[p] = "write"
    /\ \A k \in Stripe(p) : ~Full(zone_vector[p][k])
    /\ interval' = [interval EXCEPT ![p] = Intervals(p)]
    /\ pc' = [pc EXCEPT ![p] = "units"]
    /\ UNCHANGED <<poolVars, izg_cnt, zone_vector, dataVars, todo, izg, zone,
                   history, ended>>

(* A zone of the stripe is full: the loops skip it and count it twice, so, *)
(* whatever is allocated after them, the list of free sizes is shorter     *)
(* than izg_write takes it to be, and it writes past its end.              *)
PlaceSkips(p) ==
    /\ pc[p] = "write"
    /\ \E k \in Stripe(p) : Full(zone_vector[p][k])
    /\ ended' = "undefined"
    /\ UNCHANGED <<poolVars, izg_cnt, zone_vector, dataVars, pc, todo, izg, zone,
                   interval, history>>

(* The device refuses a unit beyond the end of a zone; nobody looks at the *)
(* result.                                                                 *)
WriteUnits(p) ==
    /\ pc[p] = "units"
    /\ count' = [count EXCEPT ![p] = @ + 1]
    /\ segment' = [segment EXCEPT ![p] =
                      @ \cup {[id |-> count[p] + 1, interval |-> interval[p]]}]
    /\ media' = [z \in Zone |->
          IF ~Full(z) /\ \E j \in DOMAIN interval[p] : interval[p][j].zone = z
          THEN Append(media[z], <<p, count[p] + 1,
                  CHOOSE j \in DOMAIN interval[p] : interval[p][j].zone = z>>)
          ELSE media[z]]
    /\ interval' = [interval EXCEPT ![p] = <<>>]
    /\ pc' = [pc EXCEPT ![p] = "idle"]
    /\ UNCHANGED <<poolVars, izg_cnt, zone_vector, todo, izg, zone, history, ended>>

(* Userdata::Delete: a segment and its intervals are given up.             *)
Invalid(p) ==
    /\ pc[p] = "idle"
    /\ \E s \in segment[p] : segment' = [segment EXCEPT ![p] = @ \ {s}]
    /\ UNCHANGED <<poolVars, izg_cnt, zone_vector, media, count, pc, todo, izg,
                   zone, interval, history, ended>>

-----------------------------------------------------------------------------
AllocStep(p) ==
    \/ AllocFront(p)
    \/ NextZoneTest(p) \/ NextZoneTake(p) \/ NextZoneShift(p) \/ NextZoneGone(p)
    \/ AllocFails(p) \/ AllocPop(p) \/ AllocPush(p)

WorkerStep(p) ==
    \/ WriteBegin(p)
    \/ AllocStep(p)
    \/ PlaceIntervals(p) \/ PlaceSkips(p)
    \/ WriteUnits(p) \/ Invalid(p)

Next ==
    /\ ended = "no"
    /\ \E p \in Part : WorkerStep(p) \/ \E iolevel \in Level : MkLp(p, iolevel)

Spec == Init /\ [][Next]_vars

-----------------------------------------------------------------------------
Unit == Part \X Nat \X Nat
IntervalList == Seq([zone : Zone, start : Nat])

(* Every variable keeps its type; no zone is written past its end.         *)
TypeOK ==
    /\ available_izg_cnt \in 0 .. Distance
    /\ inactive_izg_queue \in Seq(Izg)
    /\ zone_queue \in [Izg -> Seq(Zone)]
    /\ izg_cnt \in [Part -> 0 .. Distance]
    /\ zone_vector \in [Part -> Seq(Zone)]
    /\ media \in [Zone -> Seq(Unit)]
    /\ \A z \in Zone : Len(media[z]) <= ZoneSize
    /\ \A p \in Part : \A s \in segment[p] :
          s.id \in Nat /\ s.interval \in IntervalList
    /\ count \in [Part -> Nat]
    /\ pc \in [Part -> {"none", "idle", "front", "test", "take", "shift", "pop",
                        "push", "write", "units"}]
    /\ todo \in [Part -> Nat]
    /\ izg \in [Part -> Izg \cup {None}] /\ zone \in [Part -> Zone \cup {None}]
    /\ interval \in [Part -> IntervalList]
    /\ overlapped \in BOOLEAN /\ raced \in BOOLEAN
    /\ ended \in {"no", "exit", "undefined"}

Occurs(z, seqs) ==
    UNION {{<<x, k>> : k \in {k \in DOMAIN seqs[x] : seqs[x][k] = z}} :
              x \in DOMAIN seqs}

(* A zone a worker has read from a queue is still there until it pops.     *)
Claims(z) == {p \in Part : zone[p] = z /\ pc[p] \in {"pop", "push"}}

(* Until two workers have been in get_next_zone of the same group at once, *)
(* a zone is in exactly one place, once: in the queue of a group, in the   *)
(* hands of a worker that allocates it, or in the zone_vector of one       *)
(* partition.  So no zone is lost and no two partitions write one zone,    *)
(* also when their workers are in alloc_zone at once, rotate the groups    *)
(* out of order or have read the same group at its head.  (Within          *)
(* get_next_zone nothing separates the test, front() and pop(), and two    *)
(* workers can take one zone and drop the next.)                           *)
ZonesConserved ==
    /\ TypeOK
    /\ ~raced => \A z \in Zone :
          Cardinality(Occurs(z, zone_queue))
            + Cardinality(Occurs(z, zone_vector)) + Cardinality(Claims(z)) = 1

(* Under the same proviso no worker gets to undefined behaviour: when      *)
(* _write comes to place a flush, every zone of the stripe has room for    *)
(* its unit, so that its skipping of full zones, which derails izg_write,  *)
(* and its further rounds of allocation are not reached; between writes a  *)
(* partition has no zones or a whole stripe; and no queue is popped empty. *)
StripeReady ==
    ~raced =>
        /\ \A p \in Part :
              /\ pc[p] \in {"write", "units"} =>
                    Stripe(p) \subseteq DOMAIN zone_vector[p]
                    /\ \A k \in Stripe(p) : ~Full(zone_vector[p][k])
              /\ pc[p] = "idle" =>
                    zone_vector[p] = <<>> \/ Len(zone_vector[p]) >= izg_cnt[p]
        /\ ended # "undefined"

(* A flush is striped over zones of different groups, which do not         *)
(* disturb each other, as long as no two workers have been in alloc_zone   *)
(* at the same time.                                                       *)
StripeSpread ==
    \A p \in Part : pc[p] = "write" /\ ~overlapped =>
        \A k, l \in Stripe(p) \cap DOMAIN zone_vector[p] :
            GroupOf(zone_vector[p][k]) = GroupOf(zone_vector[p][l]) => k = l

(* The unit an interval points at is the one that was written for it.  The *)
(* starts are recorded before the writes; until two workers have been in   *)
(* get_next_zone of one group at once they agree with the write pointers   *)
(* at the time of the writes, and stay right while other files and         *)
(* partitions are written and deleted.                                     *)
SegmentsReadable ==
    ~raced => \A p \in Part : \A s \in segment[p] : \A j \in DOMAIN s.interval :
        LET v == s.interval[j]
        IN  /\ v.start + 1 \in DOMAIN media[v.zone]
            /\ media[v.zone][v.start + 1] = <<p, s.id, j>>

(* The process gives up for want of a zone only when no group has any      *)
(* left, though alloc_zone looks no further than the group at the head, as *)
(* long as no two workers have been in alloc_zone at the same time.        *)
FailsOnlyWhenUsedUp ==
    ended = "exit" /\ ~overlapped => \A i \in Izg : zone_queue[i] = <<>>

(* Two partitions never write zones of the same group.                     *)
PartitionsIsolated ==
    \A p, q \in Part : p # q =>
        \A k \in DOMAIN zone_vector[p] : \A l \in DOMAIN zone_vector[q] :
            GroupOf(zone_vector[p][k]) # GroupOf(zone_vector[q][l])
=============================================================================
