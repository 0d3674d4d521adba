------------------------- MODULE RequestPathCalls -------------------------
(***************************************************************************)
(* A client inside z_load or z_sync keeps the inductive invariant IInv of  *)
(* RequestPath: its steps touch only write_lock, read_buf and the client's *)
(* own state, so that only the types, LockInv and CallInv are at stake     *)
(* (CoreFrame).  Also what all the proofs use of sequences and frames.     *)
(***************************************************************************)
EXTENDS RequestPath, TLAPS

(* What the proofs use of sequences.                                       *)
LEMMA EmptyFacts ==
    ASSUME NEW T
    PROVE  /\ <<>> \in Seq(T) /\ Len(<<>>) = 0
           /\ \A q \in Seq(T) : q # <<>> => Len(q) \in Nat \ {0}
  OBVIOUS

LEMMA LenFacts ==
    ASSUME NEW T, NEW q \in Seq(T)
    PROVE  Len(q) \in Nat /\ DOMAIN q = 1 .. Len(q)
  OBVIOUS

LEMMA ElementFact ==
    ASSUME NEW T, NEW q \in Seq(T), NEW i \in 1 .. Len(q)
    PROVE  q[i] \in T
  OBVIOUS

LEMMA AppendFacts ==
    ASSUME NEW T, NEW q \in Seq(T), NEW e \in T
    PROVE  /\ Append(q, e) \in Seq(T) /\ Len(Append(q, e)) = Len(q) + 1
           /\ \A i \in 1 .. Len(q) : Append(q, e)[i] = q[i]
           /\ Append(q, e)[Len(q) + 1] = e
  OBVIOUS

LEMMA HeadTailFacts ==
    ASSUME NEW T, NEW q \in Seq(T), q # <<>>
    PROVE  /\ Head(q) = q[1] /\ Head(q) \in T
           /\ Tail(q) \in Seq(T) /\ Len(Tail(q)) = Len(q) - 1
           /\ \A i \in 1 .. Len(Tail(q)) : Tail(q)[i] = q[i + 1]
  OBVIOUS

(* The conjuncts of IInv that no step of a client's load or sync disturbs. *)
CoreInv ==
    /\ QueueInv /\ CoverInv /\ CurInv /\ MapInv
    /\ DoneInv /\ AcceptedBeforeDone /\ AppendedInOrder /\ WorkerTouchesLive

(* The variables CoreInv depends on.                                       *)
coreVars == <<status, io_queue, userdata_map, state, file_segment, flushed,
              workerVars>>

(* The queue's invariants are kept by a step that neither queues nor takes *)
(* a request, and that leaves the objects of queued requests as they are.  *)
LEMMA QueueFrame ==
    ASSUME QueueInv, UNCHANGED <<io_queue, userdata_map, flushed>>,
           \A x \in Obj : Applied(x)' = Applied(x),
           \A i \in 1 .. Len(io_queue) : \A x \in Obj :
              io_queue[i].data = x => state'[x] = state[x]
    PROVE  QueueInv'
<1> SUFFICES ASSUME NEW i \in 1 .. Len(io_queue), NEW x \in Obj,
       io_queue[i].data = x
      PROVE  QueuedOK(i, x)'
  BY DEF QueueInv
<1>1. QueuedOK(i, x) BY DEF QueueInv
<1>2. state'[x] = state[x] /\ Applied(x)' = Applied(x) OBVIOUS
<1> QED BY <1>1, <1>2 DEF QueuedOK

(* The same for the queue's cover of the flushes to come.                  *)
LEMMA CoverFrame ==
    ASSUME CoverInv, UNCHANGED <<io_queue, flushed>>,
           \A x \in Obj : Applied(x)' = Applied(x)
    PROVE  CoverInv'
<1>1. \A i, x, k : IsFlush(i, x, k)' = IsFlush(i, x, k) BY DEF IsFlush
<1> QED BY <1>1 DEF CoverInv

(* CoreInv is kept by a step that leaves its variables alone.              *)
LEMMA CoreFrame == CoreInv /\ UNCHANGED coreVars => CoreInv'
<1> SUFFICES ASSUME CoreInv, UNCHANGED coreVars PROVE CoreInv'
  OBVIOUS
<1>1. UNCHANGED <<status, io_queue, userdata_map, state, file_segment, flushed,
       wpc, cur, draining>>
  BY DEF coreVars, workerVars
<1>2. \A d \in Obj : Applied(d)' = Applied(d)
  BY <1>1 DEF Applied, InHand
<1>3. QueueInv' /\ CoverInv'
  BY <1>1, <1>2, QueueFrame, CoverFrame DEF CoreInv
<1>4. CurInv'
  BY <1>1 DEF CoreInv, CurInv
<1>5. MapInv' /\ DoneInv' /\ AcceptedBeforeDone' /\ AppendedInOrder' /\ WorkerTouchesLive'
  BY <1>1 DEF CoreInv, MapInv, DoneInv, AcceptedBeforeDone, AppendedInOrder,
         WorkerTouchesLive
<1> QED BY <1>3, <1>4, <1>5 DEF CoreInv

(* LockInv is kept by a step that leaves its variables alone.              *)
LEMMA LockFrame ==
    ASSUME LockInv,
           UNCHANGED <<write_lock, remain_write_req, wpc, cur, pc, ptr>>
    PROVE  LockInv'
<1>1. \A d \in Obj : LockOK(d)' = LockOK(d) BY DEF LockOK
<1> QED BY <1>1 DEF LockInv

(* io_queue.push: the queue grows by one request at its end.               *)
LEMMA PushFacts ==
    ASSUME TypeOK, NEW e \in Request, io_queue' = Append(io_queue, e)
    PROVE  /\ Len(io_queue) \in Nat
           /\ Len(io_queue') = Len(io_queue) + 1
           /\ io_queue' \in Seq(Request)
           /\ \A i \in 1 .. Len(io_queue) : io_queue'[i] = io_queue[i] /\ io_queue[i] \in Request
           /\ io_queue'[Len(io_queue) + 1] = e
  BY AppendFacts DEF TypeOK

(* Positions of a sequence that grows from k to k + 1 elements.            *)
LEMMA LastOrBefore ==
    ASSUME NEW k \in Nat, NEW i \in 1 .. k + 1
    PROVE  i \in 1 .. k \/ i = k + 1
  OBVIOUS

LEMMA BetweenBefore ==
    ASSUME NEW k \in Nat, NEW i \in 1 .. k, NEW j \in i + 1 .. k + 1, j # k + 1
    PROVE  j \in 1 .. k /\ j \in i + 1 .. k
  OBVIOUS

(* An index of the queue after a push is an old one or the new one.        *)
LEMMA PushIndex ==
    ASSUME Len(io_queue) \in Nat, Len(io_queue') = Len(io_queue) + 1
    PROVE  /\ \A i \in 1 .. Len(io_queue') :
                 i = Len(io_queue) + 1 \/ i \in 1 .. Len(io_queue)
           /\ \A i \in 1 .. Len(io_queue) : i \in 1 .. Len(io_queue')
  OBVIOUS

(* front and pop: the worker holds the first request, the others move up.  *)
LEMMA PopFacts ==
    ASSUME TypeOK, Pop
    PROVE  /\ Len(io_queue) \in Nat \ {0}
           /\ Len(io_queue') = Len(io_queue) - 1
           /\ io_queue' \in Seq(Request)
           /\ cur' = io_queue[1] /\ cur' \in Request
           /\ \A i \in 1 .. Len(io_queue) : io_queue[i] \in Request
           /\ \A i \in 1 .. Len(io_queue) - 1 : io_queue'[i] = io_queue[i + 1]
  BY HeadTailFacts, EmptyFacts DEF TypeOK, Pop

(* IInv in the four parts the proofs handle separately.                    *)
LEMMA IFacts ==
    ASSUME IInv
    PROVE TypeOK /\ CoreInv /\ LockInv /\ CallInv
  BY DEF IInv, CoreInv

(* IInv' from its four parts.                                              *)
LEMMA Combine ==
    ASSUME TypeOK', CoreInv', LockInv', CallInv'
    PROVE IInv'
  BY DEF IInv, CoreInv

(* A step in which the process exits changes nothing else.                 *)
LEMMA Exits ==
    ASSUME IInv, UNCHANGED <<lpVars, objVars, workerVars, clientVars, flushes,
           calls>>, exited' = TRUE
    PROVE  IInv'
<1> USE DEF lpVars, objVars, workerVars, clientVars
<1>1. TypeOK' BY DEF IInv, TypeOK
<1>2. CoreInv' BY CoreFrame, IFacts DEF coreVars
<1>3. LockInv' BY DEF IInv, LockInv, LockOK
<1>4. CallInv' BY DEF IInv, CallInv
<1> QED BY <1>1, <1>2, <1>3, <1>4, Combine

(* The pointer of a call that has made its lookup is an object.            *)
LEMMA PtrTyped ==
    ASSUME TypeOK, CallInv, NEW c \in Client, pc[c] \notin {"idle", "sy_get"}
    PROVE  ptr[c] \in Obj
  BY DEF TypeOK, CallInv

(* ReadLock and SyncLock: a client's spin on write_lock ends.              *)
LEMMA TakeLock ==
    ASSUME IInv, NEW c \in Client, NEW l \in {"rd_hold", "sy_hold"},
           pc[c] \in {"rd_lock", "sy_lock"}, Acquire(ptr[c], c), Goto(c, l),
           UNCHANGED <<lpVars, state, file_segment, remain_write_req, flushed,
                   workerVars, nm, ptr, off, goal, flushes, calls, exited>>
    PROVE IInv'
<1> USE DEF lpVars, workerVars
<1>0. TypeOK /\ LockInv /\ CallInv BY IFacts
<1>1. ptr[c] \in Obj BY <1>0, PtrTyped
<1>2. TypeOK' BY <1>0, <1>1 DEF TypeOK, Acquire, Goto
<1>3. CoreInv' BY CoreFrame, IFacts DEF coreVars
<1>4. LockInv'
  BY <1>0, <1>1, IdAssumption DEF LockInv, TypeOK, Acquire, Goto, LockOK
<1>5. CallInv' BY <1>0 DEF CallInv, TypeOK, Goto
<1> QED BY <1>2, <1>3, <1>4, <1>5, Combine

(* ReadWhole, ReadCopy, SyncReturn: a client clears write_lock and         *)
(* returns.                                                                *)
LEMMA GiveBack ==
    ASSUME IInv, NEW c \in Client,
           pc[c] \in {"rd_hold", "rd_copy", "sy_hold"}, Release(ptr[c]), Return(c),
           UNCHANGED <<lpVars, state, file_segment, remain_write_req, flushed,
                       workerVars, flushes, calls, exited>>
    PROVE IInv'
<1> USE DEF lpVars, workerVars
<1>0. TypeOK /\ LockInv /\ CallInv BY IFacts
<1>1. ptr[c] \in Obj BY <1>0, PtrTyped
<1>2. TypeOK' BY <1>0, <1>1 DEF TypeOK, Release, Return, Goto
<1>3. CoreInv' BY CoreFrame, IFacts DEF coreVars
<1>4. write_lock[ptr[c]] = c BY <1>0, <1>1 DEF LockInv, LockOK
<1>5. LockInv'
  <2> SUFFICES ASSUME NEW d \in Obj
        PROVE  LockOK(d)'
    BY DEF LockInv, LockOK
  <2>1. write_lock'[d] = IF d = ptr[c] THEN Null ELSE write_lock[d]
    BY <1>0, <1>1 DEF TypeOK, Release
  <2>2. write_lock'[d] = Worker <=> write_lock[d] = Worker
    BY <1>4, <2>1, IdAssumption
  <2>3. ASSUME NEW x \in Client
        PROVE write_lock'[d] = x <=> pc'[x] \in {"rd_hold", "rd_copy", "sy_hold"} /\ ptr'[x] = d
    <3>1. CASE x = c
      BY <3>1, <1>0, <1>4, <2>1, IdAssumption
          DEF LockInv, TypeOK, Return, Goto, LockOK
    <3>2. CASE x # c
      BY <3>2, <1>0, <1>1, <1>4, <2>1, IdAssumption
          DEF LockInv, TypeOK, Return, Goto, LockOK
    <3> QED BY <3>1, <3>2
  <2> QED BY <1>0, <2>2, <2>3 DEF LockInv, LockOK
<1>6. CallInv' BY <1>0 DEF CallInv, TypeOK, Return, Goto
<1> QED BY <1>2, <1>3, <1>5, <1>6, Combine

(* The lookup of _z_load keeps IInv.                                       *)
LEMMA LoadStep ==
    ASSUME IInv, NEW c \in Client, NEW n \in Name, Load(c, n)
    PROVE  IInv'
<1> USE DEF lpVars, workerVars, objVars
<1>0. TypeOK /\ LockInv /\ CallInv BY IFacts
<1>1. TypeOK' BY <1>0, BoundAssumption DEF TypeOK, Load, Goto
<1>2. CoreInv' BY CoreFrame, IFacts DEF coreVars, Load
<1>3. LockInv' BY <1>0 DEF LockInv, TypeOK, Load, Goto, LockOK
<1>4. CallInv' BY <1>0 DEF CallInv, TypeOK, Load, Goto
<1> QED BY <1>1, <1>2, <1>3, <1>4, Combine

(* The lookup of _z_sync keeps IInv.                                       *)
LEMMA SyncStep ==
    ASSUME IInv, NEW c \in Client, NEW n \in Name, Sync(c, n)
    PROVE  IInv'
<1> USE DEF lpVars, workerVars, objVars
<1>0. TypeOK /\ LockInv /\ CallInv BY IFacts
<1>1. TypeOK' BY <1>0, BoundAssumption DEF TypeOK, Sync, Goto
<1>2. CoreInv' BY CoreFrame, IFacts DEF coreVars, Sync
<1>3. LockInv' BY <1>0 DEF LockInv, TypeOK, Sync, Goto, LockOK
<1>4. CallInv' BY <1>0 DEF CallInv, TypeOK, Sync, Goto
<1> QED BY <1>1, <1>2, <1>3, <1>4, Combine

(* The unlocked test of the offset keeps IInv.                             *)
LEMMA ReadCheckStep == ASSUME IInv, NEW c \in Client, ReadCheck(c) PROVE IInv'
<1> USE DEF lpVars, workerVars, objVars
<1>0. TypeOK /\ LockInv /\ CallInv BY IFacts
<1>1. TypeOK' 
  <2>1. CASE Return(c) BY <1>0, <2>1 DEF TypeOK, ReadCheck, Return, Goto
  <2>2. CASE Goto(c, "rd_lock") /\ UNCHANGED <<nm, ptr, off, goal>>
    BY <1>0, <2>2 DEF TypeOK, ReadCheck, Goto
  <2> QED BY <2>1, <2>2 DEF ReadCheck
<1>2. CoreInv' BY CoreFrame, IFacts DEF coreVars, ReadCheck
<1>3. LockInv' BY <1>0 DEF LockInv, TypeOK, ReadCheck, Goto, Return, LockOK
<1>4. CallInv' BY Zenon, <1>0 DEF CallInv, TypeOK, ReadCheck, Goto, Return
<1> QED BY <1>1, <1>2, <1>3, <1>4, Combine

(* The read into read_buf keeps IInv.                                      *)
LEMMA ReadDeviceStep == ASSUME IInv, NEW c \in Client, ReadDevice(c) PROVE IInv'
<1> USE DEF lpVars, workerVars, objVars
<1>0. TypeOK /\ LockInv /\ CallInv BY IFacts
<1>5. ptr[c] \in Obj BY <1>0, PtrTyped DEF ReadDevice
<1>6. file_segment[ptr[c]][off[c] + 1] \in Nat
  BY <1>0, <1>5, ElementFact DEF TypeOK, ReadDevice
<1>1. TypeOK' BY Zenon, <1>0, <1>5, <1>6 DEF TypeOK, ReadDevice, Goto
<1>2. CoreInv' BY CoreFrame, IFacts DEF coreVars, ReadDevice
<1>3. LockInv'
  <2>1. \A x \in Client : /\ ptr'[x] = ptr[x]
                          /\ pc'[x] = IF x = c THEN "rd_copy" ELSE pc[x]
    BY <1>0 DEF TypeOK, ReadDevice, Goto
  <2>2. pc[c] = "rd_hold" /\ UNCHANGED <<write_lock, remain_write_req, wpc, cur>>
    BY DEF ReadDevice
  <2> QED BY <1>0, <2>1, <2>2 DEF LockInv, LockOK
<1>4. CallInv' BY Zenon, <1>0 DEF CallInv, TypeOK, ReadDevice, Goto
<1> QED BY <1>1, <1>2, <1>3, <1>4, Combine

(* _z_sync's late fetch of the pointer keeps IInv.                         *)
LEMMA SyncGetStep == ASSUME IInv, NEW c \in Client, SyncGet(c) PROVE IInv'
<1> USE DEF lpVars, workerVars, objVars
<1>0. TypeOK /\ LockInv /\ CallInv BY IFacts
<1>1. TypeOK' BY <1>0 DEF TypeOK, SyncGet, Goto, CallInv
<1>2. CoreInv' BY CoreFrame, IFacts DEF coreVars, SyncGet
<1>3. LockInv' BY <1>0 DEF LockInv, TypeOK, SyncGet, Goto, LockOK
<1>4. CallInv' BY <1>0 DEF CallInv, TypeOK, SyncGet, Goto
<1> QED BY <1>1, <1>2, <1>3, <1>4, Combine
=============================================================================
