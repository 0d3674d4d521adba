------------------------- MODULE RequestPathQueue -------------------------
(***************************************************************************)
(* The steps that change io_queue keep IInv: z_flush and z_del, which push *)
(* under the partition's lock, and the worker's pop.                       *)
(***************************************************************************)
EXTENDS RequestPathCalls

(* Applied counts.                                                         *)
LEMMA AppliedNat == ASSUME TypeOK, NEW d \in Obj PROVE Applied(d) \in Nat
  BY LenFacts DEF TypeOK, Applied

(* What z_flush does to userdata_map when it writes to d: nothing, or it   *)
(* puts d under one free name.                                             *)
MapsTo(d) ==
    /\ userdata_map' \in [Name -> Obj \cup {Null}]
    /\ \A n \in Name : \/ userdata_map'[n] = userdata_map[n]
                       \/ userdata_map'[n] = d /\ userdata_map[n] = Null
    /\ \A m, n \in Name :
          userdata_map'[m] = userdata_map'[n] /\ userdata_map'[n] # Null => m = n

(* No DELETE of d is queued or in the worker's hands.                      *)
NoDelete(d) ==
    /\ \A i \in 1 .. Len(io_queue) :
          io_queue[i].data = d => io_queue[i].rw = "WRITE"
    /\ wpc \in {"serve", "delete", "free"} /\ cur.rw = "DELETE" => cur.data # d

(* Queueing a WRITE for d keeps IInv, whether d is in the map already or   *)
(* has just been put there.                                                *)
LEMMA FlushToStep ==
    ASSUME IInv, NEW d \in Obj, FlushTo(d), flushes < MaxFlush,
           state[d] \in {"live", "unused"}, state' = [state EXCEPT ![d] = "live"],
           MapsTo(d), NoDelete(d)
    PROVE IInv'
<1> USE DEF workerVars, clientVars
<1>0. TypeOK /\ LockInv /\ CallInv /\ CoreInv BY IFacts
<1> DEFINE e == [rw |-> "WRITE", data |-> d, seq |-> flushed[d] + 1, ok |-> status = "OPEN"]
<1>1. e \in Request /\ e.rw = "WRITE" /\ e.data = d /\ e.seq = flushed[d] + 1
  BY <1>0 DEF TypeOK, Request
<1>2. io_queue' = Append(io_queue, e) BY DEF FlushTo
<1> HIDE DEF e
<1>3. /\ Len(io_queue) \in Nat
      /\ Len(io_queue') = Len(io_queue) + 1
      /\ io_queue' \in Seq(Request)
      /\ \A i \in 1 .. Len(io_queue) : io_queue'[i] = io_queue[i] /\ io_queue[i] \in Request
      /\ io_queue'[Len(io_queue) + 1] = e
  BY <1>0, <1>1, <1>2, PushFacts
<1>4. \A x \in Obj : Applied(x)' = Applied(x) /\ Applied(x) \in Nat
  BY Zenon, <1>0, AppliedNat DEF FlushTo, Applied, InHand
<1>5. \A x \in Obj : flushed'[x] = (IF x = d THEN flushed[x] + 1 ELSE flushed[x]) /\ flushed[x] \in Nat
  <2>1. flushed \in [Obj -> Nat] /\ flushed' = [flushed EXCEPT ![d] = @ + 1]
    BY <1>0 DEF FlushTo, TypeOK
  <2> QED BY <2>1
<1>6. /\ state' \in [Obj -> {"unused", "live", "gutted", "freed"}]
      /\ \A x \in Obj : state'[x] = IF x = d THEN "live" ELSE state[x]
  <2>1. state \in [Obj -> {"unused", "live", "gutted", "freed"}] BY <1>0 DEF TypeOK
  <2> QED BY <2>1
<1>7. TypeOK'
  <2>1. flushed' \in [Obj -> Nat]
    <3>1. flushed \in [Obj -> Nat] /\ flushed' = [flushed EXCEPT ![d] = @ + 1]
      BY <1>0 DEF FlushTo, TypeOK
    <3> QED BY <3>1
  <2>2. flushes' \in 0 .. MaxFlush
    <3>1. flushes \in 0 .. MaxFlush /\ flushes' = flushes + 1 BY <1>0 DEF FlushTo, TypeOK
    <3> QED BY <3>1, BoundAssumption
  <2>3. userdata_map' \in [Name -> Obj \cup {Null}] BY DEF MapsTo
  <2>4. UNCHANGED <<status, read_buf, file_segment, remain_write_req, write_lock,
         wpc, cur, draining, pc, nm, ptr, off, goal, calls, exited>>
    BY DEF FlushTo
  <2> QED BY <2>1, <2>2, <2>3, <2>4, <1>0, <1>3, <1>6 DEF TypeOK
<1>8. QueueInv'
  <2> SUFFICES ASSUME NEW i \in 1 .. Len(io_queue'), NEW x \in Obj,
         io_queue'[i].data = x
        PROVE  QueuedOK(i, x)'
    BY DEF QueueInv
  <2>1. CASE i = Len(io_queue) + 1
    <3>1. Applied(d) <= flushed[d] BY <1>0 DEF CoreInv, CoverInv
    <3>2. io_queue'[i] = e /\ x = d BY <2>1, <1>1, <1>3
    <3>3. \A j \in i + 1 .. Len(io_queue') : FALSE BY <2>1, <1>3
    <3>4. Applied(x)' < flushed[x] + 1 /\ flushed'[x] = flushed[x] + 1
      BY <3>1, <3>2, <1>4, <1>5
    <3> QED BY <3>2, <3>3, <3>4, <1>1, <1>5, <1>6 DEF QueuedOK
  <2>2. CASE i \in 1 .. Len(io_queue)
    <3>1. io_queue'[i] = io_queue[i] /\ io_queue[i].data = x /\ io_queue[i].seq \in Nat
      BY <2>2, <1>3 DEF Request
    <3>2. QueuedOK(i, x) BY <2>2, <3>1, <1>0 DEF CoreInv, QueueInv
    <3>3. x = d => io_queue[i].rw = "WRITE" BY <2>2, <3>1 DEF NoDelete
    <3>4. ASSUME NEW j \in i + 1 .. Len(io_queue'), io_queue'[j].data = x
          PROVE  /\ io_queue'[i].rw = "WRITE"
                 /\ io_queue'[j].rw = "WRITE" => io_queue'[i].seq < io_queue'[j].seq
      <4>1. CASE j = Len(io_queue) + 1
        <5>1. io_queue'[j] = e /\ x = d BY <4>1, <3>4, <1>1, <1>3
        <5>2. io_queue[i].rw = "WRITE" /\ io_queue[i].seq <= flushed[d]
          BY <5>1, <3>2, <3>3 DEF QueuedOK
        <5> QED BY <5>1, <5>2, <3>1, <1>1, <1>5
      <4>2. CASE j # Len(io_queue) + 1
        <5>1. j \in 1 .. Len(io_queue) /\ j \in i + 1 .. Len(io_queue)
          <6>1. Len(io_queue) \in Nat /\ j \in i + 1 .. Len(io_queue) + 1 BY <3>4, <1>3
          <6> QED BY <6>1, <4>2, <2>2, BetweenBefore
        <5>2. io_queue'[j] = io_queue[j] BY <5>1, <1>3
        <5> QED BY <5>1, <5>2, <3>4, <3>1, <3>2 DEF QueuedOK
      <4> QED BY <4>1, <4>2
    <3>5. io_queue[i].rw = "DELETE" => \A n \in Name : userdata_map'[n] # x
      BY <3>2, <3>3 DEF QueuedOK, MapsTo
    <3>6. io_queue[i].rw = "WRITE" => Applied(x)' < io_queue[i].seq /\ io_queue[i].seq <= flushed'[x]
      BY <3>1, <3>2, <1>4, <1>5 DEF QueuedOK
    <3>7. state'[x] = "live" BY <3>2, <1>6 DEF QueuedOK
    <3> QED BY <3>1, <3>4, <3>5, <3>6, <3>7 DEF QueuedOK
  <2>3. i = Len(io_queue) + 1 \/ i \in 1 .. Len(io_queue) BY <1>3, PushIndex
  <2> QED BY <2>1, <2>2, <2>3
<1>9. CoverInv'
  <2> SUFFICES ASSUME NEW x \in Obj
        PROVE  /\ Applied(x)' <= flushed'[x]
               /\ \A k \in Applied(x)' + 1 .. flushed'[x] :
                     \E i \in 1 .. Len(io_queue') : IsFlush(i, x, k)'
    BY DEF CoverInv
  <2>1. /\ Applied(x) <= flushed[x]
        /\ \A k \in Applied(x) + 1 .. flushed[x] :
              \E i \in 1 .. Len(io_queue) : IsFlush(i, x, k)
    BY <1>0 DEF CoreInv, CoverInv
  <2>2. ASSUME NEW k \in Applied(x)' + 1 .. flushed'[x]
        PROVE  \E i \in 1 .. Len(io_queue') : IsFlush(i, x, k)'
    <3>1. CASE k \in Applied(x) + 1 .. flushed[x]
      <4>1. PICK i \in 1 .. Len(io_queue) : IsFlush(i, x, k)
        BY <2>1, <3>1
      <4>2. i \in 1 .. Len(io_queue') /\ io_queue'[i] = io_queue[i] BY <1>3, PushIndex
      <4> QED BY <4>1, <4>2 DEF IsFlush
    <3>2. CASE k \notin Applied(x) + 1 .. flushed[x]
      <4>1. x = d /\ k = flushed[d] + 1 BY <3>2, <1>4, <1>5
      <4>2. Len(io_queue) + 1 \in 1 .. Len(io_queue') BY <1>3
      <4> QED BY <4>1, <4>2, <1>1, <1>3 DEF IsFlush
    <3> QED BY <3>1, <3>2
  <2> QED BY <2>1, <2>2, <1>4, <1>5
<1>10. CurInv'
  <2>1. wpc \in {"serve", "append", "delete", "free"} => cur \in Request /\ cur.data \in Obj /\ cur.seq \in Nat
    BY <1>0 DEF TypeOK, Request
  <2>2. UNCHANGED <<wpc, cur, file_segment>> BY DEF FlushTo
  <2>3. CurInv BY <1>0 DEF CoreInv
  <2>4. wpc \in {"serve", "delete", "free"} /\ cur.rw = "DELETE" =>
          /\ \A n \in Name : userdata_map'[n] # cur.data
          /\ \A i \in 1 .. Len(io_queue') : io_queue'[i].data # cur.data
    <3> SUFFICES ASSUME wpc \in {"serve", "delete", "free"}, cur.rw = "DELETE"
          PROVE  /\ \A n \in Name : userdata_map'[n] # cur.data
                 /\ \A i \in 1 .. Len(io_queue') : io_queue'[i].data # cur.data
      OBVIOUS
    <3>1. /\ \A n \in Name : userdata_map[n] # cur.data
          /\ \A i \in 1 .. Len(io_queue) : io_queue[i].data # cur.data
      BY <2>3 DEF CurInv
    <3>2. cur.data # d BY DEF NoDelete
    <3>3. ASSUME NEW i \in 1 .. Len(io_queue') PROVE io_queue'[i].data # cur.data
      <4>1. CASE i = Len(io_queue) + 1 BY <4>1, <3>2, <1>1, <1>3
      <4>2. CASE i \in 1 .. Len(io_queue) BY <4>2, <3>1, <1>3
      <4> QED BY <4>1, <4>2, <1>3, PushIndex
    <3> QED BY <3>1, <3>2, <3>3 DEF MapsTo
  <2>5. wpc \in {"serve", "append"} /\ cur.rw = "WRITE" =>
          /\ cur.seq = Len(file_segment[cur.data]) + 1
          /\ cur.seq <= flushed'[cur.data]
    BY <2>1, <2>3, <1>5 DEF CurInv
  <2> QED BY <2>2, <2>3, <2>4, <2>5 DEF CurInv
<1>11. MapInv'
  <2>1. \A n \in Name : userdata_map'[n] # Null => state'[userdata_map'[n]] = "live"
    <3> SUFFICES ASSUME NEW n \in Name, userdata_map'[n] # Null
          PROVE  state'[userdata_map'[n]] = "live"
      OBVIOUS
    <3>1. userdata_map'[n] \in Obj BY DEF MapsTo
    <3>2. CASE userdata_map'[n] = d BY <3>2, <1>6
    <3>3. CASE userdata_map'[n] # d
      <4>1. userdata_map'[n] = userdata_map[n] BY <3>3 DEF MapsTo
      <4>2. state[userdata_map[n]] = "live" BY <4>1, <1>0 DEF CoreInv, MapInv
      <4> QED BY <4>1, <4>2, <3>1, <3>3, <1>6
    <3> QED BY <3>2, <3>3
  <2>2. \A x \in Obj : state'[x] = "unused" => file_segment'[x] = <<>> /\ flushed'[x] = 0
    <3> SUFFICES ASSUME NEW x \in Obj, state'[x] = "unused"
          PROVE  file_segment'[x] = <<>> /\ flushed'[x] = 0
      OBVIOUS
    <3>1. x # d /\ state[x] = "unused" BY <1>6
    <3>2. file_segment[x] = <<>> /\ flushed[x] = 0 BY <3>1, <1>0 DEF CoreInv, MapInv
    <3>3. file_segment' = file_segment BY DEF FlushTo
    <3> QED BY <3>1, <3>2, <3>3, <1>5
  <2> QED BY <2>1, <2>2 DEF MapInv, MapsTo
<1>12. DoneInv' /\ AppendedInOrder'
  BY <1>0 DEF CoreInv, DoneInv, AppendedInOrder, FlushTo
<1>13. AcceptedBeforeDone'
  <2> SUFFICES ASSUME wpc = "done", NEW i \in DOMAIN io_queue' PROVE ~io_queue'[i].ok
    BY DEF AcceptedBeforeDone, FlushTo
  <2>1. status = "CLOSE" BY <1>0 DEF CoreInv, DoneInv
  <2>2. ~e.ok BY Zenon, <2>1 DEF e
  <2>3. DOMAIN io_queue' = 1 .. Len(io_queue') BY <1>3, LenFacts
  <2>4. i = Len(io_queue) + 1 \/ i \in 1 .. Len(io_queue) BY <2>3, <1>3, PushIndex
  <2>5. CASE i \in 1 .. Len(io_queue)
    <3>1. DOMAIN io_queue = 1 .. Len(io_queue) BY <1>0, LenFacts DEF TypeOK
    <3> QED BY <2>5, <3>1, <1>0, <1>3 DEF CoreInv, AcceptedBeforeDone
  <2> QED BY <2>2, <2>4, <2>5, <1>3
<1>14. WorkerTouchesLive'
  <2>1. wpc \in {"serve", "append", "delete", "free"} => cur.data \in Obj
    BY <1>0 DEF TypeOK, Request
  <2>2. wpc = "free" => cur.rw = "DELETE" BY <1>0 DEF CoreInv, CurInv
  <2>3. WorkerTouchesLive /\ UNCHANGED <<wpc, cur>> BY <1>0 DEF CoreInv, FlushTo
  <2> QED BY <1>6, <2>1, <2>2, <2>3 DEF WorkerTouchesLive, NoDelete
<1>15. LockInv' BY <1>0, LockFrame DEF FlushTo
<1>16. CallInv'
  <2>1. UNCHANGED <<pc, nm, ptr>> BY DEF FlushTo
  <2> QED BY <2>1, <1>0 DEF CallInv, TypeOK, MapsTo
<1> QED BY <1>7, <1>8, <1>9, <1>10, <1>11, <1>12, <1>13, <1>14, <1>15, <1>16, Combine
    DEF CoreInv

(* z_flush keeps IInv.                                                     *)
LEMMA FlushStep ==
    ASSUME IInv, NEW c \in Client, NEW n \in Name, Flush(c, n)
    PROVE  IInv'
<1>0. TypeOK /\ LockInv /\ CallInv /\ CoreInv BY IFacts
<1>1. CASE userdata_map[n] # Null /\ FlushTo(userdata_map[n]) /\ UNCHANGED <<userdata_map, state>>
  <2>1. userdata_map[n] \in Obj BY <1>0, <1>1 DEF TypeOK
  <2>2. state[userdata_map[n]] = "live" BY <1>0, <1>1 DEF CoreInv, MapInv
  <2>3. state' = [state EXCEPT ![userdata_map[n]] = "live"]
    BY <1>0, <1>1, <2>1, <2>2 DEF TypeOK
  <2>4. \A i \in 1 .. Len(io_queue) : io_queue[i].data = userdata_map[n] => io_queue[i].rw = "WRITE"
    <3>1. \A i \in 1 .. Len(io_queue) : io_queue[i] \in Request
      BY <1>0, ElementFact DEF TypeOK
    <3> QED BY <1>0, <3>1 DEF CoreInv, QueueInv, Request, QueuedOK
  <2>5. wpc \in {"serve", "delete", "free"} /\ cur.rw = "DELETE" => cur.data # userdata_map[n]
    BY <1>0 DEF CoreInv, CurInv
  <2>6. \A m, k \in Name : userdata_map'[m] = userdata_map'[k] /\ userdata_map'[k] # Null => m = k
    BY <1>0, <1>1 DEF CoreInv, MapInv
  <2>7. flushes < MaxFlush /\ userdata_map' \in [Name -> Obj \cup {Null}] /\ \A m \in Name : userdata_map'[m] = userdata_map[m]
    BY <1>0, <1>1 DEF Flush, TypeOK
  <2>8. MapsTo(userdata_map[n]) /\ NoDelete(userdata_map[n])
    BY <2>4, <2>5, <2>6, <2>7 DEF MapsTo, NoDelete
  <2> QED BY Zenon, <1>1, <2>1, <2>2, <2>3, <2>7, <2>8, FlushToStep
<1>2. ASSUME userdata_map[n] = Null, NEW d \in Obj, state[d] = "unused", 
             state' = [state EXCEPT ![d] = "live"], userdata_map' = [userdata_map EXCEPT ![n] = d], FlushTo(d)
      PROVE IInv'
  <2>1. \A i \in 1 .. Len(io_queue) : io_queue[i].data # d
    BY Zenon, <1>0, <1>2, ElementFact DEF CoreInv, QueueInv, TypeOK, Request, QueuedOK
  <2>2. wpc \in {"serve", "delete", "free"} /\ cur.rw = "DELETE" => cur.data # d
    BY <1>0, <1>2 DEF CoreInv, WorkerTouchesLive
  <2>3. \A m \in Name : userdata_map[m] # d
    BY <1>0, <1>2, IdAssumption DEF CoreInv, MapInv
  <2>4. userdata_map' \in [Name -> Obj \cup {Null}] BY <1>0, <1>2 DEF TypeOK
  <2>5. \A m \in Name : userdata_map'[m] = IF m = n THEN d ELSE userdata_map[m]
    BY <1>0, <1>2 DEF TypeOK
  <2>6. \A m, k \in Name : userdata_map'[m] = userdata_map'[k] /\ userdata_map'[k] # Null => m = k
    BY <1>0, <2>3, <2>5 DEF CoreInv, MapInv
  <2>7. flushes < MaxFlush BY DEF Flush
  <2>8. \A m \in Name : userdata_map'[m] = userdata_map[m] \/ (userdata_map'[m] = d /\ userdata_map[m] = Null)
    BY <1>2, <2>5
  <2>9. MapsTo(d) /\ NoDelete(d) BY <2>1, <2>2, <2>4, <2>6, <2>8 DEF MapsTo, NoDelete
  <2> QED BY Zenon, <1>2, <2>7, <2>9, FlushToStep
<1> QED BY <1>1, <1>2 DEF Flush

(* z_del keeps IInv: the map is injective, so the name that is erased was  *)
(* the only one for the object, and no WRITE can follow the DELETE.        *)
LEMMA DelStep ==
    ASSUME IInv, NEW c \in Client, NEW n \in Name, Del(c, n)
    PROVE  IInv'
<1> USE DEF workerVars, clientVars, objVars, QueuedOK, IsFlush
<1>0. TypeOK /\ LockInv /\ CallInv /\ CoreInv BY IFacts
<1>1. PICK d \in Obj : d = userdata_map[n] BY <1>0 DEF TypeOK, Del
<1> DEFINE e == [rw |-> "DELETE", data |-> d, seq |-> 0, ok |-> status = "OPEN"]
<1>2. e \in Request /\ e.rw = "DELETE" /\ e.data = d
  BY <1>0 DEF TypeOK, Request
<1>3. io_queue' = Append(io_queue, e) BY <1>1 DEF Del
<1> HIDE DEF e
<1>4. /\ Len(io_queue) \in Nat
      /\ Len(io_queue') = Len(io_queue) + 1
      /\ io_queue' \in Seq(Request)
      /\ \A i \in 1 .. Len(io_queue) : io_queue'[i] = io_queue[i] /\ io_queue[i] \in Request
      /\ io_queue'[Len(io_queue) + 1] = e
  BY <1>0, <1>2, <1>3, PushFacts
<1>5. UNCHANGED <<status, state, file_segment, flushed, wpc, cur, draining>>
  BY DEF Del
<1>6. \A x \in Obj : Applied(x)' = Applied(x) BY <1>5 DEF Applied, InHand
<1>7. \A m \in Name : userdata_map'[m] = IF m = n THEN Null ELSE userdata_map[m]
  BY <1>0 DEF TypeOK, Del
<1>8. state[d] = "live" /\ \A m \in Name : userdata_map'[m] # d
  BY <1>0, <1>1, <1>7, IdAssumption DEF CoreInv, MapInv
<1>9. TypeOK' BY Zenon, <1>0, <1>4 DEF TypeOK, Del
<1>10. QueueInv'
  <2> SUFFICES ASSUME NEW i \in 1 .. Len(io_queue'), NEW x \in Obj,
         io_queue'[i].data = x
        PROVE  QueuedOK(i, x)'
    BY DEF QueueInv, QueuedOK
  <2>1. CASE i = Len(io_queue) + 1
    <3>1. io_queue'[i] = e /\ x = d BY <2>1, <1>2, <1>4
    <3>2. \A j \in i + 1 .. Len(io_queue') : FALSE BY <2>1, <1>4
    <3> QED BY <3>1, <3>2, <1>2, <1>5, <1>8
  <2>2. CASE i \in 1 .. Len(io_queue)
    <3>1. io_queue'[i] = io_queue[i] /\ io_queue[i].data = x BY <2>2, <1>4
    <3>2. QueuedOK(i, x) BY <2>2, <3>1, <1>0 DEF CoreInv, QueueInv, QueuedOK
    <3>3. x = d => io_queue[i].rw = "WRITE"
      BY <2>2, <3>1, <3>2, <1>1, <1>4 DEF Request
    <3>4. ASSUME NEW j \in i + 1 .. Len(io_queue'), io_queue'[j].data = x
          PROVE  /\ io_queue'[i].rw = "WRITE"
                 /\ io_queue'[j].rw = "WRITE" => io_queue'[i].seq < io_queue'[j].seq
      <4>1. CASE j = Len(io_queue) + 1
        BY <4>1, <3>4, <3>1, <3>3, <1>2, <1>4
      <4>2. CASE j # Len(io_queue) + 1
        <5>1. j \in 1 .. Len(io_queue) /\ j \in i + 1 .. Len(io_queue)
          <6>1. Len(io_queue) \in Nat /\ j \in i + 1 .. Len(io_queue) + 1 BY <3>4, <1>4
          <6> QED BY <6>1, <4>2, <2>2, BetweenBefore
        <5>2. io_queue'[j] = io_queue[j] BY <5>1, <1>4
        <5> QED BY <5>1, <5>2, <3>4, <3>1, <3>2
      <4> QED BY <4>1, <4>2
    <3>5. io_queue[i].rw = "DELETE" => \A m \in Name : userdata_map'[m] # x
      BY <3>2, <1>7, <1>8, IdAssumption
    <3>6. io_queue[i].rw = "WRITE" => Applied(x)' < io_queue[i].seq /\ io_queue[i].seq <= flushed'[x]
      BY <3>2, <1>5, <1>6
    <3> QED BY <3>1, <3>2, <3>4, <3>5, <3>6, <1>5
  <2>3. i = Len(io_queue) + 1 \/ i \in 1 .. Len(io_queue) BY <1>4, PushIndex
  <2> HIDE DEF QueuedOK
  <2> QED BY <2>1, <2>2, <2>3
<1>11. CoverInv'
  <2> SUFFICES ASSUME NEW x \in Obj
        PROVE  /\ Applied(x)' <= flushed'[x]
               /\ \A k \in Applied(x)' + 1 .. flushed'[x] :
                     \E i \in 1 .. Len(io_queue') : IsFlush(i, x, k)'
    BY DEF CoverInv
  <2>1. /\ Applied(x) <= flushed[x]
        /\ \A k \in Applied(x) + 1 .. flushed[x] :
              \E i \in 1 .. Len(io_queue) : IsFlush(i, x, k)
    BY <1>0 DEF CoreInv, CoverInv
  <2>2. \A i \in 1 .. Len(io_queue) : i \in 1 .. Len(io_queue') /\ io_queue'[i] = io_queue[i]
    BY <1>4, PushIndex
  <2> QED BY <2>1, <2>2, <1>5, <1>6
<1>12. CurInv'
  <2>1. wpc \in {"serve", "append", "delete", "free"} => cur.data \in Obj
    BY <1>0 DEF TypeOK, Request
  <2>2. CurInv BY <1>0 DEF CoreInv
  <2>3. ASSUME wpc \in {"serve", "delete", "free"}, cur.rw = "DELETE"
        PROVE  /\ \A m \in Name : userdata_map'[m] # cur.data
               /\ \A i \in 1 .. Len(io_queue') : io_queue'[i].data # cur.data
    <3>1. /\ \A m \in Name : userdata_map[m] # cur.data
          /\ \A i \in 1 .. Len(io_queue) : io_queue[i].data # cur.data
      BY <2>2, <2>3 DEF CurInv
    <3>2. \A m \in Name : userdata_map'[m] # cur.data
      BY <3>1, <1>7, <2>1, <2>3, IdAssumption
    <3>3. ASSUME NEW i \in 1 .. Len(io_queue') PROVE io_queue'[i].data # cur.data
      <4>1. CASE i = Len(io_queue) + 1 BY <4>1, <3>1, <1>1, <1>2, <1>4
      <4>2. CASE i # Len(io_queue) + 1 BY <4>2, <3>1, <1>4
      <4> QED BY <4>1, <4>2
    <3> QED BY <3>2, <3>3
  <2> QED BY <2>2, <2>3, <1>5 DEF CurInv
<1>13. MapInv'
  BY <1>0, <1>5, <1>7 DEF CoreInv, MapInv
<1>14. DoneInv' /\ AppendedInOrder' /\ WorkerTouchesLive'
  BY <1>0, <1>5 DEF CoreInv, DoneInv, AppendedInOrder, WorkerTouchesLive
<1>15. AcceptedBeforeDone'
  <2> SUFFICES ASSUME wpc = "done", NEW i \in DOMAIN io_queue' PROVE ~io_queue'[i].ok
    BY <1>5 DEF AcceptedBeforeDone
  <2>1. status = "CLOSE" BY <1>0 DEF CoreInv, DoneInv
  <2>2. ~e.ok BY Zenon, <2>1 DEF e
  <2>3. DOMAIN io_queue' = 1 .. Len(io_queue') BY <1>4, LenFacts
  <2>4. i = Len(io_queue) + 1 \/ i \in 1 .. Len(io_queue) BY <2>3, <1>4, PushIndex
  <2>5. CASE i \in 1 .. Len(io_queue)
    <3>1. DOMAIN io_queue = 1 .. Len(io_queue) BY <1>0, LenFacts DEF TypeOK
    <3> QED BY <2>5, <3>1, <1>0, <1>4 DEF CoreInv, AcceptedBeforeDone
  <2> QED BY <2>2, <2>4, <2>5, <1>4
<1>16. LockInv' BY <1>0, LockFrame DEF Del
<1>17. CallInv'
  <2>1. UNCHANGED <<pc, nm, ptr>> /\ Unreferenced(n) BY DEF Del
  <2> QED BY <2>1, <1>0, <1>7 DEF CallInv, Unreferenced
<1> QED BY <1>9, <1>10, <1>11, <1>12, <1>13, <1>14, <1>15, <1>16, <1>17, Combine
    DEF CoreInv

(* The worker's pop keeps IInv.  The head is the next flush of its object: *)
(* flush Applied + 1 is queued (CoverInv), and nothing queued behind the   *)
(* head comes before it (QueueInv).                                        *)
LEMMA PopStep == ASSUME IInv, Pop PROVE IInv'
<1> USE DEF clientVars, objVars, QueuedOK, IsFlush
<1>0. TypeOK /\ LockInv /\ CallInv /\ CoreInv BY IFacts
<1>1. /\ Len(io_queue) \in Nat \ {0}
      /\ Len(io_queue') = Len(io_queue) - 1
      /\ io_queue' \in Seq(Request)
      /\ cur' = io_queue[1] /\ cur' \in Request
      /\ \A i \in 1 .. Len(io_queue) : io_queue[i] \in Request
      /\ \A i \in 1 .. Len(io_queue) - 1 : io_queue'[i] = io_queue[i + 1]
  BY <1>0, PopFacts
<1>2. UNCHANGED <<status, userdata_map, state, file_segment, flushed,
       draining>> /\ wpc = "poll" /\ wpc' = "serve"
  BY DEF Pop
<1>3. PICK d \in Obj : d = cur'.data BY <1>1 DEF Request
<1>4. \A x \in Obj : /\ Applied(x) = Len(file_segment[x]) /\ Applied(x) \in Nat /\ flushed[x] \in Nat
                     /\ Applied(x)' = Applied(x) + (IF x = d /\ cur'.rw = "WRITE" THEN 1 ELSE 0)
  <2>1. \A x \in Obj : Len(file_segment[x]) \in Nat
    BY <1>0, LenFacts DEF TypeOK
  <2>2. \A x \in Obj : ~InHand(x) /\ flushed[x] \in Nat
    BY <1>0, <1>2 DEF InHand, TypeOK
  <2>3. \A x \in Obj : InHand(x)' <=> x = d /\ cur'.rw = "WRITE"
    BY <1>2, <1>3 DEF InHand
  <2> SUFFICES ASSUME NEW x \in Obj
        PROVE  /\ Applied(x) = Len(file_segment[x]) /\ Applied(x) \in Nat /\ flushed[x] \in Nat
               /\ Applied(x)' = Applied(x) + (IF x = d /\ cur'.rw = "WRITE" THEN 1 ELSE 0)
    OBVIOUS
  <2>4. Applied(x) = Len(file_segment[x])
    <3>1. Applied(x) = Len(file_segment[x]) + 0 BY Zenon, <2>2 DEF Applied
    <3>2. Len(file_segment[x]) \in Nat BY <2>1
    <3> QED BY <3>1, <3>2
  <2>5. Applied(x)' = Len(file_segment[x]) + (IF x = d /\ cur'.rw = "WRITE" THEN 1 ELSE 0)
    BY Zenon, <1>2, <2>3 DEF Applied
  <2> QED BY <2>1, <2>2, <2>4, <2>5
<1>5. /\ state[d] = "live"
      /\ cur'.rw = "WRITE" => Applied(d) < cur'.seq /\ cur'.seq <= flushed[d]
      /\ cur'.rw = "DELETE" => \A n \in Name : userdata_map[n] # d
      /\ \A j \in 2 .. Len(io_queue) : io_queue[j].data = d =>
                /\ cur'.rw = "WRITE"
                /\ io_queue[j].rw = "WRITE" => cur'.seq < io_queue[j].seq
  <2>1. 1 \in 1 .. Len(io_queue) /\ io_queue[1].data = d BY <1>1, <1>3
  <2>2. QueuedOK(1, d) BY <2>1, <1>0 DEF CoreInv, QueueInv
  <2>3. 1 + 1 = 2 OBVIOUS
  <2> QED BY <2>2, <2>3, <1>1 DEF QueuedOK
<1>6. cur'.rw = "WRITE" => cur'.seq = Applied(d) + 1
  <2> SUFFICES ASSUME cur'.rw = "WRITE" PROVE cur'.seq = Applied(d) + 1 OBVIOUS
  <2>1. cur'.seq \in Nat /\ Applied(d) \in Nat /\ flushed[d] \in Nat
    BY <1>1, <1>4 DEF Request
  <2>2. Applied(d) + 1 \in Applied(d) + 1 .. flushed[d] BY <2>1, <1>5
  <2>3. PICK i \in 1 .. Len(io_queue) : IsFlush(i, d, Applied(d) + 1)
    BY <2>2, <1>0 DEF CoreInv, CoverInv
  <2>4. CASE i = 1 BY <2>3, <2>4, <1>1
  <2>5. CASE i # 1
    <3>1. i \in 2 .. Len(io_queue) BY <2>5, <1>1
    <3>2. cur'.seq < Applied(d) + 1 BY <3>1, <2>3, <1>5
    <3> QED BY <3>2, <2>1, <1>5
  <2> QED BY <2>4, <2>5
<1>7. TypeOK' BY <1>0, <1>1 DEF TypeOK, Pop
<1>8. QueueInv'
  <2> SUFFICES ASSUME NEW i \in 1 .. Len(io_queue'), NEW x \in Obj,
         io_queue'[i].data = x
        PROVE  QueuedOK(i, x)'
    BY DEF QueueInv, QueuedOK
  <2>0. i \in 1 .. Len(io_queue) - 1 /\ i + 1 \in 2 .. Len(io_queue) BY <1>1
  <2>1. io_queue'[i] = io_queue[i + 1] /\ i + 1 \in 2 .. Len(io_queue) /\ io_queue[i + 1].data = x /\ io_queue[i + 1].seq \in Nat
    <3>1. io_queue'[i] = io_queue[i + 1] BY <2>0, <1>1
    <3>2. io_queue[i + 1] \in Request BY <2>0, <1>1
    <3> QED BY <2>0, <3>1, <3>2 DEF Request
  <2>2. QueuedOK(i + 1, x)
    <3>1. i + 1 \in 1 .. Len(io_queue) BY <2>1
    <3> QED BY <3>1, <2>1, <1>0 DEF CoreInv, QueueInv, QueuedOK
  <2>3. io_queue[i + 1].rw = "WRITE" => Applied(x)' < io_queue[i + 1].seq
    <3>1. CASE x = d /\ cur'.rw = "WRITE" BY <3>1, <2>1, <1>4, <1>5, <1>6
    <3>2. CASE ~(x = d /\ cur'.rw = "WRITE") BY <3>2, <2>2, <1>4
    <3> QED BY <3>1, <3>2
  <2>4. ASSUME NEW j \in i + 1 .. Len(io_queue'), io_queue'[j].data = x
        PROVE  /\ io_queue'[i].rw = "WRITE"
               /\ io_queue'[j].rw = "WRITE" => io_queue'[i].seq < io_queue'[j].seq
    <3>0. j \in 1 .. Len(io_queue) - 1 /\ j + 1 \in (i + 1) + 1 .. Len(io_queue)
      BY <2>0, <1>1
    <3>1. j + 1 \in (i + 1) + 1 .. Len(io_queue) /\ io_queue'[j] = io_queue[j + 1]
      BY <3>0, <1>1
    <3> QED BY <3>1, <2>1, <2>2, <2>4
  <2> QED BY <2>1, <2>2, <2>3, <2>4, <1>2
<1>9. CoverInv'
  <2> SUFFICES ASSUME NEW x \in Obj
        PROVE  /\ Applied(x)' <= flushed'[x]
               /\ \A k \in Applied(x)' + 1 .. flushed'[x] :
                     \E i \in 1 .. Len(io_queue') : IsFlush(i, x, k)'
    BY DEF CoverInv
  <2>1. /\ Applied(x) <= flushed[x]
        /\ \A k \in Applied(x) + 1 .. flushed[x] :
              \E i \in 1 .. Len(io_queue) : IsFlush(i, x, k)
    BY <1>0 DEF CoreInv, CoverInv
  <2>2. Applied(x)' <= flushed'[x]
    <3>1. CASE x = d /\ cur'.rw = "WRITE" BY <3>1, <1>2, <1>4, <1>5, <1>6
    <3>2. CASE ~(x = d /\ cur'.rw = "WRITE")
      <4>1. Applied(x)' = Applied(x) BY <3>2, <1>4
      <4> QED BY <4>1, <2>1, <1>2
    <3> QED BY <3>1, <3>2
  <2>3. ASSUME NEW k \in Applied(x)' + 1 .. flushed'[x]
        PROVE  \E i \in 1 .. Len(io_queue') : IsFlush(i, x, k)'
    <3>1. k \in Applied(x) + 1 .. flushed[x] BY <1>2, <1>4
    <3>2. PICK i \in 1 .. Len(io_queue) : IsFlush(i, x, k)
      BY <2>1, <3>1
    <3>3. i # 1
      <4> SUFFICES ASSUME i = 1 PROVE FALSE OBVIOUS
      <4>1. x = d /\ cur'.rw = "WRITE" /\ cur'.seq = k BY <3>2, <1>1, <1>3
      <4> QED BY <4>1, <1>4, <1>6
    <3>4. i - 1 \in 1 .. Len(io_queue') /\ io_queue'[i - 1] = io_queue[i]
      BY <3>3, <1>1
    <3> QED BY <3>2, <3>4
  <2> QED BY <2>2, <2>3
<1>10. CurInv'
  <2>1. cur'.rw = "WRITE" => cur'.seq = Len(file_segment'[cur'.data]) + 1 /\ cur'.seq <= flushed'[cur'.data]
    BY <1>2, <1>3, <1>4, <1>5, <1>6
  <2>2. cur'.rw = "DELETE" =>
          /\ \A n \in Name : userdata_map'[n] # cur'.data
          /\ \A i \in 1 .. Len(io_queue') : io_queue'[i].data # cur'.data
    BY <1>1, <1>2, <1>3, <1>5
  <2> QED BY <2>1, <2>2, <1>2 DEF CurInv
<1>11. MapInv' /\ DoneInv' /\ AcceptedBeforeDone' /\ AppendedInOrder'
  BY <1>0, <1>2 DEF CoreInv, MapInv, DoneInv, AcceptedBeforeDone, AppendedInOrder
<1>12. WorkerTouchesLive' BY <1>2, <1>3, <1>5 DEF WorkerTouchesLive
<1>13. LockInv' BY <1>0, <1>2 DEF LockInv, Pop, LockOK
<1>14. CallInv' BY <1>0 DEF CallInv, Pop
<1> QED BY <1>7, <1>8, <1>9, <1>10, <1>11, <1>12, <1>13, <1>14, Combine DEF CoreInv
=============================================================================
