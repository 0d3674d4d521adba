------------------------ MODULE RequestPathProofs ------------------------
(***************************************************************************)
(* The safety properties of RequestPath, for every value of its constants. *)
(* They all follow from one inductive invariant, IInv.  RequestPathCalls   *)
(* and RequestPathQueue treat the clients' calls and the queue; here are   *)
(* the worker's remaining steps and the theorems.                          *)
(***************************************************************************)
EXTENDS RequestPathQueue

(* Open, Close and the worker's decisions between requests keep IInv.      *)
LEMMA QuietStep ==
    ASSUME IInv, Open \/ Close \/ FoundEmpty \/ CheckStatus
    PROVE IInv'
<1> USE DEF clientVars, objVars, lpVars, workerVars
<1>0. TypeOK /\ LockInv /\ CallInv /\ CoreInv BY IFacts
<1>1. UNCHANGED <<io_queue, userdata_map, state, file_segment, flushed, cur,
       write_lock, remain_write_req, pc, nm, ptr>>
  BY DEF Open, Close, FoundEmpty, CheckStatus
<1>2. wpc' = wpc \/ (wpc \in {"none", "poll", "check"} /\ wpc' \in {"poll", "check", "done"})
  BY DEF Open, Close, FoundEmpty, CheckStatus
<1>3. \A x \in Obj : Applied(x)' = Applied(x)
  BY Zenon, <1>1, <1>2 DEF Applied, InHand
<1>4. TypeOK' BY Zenon, <1>0 DEF TypeOK, Open, Close, FoundEmpty, CheckStatus
<1>5. QueueInv' BY <1>0, <1>1, <1>3, QueueFrame DEF CoreInv
<1>6. CoverInv' BY <1>0, <1>1, <1>3, CoverFrame DEF CoreInv
<1>7. CurInv' BY <1>0, <1>1, <1>2 DEF CoreInv, CurInv
<1>8. MapInv' /\ AppendedInOrder' BY <1>0, <1>1 DEF CoreInv, MapInv, AppendedInOrder
<1>9. DoneInv'
  <2>1. DoneInv BY <1>0 DEF CoreInv
  <2>2. CASE Open BY <2>1, <2>2 DEF DoneInv, Open
  <2>3. CASE Close BY <2>1, <2>3 DEF DoneInv, Close
  <2>4. CASE FoundEmpty BY <2>1, <2>4 DEF DoneInv, FoundEmpty
  <2>5. CASE CheckStatus BY <2>1, <2>5, <1>0 DEF DoneInv, CheckStatus, TypeOK
  <2> QED BY <2>2, <2>3, <2>4, <2>5
<1>10. AcceptedBeforeDone'
  <2>1. CASE FoundEmpty BY <2>1 DEF AcceptedBeforeDone, FoundEmpty
  <2>2. CASE Open \/ Close \/ CheckStatus
    BY <2>2, <1>0 DEF CoreInv, AcceptedBeforeDone, Open, Close, CheckStatus
  <2> QED BY <2>1, <2>2
<1>11. WorkerTouchesLive' BY <1>0, <1>1, <1>2 DEF CoreInv, WorkerTouchesLive
<1>12. LockInv' BY <1>0, <1>1, <1>2 DEF LockInv, LockOK
<1>13. CallInv' BY <1>0, <1>1 DEF CallInv
<1> QED BY <1>4, <1>5, <1>6, <1>7, <1>8, <1>9, <1>10, <1>11, <1>12, <1>13, Combine
    DEF CoreInv

(* AppendBegin and DeleteBegin keep IInv.                                  *)
LEMMA BeginStep ==
    ASSUME IInv, AppendBegin \/ DeleteBegin
    PROVE IInv'
<1> USE DEF clientVars, lpVars, LockOK
<1>0. TypeOK /\ LockInv /\ CallInv /\ CoreInv BY IFacts
<1>1. UNCHANGED <<status, io_queue, userdata_map, state, file_segment, flushed,
       cur, draining, pc, nm, ptr>>
  BY DEF AppendBegin, DeleteBegin
<1>2. wpc = "serve" /\ wpc' = IF cur.rw = "WRITE" THEN "append" ELSE "delete"
  BY DEF AppendBegin, DeleteBegin
<1>3. PICK d \in Obj : d = cur.data BY <1>0, <1>2 DEF TypeOK, Request
<1>4. cur.rw \in {"WRITE", "DELETE"} BY DEF AppendBegin, DeleteBegin
<1>5. Acquire(d, Worker) /\ remain_write_req' = [remain_write_req EXCEPT ![d] = @ + 1]
  BY <1>3 DEF AppendBegin, DeleteBegin
<1>6. \A x \in Obj : Applied(x)' = Applied(x)
  BY Zenon, <1>1, <1>2, <1>4 DEF Applied, InHand
<1>7. TypeOK'
  <2>1. remain_write_req' \in [Obj -> Nat]
    <3>1. remain_write_req \in [Obj -> Nat] BY <1>0 DEF TypeOK
    <3> QED BY <3>1, <1>5
  <2>2. write_lock' \in [Obj -> Client \cup {Worker, Null}]
    BY <1>0, <1>5 DEF TypeOK, Acquire
  <2>3. UNCHANGED <<read_buf, off, goal, flushes, calls, exited>>
    BY DEF AppendBegin, DeleteBegin
  <2> QED BY <2>1, <2>2, <2>3, <1>0, <1>1, <1>2 DEF TypeOK
<1>8. QueueInv' BY <1>0, <1>1, <1>6, QueueFrame DEF CoreInv
<1>9. CoverInv' BY <1>0, <1>1, <1>6, CoverFrame DEF CoreInv
<1>10. CurInv' BY <1>0, <1>1, <1>2, <1>4 DEF CoreInv, CurInv
<1>11. MapInv' /\ AppendedInOrder'
  BY <1>0, <1>1 DEF CoreInv, MapInv, AppendedInOrder
<1>12. DoneInv' /\ AcceptedBeforeDone' /\ WorkerTouchesLive'
  BY <1>0, <1>1, <1>2 DEF CoreInv, DoneInv, AcceptedBeforeDone, WorkerTouchesLive
<1>13. LockInv'
  <2> SUFFICES ASSUME NEW x \in Obj
        PROVE  LockOK(x)'
    BY DEF LockInv
  <2>1. /\ write_lock'[x] = IF x = d THEN Worker ELSE write_lock[x]
        /\ remain_write_req'[x] = IF x = d THEN remain_write_req[x] + 1 ELSE remain_write_req[x]
        /\ write_lock[d] = Null
    BY <1>0, <1>5 DEF TypeOK, Acquire
  <2>2. LockOK(x) BY <1>0 DEF LockInv, LockOK
  <2>3. CASE x = d 
    <3>1. write_lock'[x] = Worker /\ write_lock[x] = Null BY <2>1, <2>3
    <3>2. wpc' \in {"append", "delete"} /\ cur'.data = x BY <2>3, <1>1, <1>2, <1>3
    <3>3. \A c \in Client : ~(pc[c] \in {"rd_hold", "rd_copy", "sy_hold"} /\ ptr[c] = x)
      BY <3>1, <2>2, IdAssumption
    <3>4. remain_write_req'[x] = 1 BY <3>1, <2>1, <2>2, <2>3, IdAssumption
    <3> QED BY <3>1, <3>2, <3>3, <3>4, <1>1, IdAssumption
  <2>4. CASE x # d BY <2>1, <2>2, <2>4, <1>1, <1>2, <1>3
  <2> QED BY <2>3, <2>4
<1>14. CallInv' BY <1>0, <1>1 DEF CallInv
<1> QED BY <1>7, <1>8, <1>9, <1>10, <1>11, <1>12, <1>13, <1>14, Combine DEF CoreInv

(* AppendEnd and DeleteEnd give write_lock back and lower                  *)
(* remain_write_req, which is 1 there, to 0.                               *)
LEMMA EndLock ==
    ASSUME TypeOK, LockInv, wpc \in {"append", "delete"},
           wpc' \notin {"append", "delete"},
           NEW d \in Obj, d = cur.data, Release(d),
           remain_write_req' = [remain_write_req EXCEPT ![d] = @ - 1],
           UNCHANGED <<pc, ptr>>
    PROVE  LockInv' /\ remain_write_req' \in [Obj -> Nat] /\ write_lock' \in [Obj -> Client \cup {Worker, Null}]
<1>1. \A x \in Obj : write_lock'[x] = IF x = d THEN Null ELSE write_lock[x]
  BY DEF TypeOK, Release
<1>2. write_lock[d] = Worker /\ remain_write_req[d] = 1 /\ remain_write_req \in [Obj -> Nat]
  BY DEF LockInv, LockOK, TypeOK
<1>3. \A x \in Obj : remain_write_req'[x] = IF x = d THEN 0 ELSE remain_write_req[x]
  BY <1>2
<1>4. LockInv'
  <2> SUFFICES ASSUME NEW x \in Obj
        PROVE  LockOK(x)'
    BY DEF LockInv
  <2>1. CASE x = d
    <3>1. LockOK(x) BY DEF LockInv
    <3>2. write_lock'[x] = Null /\ remain_write_req'[x] = 0 /\ write_lock[x] = Worker
      BY <2>1, <1>1, <1>2, <1>3
    <3>3. \A c \in Client : write_lock[x] # c BY <3>2, IdAssumption
    <3> QED BY <3>1, <3>2, <3>3, IdAssumption DEF LockOK
  <2>2. CASE x # d
    <3>1. LockOK(x) BY DEF LockInv
    <3>2. write_lock'[x] = write_lock[x] /\ remain_write_req'[x] = remain_write_req[x]
      BY <2>2, <1>1, <1>3
    <3>3. write_lock[x] # Worker BY <2>2, <3>1 DEF LockOK
    <3> QED BY <3>1, <3>2, <3>3 DEF LockOK
  <2> QED BY <2>1, <2>2
<1>5. remain_write_req' \in [Obj -> Nat] BY <1>2
<1> QED BY <1>4, <1>5 DEF TypeOK, Release

(* The end of Userdata::Append keeps IInv: the segment it adds is the next *)
(* flush.                                                                  *)
LEMMA AppendEndStep == ASSUME IInv, AppendEnd PROVE IInv'
<1> USE DEF clientVars, lpVars
<1>0. TypeOK /\ LockInv /\ CallInv /\ CoreInv BY IFacts
<1>1. UNCHANGED <<status, io_queue, userdata_map, state, flushed, draining, pc,
       nm, ptr>>
  BY DEF AppendEnd, Served
<1>2. /\ wpc = "append" /\ cur' = Null /\ wpc' \in {"poll", "check"}
      /\ wpc' = IF draining THEN "poll" ELSE "check"
  BY DEF AppendEnd, Served
<1>3. PICK d \in Obj : d = cur.data BY <1>0, <1>2 DEF TypeOK, Request
<1>4. cur.rw = "WRITE" /\ cur.seq \in Nat /\ cur.seq = Len(file_segment[d]) + 1
  BY <1>0, <1>2, <1>3 DEF CoreInv, CurInv, TypeOK, Request
<1>5. \A x \in Obj : file_segment'[x] = IF x = d THEN Append(file_segment[x], cur.seq) ELSE file_segment[x]
  BY <1>0, <1>3 DEF TypeOK, AppendEnd
<1>6. \A x \in Obj : file_segment[x] \in Seq(Nat) BY <1>0 DEF TypeOK
<1>7. PICK s \in Seq(Nat), t \in Seq(Nat) :
        /\ s = file_segment[d] /\ t = file_segment'[d]
        /\ Len(s) \in Nat /\ Len(t) = Len(s) + 1
        /\ DOMAIN s = 1 .. Len(s) /\ DOMAIN t = 1 .. Len(s) + 1
        /\ \A i \in 1 .. Len(s) : t[i] = s[i]
        /\ t[Len(s) + 1] = cur.seq
  <2>1. PICK s \in Seq(Nat) : s = file_segment[d] BY <1>6
  <2>2. PICK t \in Seq(Nat) : t = Append(s, cur.seq) BY Zenon, <2>1, <1>4, AppendFacts
  <2>3. t = file_segment'[d] BY Zenon, <2>1, <2>2, <1>5
  <2>4. Len(s) \in Nat /\ DOMAIN s = 1 .. Len(s) /\ DOMAIN t = 1 .. Len(t)
    BY LenFacts
  <2>5. /\ Len(t) = Len(s) + 1
        /\ \A i \in 1 .. Len(s) : t[i] = s[i]
        /\ t[Len(s) + 1] = cur.seq
    BY <2>2, <1>4, AppendFacts
  <2> QED BY Zenon, <2>1, <2>3, <2>4, <2>5
<1>8. \A x \in Obj : Applied(x)' = Applied(x)
  <2> SUFFICES ASSUME NEW x \in Obj PROVE Applied(x)' = Applied(x) OBVIOUS
  <2>1. ~InHand(x)' BY <1>2 DEF InHand
  <2>2. InHand(x) <=> x = d BY <1>2, <1>3, <1>4 DEF InHand
  <2>3. CASE x = d BY <2>1, <2>2, <2>3, <1>7 DEF Applied
  <2>4. CASE x # d
    <3>1. Len(file_segment[x]) \in Nat BY <1>6, LenFacts
    <3> QED BY Zenon, <2>1, <2>2, <2>4, <3>1, <1>5 DEF Applied
  <2> QED BY <2>3, <2>4
<1>9. LockInv' /\ remain_write_req' \in [Obj -> Nat] /\ write_lock' \in [Obj -> Client \cup {Worker, Null}]
  BY Zenon, <1>0, <1>1, <1>2, <1>3, EndLock DEF AppendEnd
<1>10. TypeOK'
  <2>1. file_segment' \in [Obj -> Seq(Nat)]
    <3>1. file_segment' = [file_segment EXCEPT ![d] = Append(@, cur.seq)]
      BY <1>3 DEF AppendEnd
    <3>2. Append(file_segment[d], cur.seq) \in Seq(Nat) BY <1>4, <1>6, AppendFacts
    <3>3. file_segment \in [Obj -> Seq(Nat)] BY <1>0 DEF TypeOK
    <3> QED BY <3>1, <3>2, <3>3
  <2> QED BY Zenon, <1>0, <1>1, <1>2, <1>9, <2>1 DEF AppendEnd, TypeOK
<1>11. QueueInv' BY <1>0, <1>1, <1>8, QueueFrame DEF CoreInv
<1>12. CoverInv' BY <1>0, <1>1, <1>8, CoverFrame DEF CoreInv
<1>13. CurInv' BY <1>2 DEF CurInv
<1>14. MapInv'
  <2>1. state[d] = "live" BY <1>0, <1>2, <1>3 DEF CoreInv, WorkerTouchesLive
  <2> QED BY <2>1, <1>0, <1>1, <1>5 DEF CoreInv, MapInv
<1>15. AppendedInOrder'
  <2> SUFFICES ASSUME NEW x \in Obj, NEW i \in DOMAIN file_segment'[x] PROVE file_segment'[x][i] = i
    BY DEF AppendedInOrder
  <2>1. CASE x # d BY <2>1, <1>0, <1>5 DEF CoreInv, AppendedInOrder
  <2>2. CASE x = d
    <3>1. i \in 1 .. Len(s) + 1 /\ file_segment'[x][i] = t[i] BY <2>2, <1>7
    <3>2. CASE i \in 1 .. Len(s)
      <4>1. i \in DOMAIN file_segment[d] /\ file_segment[d][i] = s[i] BY <3>2, <1>7
      <4> QED BY Zenon, <3>1, <3>2, <4>1, <1>0, <1>7 DEF CoreInv, AppendedInOrder
    <3>3. CASE i = Len(s) + 1 BY <3>1, <3>3, <1>4, <1>7
    <3>4. i \in 1 .. Len(s) \/ i = Len(s) + 1 BY <3>1, <1>7, LastOrBefore
    <3> QED BY <3>2, <3>3, <3>4
  <2> QED BY <2>1, <2>2
<1>16. DoneInv' BY <1>0, <1>1, <1>2 DEF CoreInv, DoneInv
<1>17. AcceptedBeforeDone' /\ WorkerTouchesLive'
  BY <1>2 DEF AcceptedBeforeDone, WorkerTouchesLive
<1>18. CallInv' BY <1>0, <1>1 DEF CallInv
<1> QED BY <1>9, <1>10, <1>11, <1>12, <1>13, <1>14, <1>15, <1>16, <1>17, <1>18, Combine
    DEF CoreInv

(* DeleteEnd and FreeUserdata keep IInv: no name and no queued request     *)
(* leads to the object.                                                    *)
LEMMA KillStep ==
    ASSUME IInv, DeleteEnd \/ FreeUserdata
    PROVE IInv'
<1> USE DEF clientVars, lpVars
<1>0. TypeOK /\ LockInv /\ CallInv /\ CoreInv BY IFacts
<1>1. UNCHANGED <<status, io_queue, userdata_map, file_segment, flushed,
       draining, pc, nm, ptr>>
  BY DEF DeleteEnd, FreeUserdata, Served
<1>2. wpc \in {"delete", "free"} BY DEF DeleteEnd, FreeUserdata
<1>3. PICK d \in Obj : d = cur.data BY <1>0, <1>2 DEF TypeOK, Request
<1>4. \/ DeleteEnd /\ wpc' = "free" /\ cur' = cur
      \/ FreeUserdata /\ wpc' \in {"poll", "check"} /\ cur' = Null
  BY DEF DeleteEnd, FreeUserdata, Served
<1>5. /\ cur.rw = "DELETE"
      /\ \A n \in Name : userdata_map[n] # d
      /\ \A i \in 1 .. Len(io_queue) : io_queue[i].data # d
  BY <1>0, <1>2, <1>3 DEF CoreInv, CurInv
<1>6. \A x \in Obj : state'[x] = IF x = d THEN (IF wpc = "delete" THEN "gutted" ELSE "freed") ELSE state[x]
  BY <1>0, <1>3 DEF TypeOK, DeleteEnd, FreeUserdata
<1>7. \A x \in Obj : Applied(x)' = Applied(x)
  BY Zenon, <1>1, <1>2, <1>4 DEF Applied, InHand
<1>8. LockInv' /\ remain_write_req' \in [Obj -> Nat] /\ write_lock' \in [Obj -> Client \cup {Worker, Null}]
  <2>1. CASE DeleteEnd
    <3>1. wpc' = "free" /\ wpc = "delete" BY <2>1 DEF DeleteEnd
    <3> QED BY Zenon, <2>1, <3>1, <1>0, <1>1, <1>3, EndLock DEF DeleteEnd
  <2>2. CASE FreeUserdata
    <3>1. wpc = "free" /\ wpc' \in {"poll", "check"}
      BY <2>2 DEF FreeUserdata, Served
    <3>2. UNCHANGED <<remain_write_req, write_lock>> BY <2>2 DEF FreeUserdata
    <3>3. LockInv'
      <4> SUFFICES ASSUME NEW x \in Obj PROVE LockOK(x)' BY DEF LockInv
      <4>1. LockOK(x) BY <1>0 DEF LockInv
      <4>2. write_lock[x] # Worker BY <3>1, <4>1 DEF LockOK
      <4> QED BY <1>1, <3>1, <3>2, <4>1, <4>2 DEF LockOK
    <3> QED BY <1>0, <3>2, <3>3 DEF TypeOK
  <2> QED BY <2>1, <2>2
<1>9. TypeOK'
  <2>1. state' \in [Obj -> {"unused", "live", "gutted", "freed"}]
    BY Zenon, <1>0, <1>3 DEF TypeOK, DeleteEnd, FreeUserdata
  <2>2. UNCHANGED <<read_buf, off, goal, flushes, calls, exited>>
    BY DEF DeleteEnd, FreeUserdata
  <2> QED BY <1>0, <1>1, <1>2, <1>4, <1>8, <2>1, <2>2 DEF TypeOK
<1>10. QueueInv' BY <1>0, <1>1, <1>5, <1>6, <1>7, QueueFrame DEF CoreInv
<1>11. CoverInv' BY <1>0, <1>1, <1>7, CoverFrame DEF CoreInv
<1>12. CurInv' BY <1>1, <1>3, <1>4, <1>5 DEF CurInv
<1>13. MapInv'
  <2>1. \A n \in Name : userdata_map[n] # Null => userdata_map[n] \in Obj
    BY <1>0 DEF TypeOK
  <2>2. \A n \in Name : userdata_map'[n] # Null => state'[userdata_map'[n]] = "live"
    BY <2>1, <1>0, <1>1, <1>5, <1>6 DEF CoreInv, MapInv
  <2> QED BY <2>2, <1>0, <1>1, <1>6 DEF CoreInv, MapInv
<1>14. AppendedInOrder' BY <1>0, <1>1 DEF CoreInv, AppendedInOrder
<1>15. DoneInv' BY <1>0, <1>1, <1>2, <1>4 DEF CoreInv, DoneInv
<1>16. AcceptedBeforeDone' BY <1>4 DEF AcceptedBeforeDone
<1>17. WorkerTouchesLive'
  <2>1. DeleteEnd => wpc = "delete" BY DEF DeleteEnd
  <2> QED BY <2>1, <1>3, <1>4, <1>6 DEF WorkerTouchesLive
<1>18. CallInv' BY <1>0, <1>1 DEF CallInv
<1> QED BY <1>8, <1>9, <1>10, <1>11, <1>12, <1>13, <1>14, <1>15, <1>16, <1>17, <1>18, Combine
    DEF CoreInv

(* A step that changes nothing keeps IInv.                                 *)
LEMMA StutterStep == ASSUME IInv, UNCHANGED vars PROVE IInv'
<1> USE DEF vars, lpVars, objVars, workerVars, clientVars
<1>1. TypeOK' BY DEF IInv, TypeOK
<1>2. CoreInv' BY CoreFrame, IFacts DEF coreVars
<1>3. LockInv' BY DEF IInv, LockInv, LockOK
<1>4. CallInv' BY DEF IInv, CallInv
<1> QED BY <1>1, <1>2, <1>3, <1>4, Combine

(* A partition that has just been made satisfies IInv.                     *)
LEMMA InitStep == ASSUME Init PROVE IInv
<1> USE DEF Init
<1>0. Len(io_queue) = 0 /\ 1 .. 0 = {} OBVIOUS
<1>1. TypeOK
  <2>1. <<>> \in Seq(Request) /\ <<>> \in Seq(Nat) OBVIOUS
  <2>2. file_segment \in [Obj -> Seq(Nat)] BY <2>1
  <2>3. flushes \in 0 .. MaxFlush /\ calls \in 0 .. MaxCall BY BoundAssumption
  <2> QED BY Zenon, <2>1, <2>2, <2>3 DEF TypeOK
<1>2. \A d \in Obj : Applied(d) = 0 /\ flushed[d] = 0
  <2>1. \A d \in Obj : file_segment[d] = <<>> /\ flushed[d] = 0 OBVIOUS
  <2>2. \A d \in Obj : ~InHand(d) BY DEF InHand
  <2>3. Len(<<>>) = 0 OBVIOUS
  <2> QED BY <2>1, <2>2, <2>3 DEF Applied
<1>3. QueueInv /\ CurInv /\ MapInv /\ DoneInv
  BY <1>0 DEF QueueInv, CurInv, MapInv, DoneInv, QueuedOK
<1>4. CoverInv
  <2> HIDE DEF Init
  <2>1. 0 <= 0 /\ 0 + 1 .. 0 = {} OBVIOUS
  <2> QED BY <2>1, <1>2 DEF CoverInv
<1>5. LockInv BY IdAssumption DEF LockInv, LockOK
<1>6. CallInv /\ AcceptedBeforeDone /\ WorkerTouchesLive
  BY DEF CallInv, AcceptedBeforeDone, WorkerTouchesLive
<1>7. AppendedInOrder BY DEF AppendedInOrder
<1> QED BY <1>1, <1>3, <1>4, <1>5, <1>6, <1>7 DEF IInv

(* IInv is inductive: every step of every thread keeps it.                 *)
THEOREM Inductive == IInv /\ [Next]_vars => IInv'
<1> SUFFICES ASSUME IInv, [Next]_vars PROVE IInv'
  OBVIOUS
<1>1. CASE UNCHANGED vars BY <1>1, StutterStep
<1>2. CASE NewCall
  <2>1. CASE Open \/ Close BY <2>1, QuietStep
  <2>2. CASE OpenAgain \/ CloseAgain BY Zenon, <2>2, Exits DEF OpenAgain, CloseAgain
  <2>3. ASSUME NEW c \in Client, NEW n \in Name, Flush(c, n) \/ Del(c,
         n) \/ Load(c, n) \/ Sync(c, n)
        PROVE IInv'
    BY <2>3, FlushStep, DelStep, LoadStep, SyncStep
  <2> QED BY <1>2, <2>1, <2>2, <2>3 DEF NewCall
<1>3. CASE WorkerStep
  <2>1. CASE FoundEmpty \/ CheckStatus BY <2>1, QuietStep
  <2>2. CASE AppendFails BY <2>2, Exits DEF AppendFails
  <2> QED BY <1>3, <2>1, <2>2, PopStep, BeginStep, AppendEndStep, KillStep
      DEF WorkerStep
<1>4. ASSUME NEW c \in Client, InCall(c) PROVE IInv'
  <2>1. CASE ReadLock(c) BY <2>1, TakeLock DEF ReadLock
  <2>2. CASE SyncLock(c) BY <2>2, TakeLock DEF SyncLock
  <2>3. CASE ReadWhole(c) \/ ReadCopy(c) \/ SyncReturn(c)
    BY <2>3, GiveBack DEF ReadWhole, ReadCopy, SyncReturn
  <2>4. CASE ReadShort(c) BY <2>4, Exits DEF ReadShort
  <2> QED BY <1>4, <2>1, <2>2, <2>3, <2>4, ReadCheckStep, ReadDeviceStep, SyncGetStep
      DEF InCall
<1> QED BY <1>1, <1>2, <1>3, <1>4 DEF Next

(* Every behaviour of the request path satisfies IInv, for any number of   *)
(* clients, names and objects and any bounds.                              *)
THEOREM Invariance == Spec => []IInv
<1>1. Init => IInv BY InitStep
<1>2. IInv /\ [Next]_vars => IInv' BY Inductive
<1> QED BY <1>1, <1>2, PTL DEF Spec

(* Type correctness of the partition, its objects, the worker and the      *)
(* clients.                                                                *)
THEOREM TypeSafe == Spec => []TypeOK
<1>1. IInv => TypeOK BY DEF IInv
<1> QED BY <1>1, Invariance, PTL

(* worker_job and Userdata::Append append to every Userdata its first,     *)
(* second, third ... flush, in this order.                                 *)
THEOREM InOrder == Spec => []AppendedInOrder
<1>1. IInv => AppendedInOrder BY DEF IInv
<1> QED BY <1>1, Invariance, PTL

(* No flush is lost or applied twice between z_flush, io_queue, worker_job *)
(* and Userdata::Append: what is not appended is pending.                  *)
THEOREM Conservation == Spec => []NothingLost
<1>1. IInv => NothingLost
  <2> USE DEF IsFlush, QueuedOK
  <2> SUFFICES ASSUME IInv, NEW d \in Obj PROVE Pending(d) = Len(file_segment[d]) + 1 .. flushed[d]
    BY DEF NothingLost
  <2>0. TypeOK /\ CoreInv BY IFacts
  <2>1. /\ Len(file_segment[d]) \in Nat /\ flushed[d] \in Nat
        /\ DOMAIN io_queue = 1 .. Len(io_queue)
        /\ \A i \in 1 .. Len(io_queue) : io_queue[i] \in Request
    BY <2>0, LenFacts, ElementFact DEF TypeOK
  <2>2. InHand(d) => cur.seq = Len(file_segment[d]) + 1 /\ cur.seq <= flushed[d]
    BY <2>0 DEF CoreInv, CurInv, InHand
  <2>5. Applied(d) = IF InHand(d) THEN Len(file_segment[d]) + 1 ELSE Len(file_segment[d])
    <3>1. CASE InHand(d) BY <3>1 DEF Applied
    <3>2. CASE ~InHand(d) BY <3>2, <2>1 DEF Applied
    <3> QED BY <3>1, <3>2
  <2>3. ASSUME NEW k \in Pending(d)
        PROVE k \in Len(file_segment[d]) + 1 .. flushed[d]
    <3>1. CASE InHand(d) /\ k = cur.seq BY <3>1, <2>1, <2>2
    <3>2. CASE \E i \in 1 .. Len(io_queue) : IsFlush(i, d, k)
      <4>1. PICK i \in 1 .. Len(io_queue) : IsFlush(i, d, k)
        BY <3>2
      <4>2. Applied(d) < k /\ k <= flushed[d] /\ k \in Nat
        BY <4>1, <2>0, <2>1 DEF CoreInv, QueueInv, Request, QueuedOK
      <4>3. Applied(d) >= Len(file_segment[d]) /\ Applied(d) \in Nat BY <2>1, <2>5
      <4> QED BY <4>2, <4>3, <2>1
    <3> QED BY <3>1, <3>2, <2>1 DEF Pending, InHand
  <2>4. ASSUME NEW k \in Len(file_segment[d]) + 1 .. flushed[d]
        PROVE k \in Pending(d)
    <3>1. CASE InHand(d) /\ k = Len(file_segment[d]) + 1
      BY <3>1, <2>2 DEF Pending, InHand
    <3>2. CASE ~(InHand(d) /\ k = Len(file_segment[d]) + 1)
      <4>1. k \in Applied(d) + 1 .. flushed[d] BY <3>2, <2>1, <2>5
      <4>2. PICK i \in 1 .. Len(io_queue) : IsFlush(i, d, k)
        BY <4>1, <2>0 DEF CoreInv, CoverInv
      <4> QED BY <4>2, <2>1 DEF Pending
    <3> QED BY <3>1, <3>2
  <2> QED BY Zenon, <2>3, <2>4
<1> QED BY <1>1, Invariance, PTL

(* worker_job never uses a Userdata it has deleted, and deletes each at    *)
(* most once.                                                              *)
THEOREM WorkerSafe == Spec => []WorkerTouchesLive
<1>1. IInv => WorkerTouchesLive BY DEF IInv
<1> QED BY <1>1, Invariance, PTL

(* The pointers z_load and z_sync keep after unlocking the partition stay  *)
(* valid, given the host's rule on deletions.                              *)
THEOREM ClientSafe == Spec => []ClientTouchesLive
<1>1. IInv => ClientTouchesLive
  <2> SUFFICES ASSUME IInv, NEW c \in Client, pc[c] # "idle"
        PROVE  /\ pc[c] = "sy_get" => userdata_map[nm[c]] # Null
               /\ pc[c] # "sy_get" => ptr[c] # Null /\ state[ptr[c]] = "live"
    BY Zenon DEF ClientTouchesLive
  <2>1. /\ nm[c] \in Name /\ userdata_map[nm[c]] # Null
        /\ pc[c] # "sy_get" => ptr[c] = userdata_map[nm[c]]
    BY IFacts DEF CallInv
  <2>2. state[userdata_map[nm[c]]] = "live" BY <2>1, IFacts DEF CoreInv, MapInv
  <2> QED BY <2>1, <2>2
<1> QED BY <1>1, Invariance, PTL

(* Userdata::Sync never waits for remain_write_req while it holds the      *)
(* write_lock the worker would need to lower it.                           *)
THEOREM NoSelfDeadlock == Spec => []SyncNeverSpins
<1>1. IInv => SyncNeverSpins
  <2> SUFFICES ASSUME IInv, NEW c \in Client,
         pc[c] = "sy_hold" PROVE remain_write_req[ptr[c]] = 0
    BY DEF SyncNeverSpins
  <2>1. ptr[c] \in Obj BY PtrTyped, IFacts
  <2>2. write_lock[ptr[c]] = c BY <2>1, IFacts DEF LockInv, LockOK
  <2> QED BY <2>1, <2>2, IFacts, IdAssumption DEF LockInv, LockOK
<1> QED BY <1>1, Invariance, PTL

(* When worker_job returns, all that is left in io_queue was refused to    *)
(* its caller.                                                             *)
THEOREM DrainedBeforeDone == Spec => []AcceptedBeforeDone
<1>1. IInv => AcceptedBeforeDone BY DEF IInv
<1> QED BY <1>1, Invariance, PTL
=============================================================================
