---------------------------- MODULE DbPoolProofs ----------------------------
(***************************************************************************)
(* Theorems about DbPool, for any number of core threads, workers and      *)
(* connections and any size of the queue.                                  *)
(***************************************************************************)
EXTENDS DbPool, TLAPS

(* A thread that uses a connection holds its mutex. *)
UserLocks ==
    \A t \in Threads : pc[t] \in {"use", "pinging"} => m_Mutex[index[t]] = t

(* KeepAlive has one caller; its loops stay within their arrays, and it     *)
(* enqueues one operation per worker beyond the bound on operations.        *)
PingerOK ==
    /\ \A t \in Threads : pc[t] \in {"ping", "pinging", "enqueue"} => t = Pinger
    /\ pc[Pinger] = "ping" => index[Pinger] <= SynchCount
    /\ pc[Pinger] = "enqueue" => index[Pinger] <= AsyncCount
    /\ pc[Pinger] \in {"ping", "pinging"} => enqueued <= MaxOps
    /\ pc[Pinger] = "enqueue" => enqueued <= MaxOps + index[Pinger]

(* Close starts when the core threads it joins have exited, and deletes     *)
(* connection i after it has joined worker i, which is idle for good; no    *)
(* thread meets deleted connections before they are deleted.                *)
CloseOK ==
    /\ closing.stage # "open" => \A t \in Threads \ Unjoined : pc[t] = "exited"
    /\ \A t \in Threads : pc[t] = "undefined" => Deleted
    /\ asyncOpen = closing.i..AsyncCount
    /\ 1..(closing.i - 1) \subseteq exited
    /\ closing.stage # "closed" => synchOpen = Synch
    /\ \A w \in exited : executing[w] = 0

Inv == TypeOK /\ UserLocks /\ PingerOK /\ CloseOK

-----------------------------------------------------------------------------

(* ++i % num_cons is an index of the array. *)
LEMMA NextIndexType ==
    \A i \in Nat : NextIndex(i) \in Synch /\ NextIndex(i) \in 0..(SynchCount + AsyncCount)
  BY PoolAssumption DEF NextIndex, Synch

(* Appending to the queue keeps its type as long as the bound on operations *)
(* is respected.                                                            *)
LEMMA EnqueueType ==
    ASSUME TypeOK, Enqueue, enqueued < MaxOps + AsyncCount
    PROVE  queue' \in Seq(Ops) /\ enqueued' \in {0} \cup Ops /\ enqueued' = enqueued + 1
  BY PoolAssumption DEF TypeOK, Enqueue, Ops

LEMMA InitInv == Init => Inv
  <1> SUFFICES ASSUME Init PROVE Inv
    OBVIOUS
  <1>1. TypeOK
    BY PoolAssumption DEF Init, TypeOK, Workers, Synch, Ops, Closing, ThreadStates
  <1>2. UserLocks /\ PingerOK
    BY PoolAssumption DEF Init, UserLocks, PingerOK
  <1>3. CloseOK
    BY PoolAssumption DEF Init, CloseOK, Workers, Synch
  <1> QED BY <1>1, <1>2, <1>3 DEF Inv

LEMMA CoreThreadInv ==
    ASSUME Inv, NEW t \in Threads, CoreThread(t)
    PROVE  Inv'
  <1>0. /\ TypeOK /\ UserLocks /\ PingerOK /\ CloseOK
        /\ pc \in [Threads -> ThreadStates]
    BY DEF Inv, TypeOK
  <1>1. CASE Delay(t)
    <2>1. enqueued < MaxOps + AsyncCount
      BY <1>0, <1>1, PoolAssumption DEF Delay, TypeOK, Ops
    <2>2. TypeOK'
      BY <1>0, <1>1, <2>1, EnqueueType DEF TypeOK, Delay, workerVars, threadVars, closeVars
    <2>3. UserLocks' /\ CloseOK'
      BY <1>0, <1>1 DEF UserLocks, CloseOK, Deleted, Delay, workerVars, threadVars, closeVars
    <2>4. PingerOK'
      BY <1>0, <1>1, <2>1, EnqueueType, PoolAssumption
         DEF PingerOK, Delay, threadVars, TypeOK, Ops
    <2> QED BY <2>2, <2>3, <2>4 DEF Inv
  <1>2. CASE BeginDirect(t)
    <2>1. TypeOK'
      <3>1. NextIndex(0) \in Synch /\ NextIndex(0) \in 0..(SynchCount + AsyncCount)
        BY NextIndexType
      <3> QED
        BY <1>0, <1>2, <3>1
           DEF TypeOK, BeginDirect, poolVars, workerVars, closeVars, ThreadStates
    <2>2. UserLocks' /\ PingerOK'
      BY <1>0, <1>2, PoolAssumption DEF UserLocks, PingerOK, BeginDirect, TypeOK, poolVars
    <2>3. CloseOK'
      BY <1>0, <1>2 DEF CloseOK, Deleted, BeginDirect, workerVars, closeVars
    <2> QED BY <2>1, <2>2, <2>3 DEF Inv
  <1>3. CASE GetFreeConnection(t)
    <2>1. TypeOK'
      BY <1>0, <1>3, PoolAssumption
         DEF TypeOK, GetFreeConnection, LockIfReady, poolVars, workerVars, closeVars, ThreadStates
    <2>2. UserLocks' /\ PingerOK'
      BY <1>0, <1>3, PoolAssumption
         DEF UserLocks, PingerOK, GetFreeConnection, LockIfReady, TypeOK, poolVars
    <2>3. CloseOK'
      BY <1>0, <1>3 DEF CloseOK, Deleted, GetFreeConnection, workerVars, closeVars
    <2> QED BY <2>1, <2>2, <2>3 DEF Inv
  <1>4. CASE TryNextConnection(t)
    <2>1. TypeOK'
      <3>1. index[t] \in Nat
        BY <1>0, PoolAssumption DEF TypeOK
      <3>2. NextIndex(index[t]) \in Synch /\ NextIndex(index[t]) \in 0..(SynchCount + AsyncCount)
        BY <3>1, NextIndexType
      <3> QED
        BY <1>0, <1>4, <3>2 DEF TypeOK, TryNextConnection, poolVars, workerVars, closeVars
    <2>2. UserLocks' /\ PingerOK'
      BY <1>0, <1>4, PoolAssumption DEF UserLocks, PingerOK, TryNextConnection, TypeOK, poolVars
    <2>3. CloseOK'
      BY <1>0, <1>4 DEF CloseOK, Deleted, TryNextConnection, workerVars, closeVars
    <2> QED BY <2>1, <2>2, <2>3 DEF Inv
  <1>5. CASE EndDirect(t)
    <2>1. TypeOK'
      BY <1>0, <1>5, PoolAssumption
         DEF TypeOK, EndDirect, Unlock, poolVars, workerVars, closeVars, ThreadStates
    <2>2. UserLocks' /\ PingerOK'
      BY <1>0, <1>5, PoolAssumption
         DEF UserLocks, PingerOK, EndDirect, Unlock, TypeOK, poolVars
    <2>3. CloseOK'
      BY <1>0, <1>5 DEF CloseOK, Deleted, EndDirect, workerVars, closeVars
    <2> QED BY <2>1, <2>2, <2>3 DEF Inv
  <1>6. CASE Exit(t)
    <2>1. TypeOK'
      BY <1>0, <1>6 DEF TypeOK, Exit, poolVars, workerVars, closeVars, ThreadStates
    <2>2. UserLocks' /\ PingerOK'
      BY <1>0, <1>6, PoolAssumption DEF UserLocks, PingerOK, Exit, TypeOK, poolVars
    <2>3. CloseOK'
      BY <1>0, <1>6 DEF CloseOK, Deleted, Exit, workerVars, closeVars
    <2> QED BY <2>1, <2>2, <2>3 DEF Inv
  <1>7. CASE BeginEscapeString(t)
    <2>1. TypeOK'
      BY <1>0, <1>7, PoolAssumption
         DEF TypeOK, BeginEscapeString, poolVars, workerVars, closeVars, ThreadStates, Synch
    <2>2. UserLocks' /\ PingerOK'
      BY <1>0, <1>7, PoolAssumption DEF UserLocks, PingerOK, BeginEscapeString, TypeOK, poolVars
    <2>3. CloseOK'
      BY <1>0, <1>7 DEF CloseOK, Deleted, BeginEscapeString, workerVars, closeVars
    <2> QED BY <2>1, <2>2, <2>3 DEF Inv
  <1>8. CASE EndEscapeString(t) \/ UseDeletedPool(t)
    <2>1. TypeOK'
      BY <1>0, <1>8
         DEF TypeOK, EndEscapeString, UseDeletedPool, poolVars, workerVars, closeVars, ThreadStates
    <2>2. UserLocks' /\ PingerOK'
      BY <1>0, <1>8, PoolAssumption
         DEF UserLocks, PingerOK, EndEscapeString, UseDeletedPool, TypeOK, poolVars
    <2>3. CloseOK'
      BY <1>0, <1>8 DEF CloseOK, Deleted, EndEscapeString, UseDeletedPool, workerVars, closeVars
    <2> QED BY <2>1, <2>2, <2>3 DEF Inv
  <1> QED BY <1>1, <1>2, <1>3, <1>4, <1>5, <1>6, <1>7, <1>8 DEF CoreThread

LEMMA KeepAliveInv ==
    ASSUME Inv, KeepAlive
    PROVE  Inv'
  <1>0. /\ closing.stage = "open" /\ TypeOK /\ UserLocks /\ PingerOK /\ CloseOK
        /\ Pinger \in Threads /\ index[Pinger] \in 0..(SynchCount + AsyncCount)
    BY PoolAssumption
       DEF Inv, CloseOK, KeepAlive, BeginKeepAlive, PingSynch, SkipBusySynch, EndPing, EndPings,
           EnqueuePing, EndKeepAlive, TypeOK, Closing
  <1>1. CASE BeginKeepAlive
    <2>1. TypeOK'
      BY <1>0, <1>1, PoolAssumption
         DEF TypeOK, BeginKeepAlive, poolVars, workerVars, closeVars, ThreadStates
    <2>2. UserLocks' /\ PingerOK'
      BY <1>0, <1>1, PoolAssumption
         DEF UserLocks, PingerOK, BeginKeepAlive, TypeOK, poolVars, Ops
    <2>3. CloseOK'
      BY <1>0, <1>1 DEF CloseOK, Deleted, BeginKeepAlive, workerVars, closeVars
    <2> QED BY <2>1, <2>2, <2>3 DEF Inv
  <1>2. CASE PingSynch
    <2>1. index[Pinger] \in Synch
      BY <1>0, <1>2, PoolAssumption DEF PingSynch, Synch
    <2>2. TypeOK'
      BY <1>0, <1>2, <2>1, PoolAssumption
         DEF TypeOK, PingSynch, LockIfReady, poolVars, workerVars, closeVars, ThreadStates
    <2>3. UserLocks' /\ PingerOK'
      BY <1>0, <1>2, <2>1, PoolAssumption
         DEF UserLocks, PingerOK, PingSynch, LockIfReady, TypeOK, poolVars
    <2>4. CloseOK'
      BY <1>0, <1>2 DEF CloseOK, Deleted, PingSynch, workerVars, closeVars
    <2> QED BY <2>2, <2>3, <2>4 DEF Inv
  <1>3. CASE SkipBusySynch
    <2>1. TypeOK'
      BY <1>0, <1>3, PoolAssumption
         DEF TypeOK, SkipBusySynch, poolVars, workerVars, closeVars
    <2>2. UserLocks' /\ PingerOK'
      BY <1>0, <1>3, PoolAssumption DEF UserLocks, PingerOK, SkipBusySynch, TypeOK, poolVars
    <2>3. CloseOK'
      BY <1>0, <1>3 DEF CloseOK, Deleted, SkipBusySynch, workerVars, closeVars
    <2> QED BY <2>1, <2>2, <2>3 DEF Inv
  <1>4. CASE EndPing
    <2>1. index[Pinger] \in Synch
      BY <1>0, <1>4 DEF EndPing, TypeOK
    <2>2. TypeOK'
      BY <1>0, <1>4, <2>1, PoolAssumption
         DEF TypeOK, EndPing, Unlock, poolVars, workerVars, closeVars, ThreadStates, Synch
    <2>3. UserLocks' /\ PingerOK'
      BY <1>0, <1>4, <2>1, PoolAssumption
         DEF UserLocks, PingerOK, EndPing, Unlock, TypeOK, poolVars, Synch
    <2>4. CloseOK'
      BY <1>0, <1>4 DEF CloseOK, Deleted, EndPing, workerVars, closeVars
    <2> QED BY <2>2, <2>3, <2>4 DEF Inv
  <1>5. CASE EndPings
    <2>1. TypeOK'
      BY <1>0, <1>5, PoolAssumption
         DEF TypeOK, EndPings, poolVars, workerVars, closeVars, ThreadStates
    <2>2. UserLocks' /\ PingerOK'
      BY <1>0, <1>5, PoolAssumption DEF UserLocks, PingerOK, EndPings, TypeOK, poolVars, Ops
    <2>3. CloseOK'
      BY <1>0, <1>5 DEF CloseOK, Deleted, EndPings, workerVars, closeVars
    <2> QED BY <2>1, <2>2, <2>3 DEF Inv
  <1>6. CASE EnqueuePing
    <2>1. enqueued < MaxOps + AsyncCount
      BY <1>0, <1>6, PoolAssumption DEF EnqueuePing, PingerOK, TypeOK, Ops
    <2>2. queue' \in Seq(Ops) /\ enqueued' \in {0} \cup Ops /\ enqueued' = enqueued + 1
      BY <1>0, <1>6, <2>1, EnqueueType DEF EnqueuePing
    <2>3. TypeOK'
      BY <1>0, <1>6, <2>2, PoolAssumption
         DEF TypeOK, EnqueuePing, workerVars, closeVars
    <2>4. UserLocks' /\ PingerOK'
      BY <1>0, <1>6, <2>2, PoolAssumption DEF UserLocks, PingerOK, EnqueuePing, TypeOK, Ops
    <2>5. CloseOK'
      BY <1>0, <1>6 DEF CloseOK, Deleted, EnqueuePing, workerVars, closeVars
    <2> QED BY <2>3, <2>4, <2>5 DEF Inv
  <1>7. CASE EndKeepAlive
    <2>1. TypeOK'
      BY <1>0, <1>7 DEF TypeOK, EndKeepAlive, poolVars, workerVars, closeVars, ThreadStates
    <2>2. UserLocks' /\ PingerOK'
      BY <1>0, <1>7, PoolAssumption DEF UserLocks, PingerOK, EndKeepAlive, TypeOK, poolVars
    <2>3. CloseOK'
      BY <1>0, <1>7 DEF CloseOK, Deleted, EndKeepAlive, workerVars, closeVars
    <2> QED BY <2>1, <2>2, <2>3 DEF Inv
  <1> QED BY <1>1, <1>2, <1>3, <1>4, <1>5, <1>6, <1>7 DEF KeepAlive

LEMMA WorkerInv ==
    ASSUME Inv, NEW w \in Workers, Worker(w)
    PROVE  Inv'
  <1>0. TypeOK /\ UserLocks /\ PingerOK /\ CloseOK
    BY DEF Inv
  <1>1. CASE Dequeue(w)
    <2>1. Head(queue) \in Ops /\ Tail(queue) \in Seq(Ops)
      BY <1>0, <1>1 DEF Dequeue, TypeOK
    <2>2. TypeOK'
      BY <1>0, <1>1, <2>1 DEF TypeOK, Dequeue, TakeRequest, threadVars, closeVars
    <2>3. UserLocks' /\ PingerOK'
      BY <1>0, <1>1 DEF UserLocks, PingerOK, Dequeue, threadVars
    <2>4. CloseOK'
      BY <1>0, <1>1 DEF CloseOK, Deleted, Dequeue, threadVars, closeVars, TypeOK
    <2> QED BY <2>2, <2>3, <2>4 DEF Inv
  <1>2. CASE Call(w)
    <2>1. executing[w] \in Ops
      BY <1>0, <1>2 DEF Call, TypeOK
    <2>2. TypeOK'
      BY <1>0, <1>2, <2>1 DEF TypeOK, Call, poolVars, threadVars, closeVars
    <2>3. UserLocks' /\ PingerOK'
      BY <1>0, <1>2 DEF UserLocks, PingerOK, Call, poolVars, threadVars
    <2>4. CloseOK'
      BY <1>0, <1>2 DEF CloseOK, Deleted, Call, threadVars, closeVars, TypeOK
    <2> QED BY <2>2, <2>3, <2>4 DEF Inv
  <1>3. CASE ExitWorker(w)
    <2>1. TypeOK'
      BY <1>0, <1>3 DEF TypeOK, ExitWorker, poolVars, threadVars, closeVars
    <2>2. UserLocks' /\ PingerOK'
      BY <1>0, <1>3 DEF UserLocks, PingerOK, ExitWorker, poolVars, threadVars
    <2>3. CloseOK'
      BY <1>0, <1>3 DEF CloseOK, Deleted, ExitWorker, threadVars, closeVars
    <2> QED BY <2>1, <2>2, <2>3 DEF Inv
  <1> QED BY <1>1, <1>2, <1>3 DEF Worker

LEMMA CloseInv ==
    ASSUME Inv, Close
    PROVE  Inv'
  <1>0. TypeOK /\ UserLocks /\ PingerOK /\ CloseOK /\ closing.i \in 1..(AsyncCount + 1)
    BY DEF Inv, TypeOK, Closing
  <1>1. CASE BeginClose
    <2>1. closing' = [closing EXCEPT !.stage = "async"] /\ closing' \in Closing
      BY <1>0, <1>1 DEF BeginClose, TypeOK, Closing
    <2>2. TypeOK'
      <3>0. queue' = <<>> /\ active' = FALSE
        BY <1>1 DEF BeginClose, CloseQueue
      <3>1. queue' \in Seq(Ops)
        BY <3>0
      <3>3. active' \in BOOLEAN
        BY <3>0
      <3>2. /\ pc' = pc /\ index' = index /\ m_Mutex' = m_Mutex
            /\ executing' = executing /\ exited' = exited /\ executed' = executed
            /\ enqueued' = enqueued /\ asyncOpen' = asyncOpen /\ synchOpen' = synchOpen
        BY <1>1 DEF BeginClose, workerVars, threadVars
      <3> QED BY <1>0, <2>1, <3>1, <3>2, <3>3 DEF TypeOK
    <2>3. UserLocks' /\ PingerOK'
      BY <1>0, <1>1 DEF UserLocks, PingerOK, BeginClose, threadVars
    <2>4. CloseOK'
      BY <1>0, <1>1, <2>1 DEF CloseOK, Deleted, BeginClose, workerVars, threadVars, TypeOK, Closing
    <2> QED BY <2>2, <2>3, <2>4 DEF Inv
  <1>2. CASE CloseAsync
    <2>1. closing' = [closing EXCEPT !.i = closing.i + 1] /\ closing' \in Closing
      <3>1. closing.i + 1 \in 1..(AsyncCount + 1)
        BY <1>0, <1>2, PoolAssumption DEF CloseAsync
      <3>2. closing' = [closing EXCEPT !.i = closing.i + 1]
        BY <1>2 DEF CloseAsync
      <3> QED BY <1>0, <3>1, <3>2 DEF TypeOK, Closing
    <2>2. TypeOK'
      BY <1>0, <1>2, <2>1 DEF TypeOK, CloseAsync, poolVars, workerVars, threadVars
    <2>3. UserLocks' /\ PingerOK'
      BY <1>0, <1>2 DEF UserLocks, PingerOK, CloseAsync, poolVars, threadVars
    <2>4. closing'.i = closing.i + 1 /\ closing'.stage = closing.stage
      BY <1>0, <2>1 DEF TypeOK, Closing
    <2>5. asyncOpen' = closing'.i..AsyncCount
      BY <1>0, <1>2, <2>4, PoolAssumption DEF CloseOK, Deleted, CloseAsync
    <2>6. 1..(closing'.i - 1) \subseteq exited'
      BY <1>0, <1>2, <2>4 DEF CloseOK, Deleted, CloseAsync, WorkerJoined, workerVars
    <2>7. CloseOK'
      BY <1>0, <1>2, <2>4, <2>5, <2>6 DEF CloseOK, Deleted, CloseAsync, workerVars, threadVars
    <2> QED BY <2>2, <2>3, <2>7 DEF Inv
  <1>3. CASE EndCloseAsync
    <2>1. closing' = [closing EXCEPT !.stage = "synch"] /\ closing' \in Closing
      BY <1>0, <1>3 DEF EndCloseAsync, TypeOK, Closing
    <2>2. TypeOK'
      BY <1>0, <1>3, <2>1 DEF TypeOK, EndCloseAsync, poolVars, workerVars, threadVars
    <2>3. UserLocks' /\ PingerOK'
      BY <1>0, <1>3 DEF UserLocks, PingerOK, EndCloseAsync, poolVars, threadVars
    <2>4. CloseOK'
      BY <1>0, <1>3, <2>1 DEF CloseOK, Deleted, EndCloseAsync, workerVars, threadVars, TypeOK, Closing
    <2> QED BY <2>2, <2>3, <2>4 DEF Inv
  <1>4. CASE CloseSynch
    <2>1. closing' = [closing EXCEPT !.stage = "closed"] /\ closing' \in Closing
      BY <1>0, <1>4 DEF CloseSynch, TypeOK, Closing
    <2>2. TypeOK'
      BY <1>0, <1>4, <2>1 DEF TypeOK, CloseSynch, poolVars, workerVars, threadVars
    <2>3. UserLocks' /\ PingerOK'
      BY <1>0, <1>4 DEF UserLocks, PingerOK, CloseSynch, poolVars, threadVars
    <2>4. CloseOK'
      BY <1>0, <1>4, <2>1 DEF CloseOK, Deleted, CloseSynch, workerVars, threadVars, TypeOK, Closing
    <2> QED BY <2>2, <2>3, <2>4 DEF Inv
  <1> QED BY <1>1, <1>2, <1>3, <1>4 DEF Close

LEMMA StepInv == Inv /\ [Next]_vars => Inv'
  <1> SUFFICES ASSUME Inv, [Next]_vars PROVE Inv'
    OBVIOUS
  <1>1. CASE UNCHANGED vars
    BY <1>1 DEF Inv, TypeOK, UserLocks, PingerOK, CloseOK, Deleted,
                vars, poolVars, workerVars, threadVars, closeVars
  <1> QED
    BY <1>1, CoreThreadInv, KeepAliveInv, WorkerInv, CloseInv DEF Next, Terminated

LEMMA InvHolds == Spec => []Inv
  <1> QED BY InitInv, StepInv, PTL DEF Spec

(* A synchronous MySQL handle executes for one thread at a time, whatever   *)
(* the number of threads and connections: GetFreeConnection and KeepAlive   *)
(* lock the mutex of the connection they then use, and index and mutex stay *)
(* together until it is unlocked.  EscapeString, which locks nothing, is    *)
(* the only other use of a handle.                                          *)
THEOREM HandlesExclusive == Spec => [](TypeOK /\ OneThreadPerConnection)
  <1>1. Inv => TypeOK /\ OneThreadPerConnection
    BY DEF Inv, UserLocks, OneThreadPerConnection
  <1> QED BY <1>1, InvHolds, PTL

(* Close deletes no connection that a worker, or a core thread that         *)
(* Master::Run joins, uses or may use again.  It says nothing about the     *)
(* threads in Unjoined, which do meet deleted connections in the model.     *)
THEOREM DeletedUnused == Spec => []NoUseAfterClose
  <1>1. Inv => NoUseAfterClose
    <2> SUFFICES ASSUME Inv PROVE NoUseAfterClose
      OBVIOUS
    <2>1. closing.i \in 1..(AsyncCount + 1)
      BY DEF Inv, TypeOK, Closing
    <2>2. Workers \ asyncOpen \subseteq exited
      BY <2>1, PoolAssumption DEF Inv, CloseOK, Workers
    <2>3. \A w \in Workers : executing[w] # 0 => w \in asyncOpen
      BY <2>2 DEF Inv, CloseOK
    <2>4. ASSUME NEW t \in Threads \ Unjoined
          PROVE  pc[t] # "undefined"
                 /\ (pc[t] \in {"use", "escape", "pinging"} => index[t] \in synchOpen)
      <3>1. pc[t] # "exited" => closing.stage = "open"
        BY DEF Inv, CloseOK
      <3> QED BY <3>1 DEF Inv, CloseOK, Deleted, TypeOK
    <2> QED BY <2>2, <2>3, <2>4 DEF NoUseAfterClose
  <1> QED BY <1>1, InvHolds, PTL

(* For any number of threads and connections, a thread that searches for a *)
(* free connection, pings one or uses one is inside the array of            *)
(* connections: GetFreeConnection's index wraps in time.                    *)
THEOREM PoolTypes == Spec => []TypeOK
  <1>1. Inv => TypeOK
    BY DEF Inv
  <1> QED BY <1>1, InvHolds, PTL
=============================================================================
