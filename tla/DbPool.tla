------------------------------- MODULE DbPool -------------------------------
(***************************************************************************)
(* One DatabaseWorkerPool (shared/Database/DatabaseWorkerPool.h): core     *)
(* threads enqueue delayed operations for the worker threads and run       *)
(* blocking ones on a synchronous connection they lock for the call;       *)
(* EscapeString reads the handle of the first one without locking it; the  *)
(* world thread also pings idle connections (KeepAlive); the main thread   *)
(* closes the pool when the core threads it joins have exited.             *)
(*                                                                         *)
(* Worker i runs DatabaseWorker::svc on asynchronous connection i.  The    *)
(* operations are numbered in the order they are enqueued.                 *)
(***************************************************************************)
EXTENDS Integers, Sequences, FiniteSets, SequencesExt

CONSTANTS
    Threads,        \* core threads: world, network, map update, consoles
    Unjoined,       \* those Master::Run does not join before it closes the pool:
                    \* remote access sockets, the command line
    Pinger,         \* the one that calls KeepAlive
    NoThread,       \* owner of a free mutex
    AsyncCount,     \* _connectionCount[IDX_ASYNC]
    SynchCount,     \* _connectionCount[IDX_SYNCH]
    QueueLimit,     \* operations the ACE queue takes before enqueue blocks
    MaxOps          \* bound: no Delay or KeepAlive starts after this many operations

ASSUME PoolAssumption ==
    /\ Unjoined \subseteq Threads /\ Pinger \in Threads \ Unjoined /\ NoThread \notin Threads
    /\ AsyncCount \in Nat \ {0} /\ SynchCount \in Nat \ {0}
    /\ QueueLimit \in Nat \ {0} /\ MaxOps \in Nat

VARIABLES
    queue,          \* the ACE_Activation_Queue
    active,         \* the queue is activated
    enqueued,       \* operations enqueued so far
    executing,      \* operation each worker executes; 0 is none
    exited,         \* workers whose svc returned
    executed,       \* operations in the order their execution ended
    asyncOpen,      \* asynchronous connections that are not deleted
    synchOpen,      \* synchronous connections that are not deleted
    m_Mutex,        \* synchronous connection -> owner
    pc,             \* where each core thread is
    index,          \* connection index of each core thread's loop
    closing         \* progress of Close; see Closing

poolVars   == <<queue, active, enqueued>>
workerVars == <<executing, exited, executed>>
threadVars == <<m_Mutex, pc, index>>
closeVars  == <<asyncOpen, synchOpen, closing>>
vars       == <<poolVars, workerVars, threadVars, closeVars>>

Workers == 1..AsyncCount
Synch   == 0..(SynchCount - 1)
Ops     == 1..(MaxOps + AsyncCount)

(* "open", then "async" while worker i is joined and its connection closed, *)
(* then "synch", then "closed".                                             *)
Closing == [stage : {"open", "async", "synch", "closed"}, i : 1..(AsyncCount + 1)]

(* run: in the core; search: in GetFreeConnection; use: executing on the    *)
(* locked connection; ping, pinging: in KeepAlive's loop over connections;  *)
(* enqueue: in its second loop; escape: in EscapeString; undefined: it used *)
(* a connection or the queue after their deletion.                          *)
ThreadStates ==
    {"run", "search", "use", "escape", "ping", "pinging", "enqueue", "exited", "undefined"}

(* Type invariant; GetFreeConnection never leaves the array of connections. *)
TypeOK ==
    /\ queue \in Seq(Ops) /\ active \in BOOLEAN /\ enqueued \in {0} \cup Ops
    /\ executing \in [Workers -> {0} \cup Ops] /\ exited \subseteq Workers
    /\ executed \in Seq(Ops)
    /\ asyncOpen \subseteq Workers /\ synchOpen \subseteq Synch
    /\ m_Mutex \in [Synch -> Threads \cup {NoThread}]
    /\ pc \in [Threads -> ThreadStates]
    /\ index \in [Threads -> 0..(SynchCount + AsyncCount)]
    /\ \A t \in Threads : pc[t] \in {"search", "use", "escape", "pinging"} => index[t] \in Synch
    /\ closing \in Closing

Init ==
    /\ queue = <<>> /\ active = TRUE /\ enqueued = 0
    /\ executing = [w \in Workers |-> 0] /\ exited = {}
    /\ executed = <<>>
    /\ asyncOpen = Workers /\ synchOpen = Synch
    /\ m_Mutex = [c \in Synch |-> NoThread]
    /\ pc = [t \in Threads |-> "run"] /\ index = [t \in Threads |-> 0]
    /\ closing = [stage |-> "open", i |-> 1]

-----------------------------------------------------------------------------
(* Core threads *)

(* The queue's high water mark: enqueue without a timeout waits for room. *)
Enqueue ==
    /\ Len(queue) < QueueLimit
    /\ enqueued' = enqueued + 1
    /\ queue' = Append(queue, enqueued')

Deleted == closing.stage = "closed"

(* Execute, PExecute, AsyncQuery, DelayQueryHolder, CommitTransaction.  On  *)
(* the closed queue enqueue fails and nothing is kept of the operation.     *)
Delay(t) ==
    /\ pc[t] = "run" /\ active /\ enqueued < MaxOps
    /\ Enqueue
    /\ UNCHANGED <<active, workerVars, threadVars, closeVars>>

(* GetFreeConnection's loop: _connections[IDX_SYNCH][++i % num_cons] *)
NextIndex_NoWrap(i) == i + 1

NextIndex(i) == (i + 1) % SynchCount

(* DirectExecute, Query, DirectCommitTransaction: GetFreeConnection starts  *)
(* its search at the second connection.                                     *)
BeginDirect(t) ==
    /\ pc[t] = "run" /\ ~Deleted
    /\ pc' = [pc EXCEPT ![t] = "search"]
    /\ index' = [index EXCEPT ![t] = NextIndex(0)]
    /\ UNCHANGED <<m_Mutex, poolVars, workerVars, closeVars>>

LockIfReady_Shared(t, c) == m_Mutex' = [m_Mutex EXCEPT ![c] = t]

LockIfReady(t, c) ==
    /\ m_Mutex[c] = NoThread
    /\ m_Mutex' = [m_Mutex EXCEPT ![c] = t]

Unlock(c) == m_Mutex' = [m_Mutex EXCEPT ![c] = NoThread]

GetFreeConnection(t) ==
    /\ pc[t] = "search" /\ ~Deleted
    /\ LockIfReady(t, index[t])
    /\ pc' = [pc EXCEPT ![t] = "use"]
    /\ UNCHANGED <<index, poolVars, workerVars, closeVars>>

TryNextConnection(t) ==
    /\ pc[t] = "search" /\ ~Deleted /\ m_Mutex[index[t]] # NoThread
    /\ index' = [index EXCEPT ![t] = NextIndex(@)]
    /\ UNCHANGED <<m_Mutex, pc, poolVars, workerVars, closeVars>>

EndDirect(t) ==
    /\ pc[t] = "use" /\ ~Deleted
    /\ Unlock(index[t])
    /\ pc' = [pc EXCEPT ![t] = "run"]
    /\ UNCHANGED <<index, poolVars, workerVars, closeVars>>

(* mysql_real_escape_string on the handle of the first synchronous          *)
(* connection; its mutex is not taken.                                      *)
BeginEscapeString(t) ==
    /\ pc[t] = "run" /\ ~Deleted
    /\ pc' = [pc EXCEPT ![t] = "escape"]
    /\ index' = [index EXCEPT ![t] = 0]
    /\ UNCHANGED <<m_Mutex, poolVars, workerVars, closeVars>>

EndEscapeString(t) ==
    /\ pc[t] = "escape" /\ ~Deleted
    /\ pc' = [pc EXCEPT ![t] = "run"]
    /\ UNCHANGED <<m_Mutex, index, poolVars, workerVars, closeVars>>

(* A thread still runs when Close has deleted the connections and the       *)
(* queue, and calls the pool or is in the middle of a call: undefined.      *)
UseDeletedPool(t) ==
    /\ Deleted /\ pc[t] \in {"run", "search", "use", "escape"}
    /\ pc' = [pc EXCEPT ![t] = "undefined"]
    /\ UNCHANGED <<m_Mutex, index, poolVars, workerVars, closeVars>>

-----------------------------------------------------------------------------
(* KeepAlive: ping the synchronous connections that are free, then enqueue  *)
(* one PingOperation per worker.                                            *)

BeginKeepAlive ==
    /\ pc[Pinger] = "run" /\ enqueued < MaxOps
    /\ pc' = [pc EXCEPT ![Pinger] = "ping"]
    /\ index' = [index EXCEPT ![Pinger] = 0]
    /\ UNCHANGED <<m_Mutex, poolVars, workerVars, closeVars>>

PingSynch ==
    /\ pc[Pinger] = "ping" /\ index[Pinger] < SynchCount
    /\ LockIfReady(Pinger, index[Pinger])
    /\ pc' = [pc EXCEPT ![Pinger] = "pinging"]
    /\ UNCHANGED <<index, poolVars, workerVars, closeVars>>

SkipBusySynch ==
    /\ pc[Pinger] = "ping" /\ index[Pinger] < SynchCount
    /\ m_Mutex[index[Pinger]] # NoThread
    /\ index' = [index EXCEPT ![Pinger] = @ + 1]
    /\ UNCHANGED <<m_Mutex, pc, poolVars, workerVars, closeVars>>

EndPing ==
    /\ pc[Pinger] = "pinging"
    /\ Unlock(index[Pinger])
    /\ pc' = [pc EXCEPT ![Pinger] = "ping"]
    /\ index' = [index EXCEPT ![Pinger] = @ + 1]
    /\ UNCHANGED <<poolVars, workerVars, closeVars>>

EndPings ==
    /\ pc[Pinger] = "ping" /\ index[Pinger] = SynchCount
    /\ pc' = [pc EXCEPT ![Pinger] = "enqueue"]
    /\ index' = [index EXCEPT ![Pinger] = 0]
    /\ UNCHANGED <<m_Mutex, poolVars, workerVars, closeVars>>

EnqueuePing ==
    /\ pc[Pinger] = "enqueue" /\ index[Pinger] < AsyncCount
    /\ Enqueue
    /\ index' = [index EXCEPT ![Pinger] = @ + 1]
    /\ UNCHANGED <<m_Mutex, pc, active, workerVars, closeVars>>

EndKeepAlive ==
    /\ pc[Pinger] = "enqueue" /\ index[Pinger] = AsyncCount
    /\ pc' = [pc EXCEPT ![Pinger] = "run"]
    /\ UNCHANGED <<m_Mutex, index, poolVars, workerVars, closeVars>>

Exit(t) ==
    /\ pc[t] = "run"
    /\ pc' = [pc EXCEPT ![t] = "exited"]
    /\ UNCHANGED <<m_Mutex, index, poolVars, workerVars, closeVars>>

-----------------------------------------------------------------------------
(* DatabaseWorker::svc *)

TakeRequest == queue' = Tail(queue)

Dequeue(w) ==
    /\ w \notin exited /\ executing[w] = 0 /\ active /\ queue # <<>>
    /\ executing' = [executing EXCEPT ![w] = Head(queue)]
    /\ TakeRequest
    /\ UNCHANGED <<active, enqueued, exited, executed, threadVars, closeVars>>

Call(w) ==
    /\ executing[w] # 0
    /\ executed' = Append(executed, executing[w])
    /\ executing' = [executing EXCEPT ![w] = 0]
    /\ UNCHANGED <<exited, poolVars, threadVars, closeVars>>

(* dequeue returns NULL once the queue is deactivated. *)
ShutDown_Empty == queue = <<>>

ShutDown == ~active

ExitWorker(w) ==
    /\ w \notin exited /\ executing[w] = 0 /\ ShutDown
    /\ exited' = exited \cup {w}
    /\ UNCHANGED <<executing, executed, poolVars, threadVars, closeVars>>

-----------------------------------------------------------------------------
(* DatabaseWorkerPool::Close, by the main thread after it has joined the    *)
(* core threads it keeps track of.  ACE's close() deactivates the queue and *)
(* flushes it.                                                              *)

CloseQueue_FlushOnly ==
    /\ UNCHANGED active
    /\ queue' = <<>>

CloseQueue ==
    /\ active' = FALSE
    /\ queue' = <<>>

BeginClose ==
    /\ closing.stage = "open"
    /\ \A t \in Threads \ Unjoined : pc[t] = "exited"
    /\ CloseQueue
    /\ closing' = [closing EXCEPT !.stage = "async"]
    /\ UNCHANGED <<enqueued, asyncOpen, synchOpen, workerVars, threadVars>>

WorkerJoined_NoWait(w) == TRUE

WorkerJoined(w) == w \in exited

CloseAsync ==
    /\ closing.stage = "async" /\ closing.i <= AsyncCount
    /\ WorkerJoined(closing.i)
    /\ asyncOpen' = asyncOpen \ {closing.i}
    /\ closing' = [closing EXCEPT !.i = @ + 1]
    /\ UNCHANGED <<synchOpen, poolVars, workerVars, threadVars>>

EndCloseAsync ==
    /\ closing.stage = "async" /\ closing.i = AsyncCount + 1
    /\ closing' = [closing EXCEPT !.stage = "synch"]
    /\ UNCHANGED <<asyncOpen, synchOpen, poolVars, workerVars, threadVars>>

CloseSynch ==
    /\ closing.stage = "synch"
    /\ synchOpen' = {}
    /\ closing' = [closing EXCEPT !.stage = "closed"]
    /\ UNCHANGED <<asyncOpen, poolVars, workerVars, threadVars>>

Terminated == closing.stage = "closed" /\ UNCHANGED vars

CoreThread(t) ==
    \/ Delay(t) \/ BeginDirect(t) \/ GetFreeConnection(t) \/ TryNextConnection(t)
    \/ EndDirect(t) \/ BeginEscapeString(t) \/ EndEscapeString(t) \/ UseDeletedPool(t)
    \/ Exit(t)
KeepAlive ==
    \/ BeginKeepAlive \/ PingSynch \/ SkipBusySynch \/ EndPing \/ EndPings
    \/ EnqueuePing \/ EndKeepAlive
Worker(w) == Dequeue(w) \/ Call(w) \/ ExitWorker(w)
Close == BeginClose \/ CloseAsync \/ EndCloseAsync \/ CloseSynch

Next ==
    \/ \E t \in Threads : CoreThread(t)
    \/ KeepAlive
    \/ \E w \in Workers : Worker(w)
    \/ Close
    \/ Terminated

Spec == Init /\ [][Next]_vars

(* Every worker thread and the main thread keep running; a core thread that *)
(* holds a connection finishes its call.                                    *)
Fairness ==
    /\ \A w \in Workers : WF_vars(Worker(w))
    /\ WF_vars(Close)
    /\ \A t \in Threads : WF_vars(EndDirect(t))
    /\ WF_vars(PingSynch \/ SkipBusySynch \/ EndPing \/ EndPings \/ EnqueuePing \/ EndKeepAlive)

FairSpec == Spec /\ Fairness

-----------------------------------------------------------------------------
(* Properties *)

(* A synchronous MySQL handle executes for one thread at a time, though     *)
(* GetFreeConnection and KeepAlive lock it on different paths, and though a *)
(* thread may be looking at the first handle in EscapeString meanwhile.     *)
OneThreadPerConnection ==
    \A s, t \in Threads :
        /\ pc[s] \in {"use", "pinging"} /\ pc[t] \in {"use", "pinging"}
        /\ index[s] = index[t]
        => s = t

(* Close deletes a connection only when no worker uses it or will use it    *)
(* again, nor a core thread that Master::Run joins; only a thread it does   *)
(* not join can meet the deleted connections.                               *)
NoUseAfterClose ==
    /\ \A w \in Workers : executing[w] # 0 => w \in asyncOpen
    /\ Workers \ asyncOpen \subseteq exited
    /\ \A t \in Threads \ Unjoined :
         pc[t] # "undefined"
         /\ (pc[t] \in {"use", "escape", "pinging"} => index[t] \in synchOpen)

(* While the pool is open an enqueued operation is eventually executed, so  *)
(* the future a session polls is eventually set.                            *)
OpsExecuted ==
    \A o \in Ops : o <= enqueued ~> (Contains(executed, o) \/ closing.stage # "open")

(* Close returns: every worker it joins leaves its loop. *)
CloseReturns == closing.stage = "async" ~> closing.stage = "closed"

(* Operations enqueued before the shutdown are executed: World::KickAll     *)
(* "save and kick all players" relies on it.                                *)
SavesExecuted ==
    closing.stage = "closed" => \A o \in 1..enqueued : Contains(executed, o)
=============================================================================
