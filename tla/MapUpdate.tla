----------------------------- MODULE MapUpdate -----------------------------
(***************************************************************************)
(* One world tick over the maps: MapManager::Update and MapUpdater         *)
(* (game/Maps), MapInstanced::Update, and the DelayExecutor threads        *)
(* (shared/Threading) that run the map updates.                            *)
(*                                                                         *)
(* The world thread schedules an update of each base map, waits until      *)
(* pending_requests is 0 and then goes over the maps itself.  The update   *)
(* of an instanced base map schedules one update for each of its instances *)
(* from the thread it runs on, or destroys the instance and frees its id.  *)
(* With no map update threads configured the world thread updates the maps *)
(* one after the other.                                                    *)
(*                                                                         *)
(* FreeInstanceId takes no lock, so two base maps may free ids at the same *)
(* time: its accesses to _nextInstanceId and to the word of bits are steps *)
(* of their own.                                                           *)
(***************************************************************************)
EXTENDS InstanceIds, Sequences

CONSTANTS
    Workers,        \* map update threads
    World,          \* the world thread
    PlainMaps,      \* base maps without instances
    Battlegrounds,  \* base maps whose instances are battlegrounds
    QueueLimit      \* requests the executor's queue takes

ASSUME MapUpdateAssumption ==
    /\ World \notin Workers /\ IsFiniteSet(Workers)
    /\ PlainMaps \cap Battlegrounds = {}
    /\ QueueLimit \in Nat

VARIABLES
    activated,      \* CONFIG_NUMTHREADS > 0 and the threads not yet stopped
    instances,      \* m_InstancedMaps of the base maps: pairs <<base, id>>
    deleted,        \* UnloadAll has deleted the maps
    queue,          \* requests of the executor; the id of a base map is 0
    pending_requests,
    world,          \* where the world thread is
    sleeping,       \* the world thread waits on m_condition
    toSchedule,     \* base maps its loop has not reached
    thread,         \* what each thread is doing, see Jobs
    updates,        \* history: updates of this tick, map -> number
    skipped,        \* history: maps this tick passes over
    exitedWorkers   \* threads whose svc returned

updaterVars == <<queue, pending_requests>>
worldVars   == <<world, sleeping, toSchedule>>
history     == <<updates, skipped>>
vars == <<idVars, activated, instances, deleted, updaterVars, worldVars,
          thread, history, exitedWorkers>>

BaseMaps == PlainMaps \cup Battlegrounds
Base(b)  == <<b, 0>>
Maps     == {Base(b) : b \in BaseMaps} \cup instances
Threads  == Workers \cup {World}

InstancesOf(b) == {m \in instances : m[1] = b}

(* What a thread does.  loop: updating a map, instances todo not visited    *)
(* yet.  lower, read, write: in FreeInstanceId(id), about to lower          *)
(* _nextInstanceId, to read the word of bits, to write it back.             *)
Idle == [at |-> "idle"]
Loop(m, todo) == [at |-> "loop", map |-> m, todo |-> todo]
Freeing(at, m, todo, i, lower, word) ==
    [at |-> at, map |-> m, todo |-> todo, id |-> i, lower |-> lower, word |-> word]

Busy(t)  == thread[t].at # "idle"
BusyWorkers == {w \in Workers : Busy(w)}
WorldStates == {"idle", "schedule", "wait", "delayed", "unload", "join", "stopped"}

Init ==
    /\ InitIds
    /\ activated \in BOOLEAN
    /\ instances = {} /\ deleted = FALSE
    /\ queue = <<>> /\ pending_requests = 0
    /\ world = "idle" /\ sleeping = FALSE /\ toSchedule = {}
    /\ thread = [t \in Threads |-> Idle]
    /\ updates = [m \in {} |-> 0] /\ skipped = {}
    /\ exitedWorkers = IF activated THEN {} ELSE Workers

-----------------------------------------------------------------------------
(* MapUpdater.  Its methods hold m_mutex from start to end. *)

(* The executor's queue is enqueued to with a zero timeout. *)
Accepts == Len(queue) < QueueLimit

(* schedule_update: a request that the executor refuses is not counted. *)
schedule_update(m) ==
    IF Accepts
    THEN /\ queue' = Append(queue, m)
         /\ pending_requests' = pending_requests + 1
         /\ UNCHANGED skipped
    ELSE /\ skipped' = skipped \cup {m}
         /\ UNCHANGED updaterVars

update_finished_NoBroadcast ==
    /\ pending_requests' = pending_requests - 1
    /\ UNCHANGED sleeping

(* update_finished; without a pending request it only logs an error. *)
update_finished ==
    IF pending_requests = 0
    THEN UNCHANGED <<pending_requests, sleeping>>
    ELSE pending_requests' = pending_requests - 1 /\ sleeping' = FALSE

(* wait: the world thread goes on, or sleeps until the next broadcast. *)
MayPass_NotQueued == queue = <<>>

MayPass == pending_requests = 0

WaitFor(next) ==
    /\ ~sleeping
    /\ IF MayPass THEN world' = next /\ UNCHANGED sleeping
                  ELSE sleeping' = TRUE /\ UNCHANGED world

-----------------------------------------------------------------------------
(* The world thread *)

(* Between two ticks: BattlegroundMgr::CreateNewBattleground and, for the   *)
(* first player, MapInstanced::CreateBattleground.                          *)
CreateBattleground(b) ==
    /\ world = "idle"
    /\ GenerateInstanceId
    /\ instances' = instances \cup {<<b, nextInstanceId>>}
    /\ UNCHANGED <<activated, deleted, updaterVars, worldVars, thread, history, exitedWorkers>>

(* MapManager::Update, once i_timer has passed *)
BeginUpdate ==
    /\ world = "idle"
    /\ world' = "schedule" /\ toSchedule' = BaseMaps
    /\ updates' = [m \in Maps |-> 0] /\ UNCHANGED skipped
    /\ UNCHANGED <<idVars, activated, instances, deleted, updaterVars, sleeping, thread, exitedWorkers>>

(* The job of a thread that starts updating m *)
StartJob_Again(m) == Loop(m, InstancesOf(m[1]))

StartJob(m) == Loop(m, IF m[2] = 0 THEN InstancesOf(m[1]) ELSE {})

Updated(m) == updates' = [updates EXCEPT ![m] = @ + 1]

ScheduleBaseMap(b) ==
    /\ world = "schedule" /\ b \in toSchedule /\ ~Busy(World)
    /\ toSchedule' = toSchedule \ {b}
    /\ \/ /\ activated
          /\ schedule_update(Base(b))
          /\ UNCHANGED <<thread, updates>>
       \/ /\ ~activated
          /\ thread' = [thread EXCEPT ![World] = StartJob(Base(b))]
          /\ Updated(Base(b))
          /\ UNCHANGED <<updaterVars, skipped>>
    /\ UNCHANGED <<idVars, activated, instances, deleted, world, sleeping, exitedWorkers>>

EndSchedule ==
    /\ world = "schedule" /\ toSchedule = {} /\ ~Busy(World)
    /\ world' = IF activated THEN "wait" ELSE "delayed"
    /\ UNCHANGED <<idVars, activated, instances, deleted, updaterVars, sleeping, toSchedule,
                   thread, history, exitedWorkers>>

Wait ==
    /\ world = "wait" /\ WaitFor("delayed")
    /\ UNCHANGED <<idVars, activated, instances, deleted, updaterVars, toSchedule,
                   thread, history, exitedWorkers>>

(* DelayedUpdate of every map, ObjectAccessor and transports *)
DelayedUpdate ==
    /\ world = "delayed" /\ world' = "idle"
    /\ updates' = [m \in {} |-> 0] /\ skipped' = {}
    /\ UNCHANGED <<idVars, activated, instances, deleted, updaterVars, sleeping, toSchedule,
                   thread, exitedWorkers>>

(* UnloadAll deletes the maps and then deactivates the updater, which waits *)
(* for pending updates, deactivates the queue and joins the threads.        *)
UnloadAll ==
    /\ world = "idle"
    /\ world' = "unload" /\ deleted' = TRUE /\ instances' = {}
    /\ UNCHANGED <<idVars, activated, updaterVars, sleeping, toSchedule, thread, history, exitedWorkers>>

Deactivate ==
    /\ world = "unload"
    /\ IF activated THEN WaitFor("join") ELSE world' = "stopped" /\ UNCHANGED sleeping
    /\ activated' = (activated /\ world' # "join")
    /\ UNCHANGED <<idVars, instances, deleted, updaterVars, toSchedule, thread, history, exitedWorkers>>

Join ==
    /\ world = "join" /\ exitedWorkers = Workers
    /\ world' = "stopped"
    /\ UNCHANGED <<idVars, activated, instances, deleted, updaterVars, sleeping, toSchedule,
                   thread, history, exitedWorkers>>

-----------------------------------------------------------------------------
(* Map update threads: DelayExecutor::svc *)

Dequeue(w) ==
    /\ w \in Workers \ exitedWorkers /\ ~Busy(w) /\ world # "join" /\ queue # <<>>
    /\ thread' = [thread EXCEPT ![w] = StartJob(Head(queue))]
    /\ queue' = Tail(queue)
    /\ Updated(Head(queue))
    /\ UNCHANGED <<idVars, activated, instances, deleted, pending_requests, worldVars, skipped, exitedWorkers>>

ExitWorker(w) ==
    /\ w \in Workers \ exitedWorkers /\ ~Busy(w) /\ world = "join"
    /\ exitedWorkers' = exitedWorkers \cup {w}
    /\ UNCHANGED <<idVars, activated, instances, deleted, updaterVars, worldVars, thread, history>>

(* MapInstanced::Update meets an instance it cannot unload. *)
UpdateInstance(t, m) ==
    /\ thread[t].at = "loop" /\ m \in thread[t].todo
    /\ thread' = [thread EXCEPT ![t] = Loop(@.map, @.todo \ {m})]
    /\ \/ activated /\ schedule_update(m) /\ UNCHANGED updates
       \/ ~activated /\ Updated(m) /\ UNCHANGED <<updaterVars, skipped>>
    /\ UNCHANGED <<idVars, activated, instances, deleted, worldVars, exitedWorkers>>

(* DestroyInstance gives up on an instance that still has players. *)
KeepInstance(t, m) ==
    /\ thread[t].at = "loop" /\ m \in thread[t].todo
    /\ thread' = [thread EXCEPT ![t] = Loop(@.map, @.todo \ {m})]
    /\ skipped' = skipped \cup {m}
    /\ UNCHANGED <<idVars, activated, instances, deleted, updaterVars, worldVars, updates, exitedWorkers>>

(* DestroyInstance; FreeInstanceId first reads _nextInstanceId. *)
DestroyInstance(t, m) ==
    /\ thread[t].at = "loop" /\ m \in thread[t].todo
    /\ instances' = instances \ {m}
    /\ thread' = [thread EXCEPT ![t] =
                    Freeing("lower", @.map, @.todo \ {m}, m[2], m[2] < nextInstanceId, {})]
    /\ inUse' = inUse \ {m[2]}
    /\ UNCHANGED <<size, capacity, marked, nextInstanceId, activated, deleted, updaterVars, worldVars,
                   history, exitedWorkers>>

LowerNext(t) ==
    /\ thread[t].at = "lower"
    /\ nextInstanceId' = IF thread[t].lower THEN thread[t].id ELSE nextInstanceId
    /\ thread' = [thread EXCEPT ![t] = Freeing("read", @.map, @.todo, @.id, @.lower, {})]
    /\ UNCHANGED <<size, capacity, marked, inUse, activated, instances, deleted, updaterVars, worldVars,
                   history, exitedWorkers>>

WordOf(i) == {j \in marked : j \div Word = i \div Word}

ReadWord(t) ==
    /\ thread[t].at = "read"
    /\ thread' = [thread EXCEPT ![t] =
                    Freeing("write", @.map, @.todo, @.id, @.lower, WordOf(@.id))]
    /\ UNCHANGED <<idVars, activated, instances, deleted, updaterVars, worldVars, history, exitedWorkers>>

WriteWord(t) ==
    /\ thread[t].at = "write"
    /\ marked' = (marked \ WordOf(thread[t].id)) \cup (thread[t].word \ {thread[t].id})
    /\ thread' = [thread EXCEPT ![t] = Loop(@.map, @.todo)]
    /\ UNCHANGED <<size, capacity, nextInstanceId, inUse, activated, instances, deleted, updaterVars,
                   worldVars, history, exitedWorkers>>

(* MapUpdateRequest::call ends with update_finished; the world thread just  *)
(* returns to its loop.                                                     *)
LoopDone_Early(t) == thread[t].at = "loop"

LoopDone(t) == thread[t].at = "loop" /\ thread[t].todo = {}

FinishUpdate(t) ==
    /\ LoopDone(t)
    /\ thread' = [thread EXCEPT ![t] = Idle]
    /\ IF t = World THEN UNCHANGED <<pending_requests, sleeping>> ELSE update_finished
    /\ UNCHANGED <<idVars, activated, instances, deleted, queue, world, toSchedule, history, exitedWorkers>>

Terminated == world = "stopped" /\ UNCHANGED vars

WorldStep ==
    \/ BeginUpdate \/ (\E b \in BaseMaps : ScheduleBaseMap(b)) \/ EndSchedule \/ Wait
    \/ DelayedUpdate \/ Deactivate \/ Join
ThreadStep(t) ==
    \/ \E m \in instances : UpdateInstance(t, m) \/ KeepInstance(t, m) \/ DestroyInstance(t, m)
    \/ LowerNext(t) \/ ReadWord(t) \/ WriteWord(t) \/ FinishUpdate(t)
WorkerStep(w) == Dequeue(w) \/ ExitWorker(w)

Next ==
    \/ \E b \in Battlegrounds : CreateBattleground(b)
    \/ UnloadAll
    \/ WorldStep
    \/ \E t \in Threads : ThreadStep(t)
    \/ \E w \in Workers : WorkerStep(w)
    \/ Terminated

Spec == Init /\ [][Next]_vars

(* The world thread and the map update threads keep running. *)
FairSpec ==
    /\ Spec
    /\ WF_vars(WorldStep \/ ThreadStep(World))
    /\ \A w \in Workers : WF_vars(ThreadStep(w) \/ WorkerStep(w))

-----------------------------------------------------------------------------
(* Properties *)

Requests == BaseMaps \X Nat
Jobs ==
    {Idle} \cup [at : {"loop"}, map : Requests, todo : SUBSET Requests]
    \cup [at : {"lower", "read", "write"}, map : Requests, todo : SUBSET Requests,
          id : Nat \ {0}, lower : BOOLEAN, word : SUBSET (0..(size - 1))]

(* Type invariant; the vector has a bit for every mark and for every mark   *)
(* that a thread is about to write back.                                    *)
TypeOK ==
    /\ size \in Nat /\ capacity \in Nat /\ marked \subseteq 0..(size - 1)
    /\ nextInstanceId \in Nat \ {0} /\ inUse \subseteq Nat
    /\ activated \in BOOLEAN /\ deleted \in BOOLEAN
    /\ instances \subseteq Battlegrounds \X (Nat \ {0})
    /\ queue \in Seq(Requests) /\ pending_requests \in Nat
    /\ world \in WorldStates /\ sleeping \in BOOLEAN /\ toSchedule \subseteq BaseMaps
    /\ thread \in [Threads -> Jobs]
    /\ skipped \subseteq Requests /\ exitedWorkers \subseteq Workers

(* The barrier: once wait() has returned and until the next tick schedules  *)
(* updates, no map is queued for an update or being updated, so the world   *)
(* thread has the maps, sessions and battlegrounds for itself.              *)
WorldAlone ==
    world \notin {"schedule", "wait"} =>
        queue = <<>> /\ \A t \in Threads : ~Busy(t)

(* pending_requests counts the requests queued or being carried out, however *)
(* many threads schedule and finish updates; so update_finished never meets *)
(* its "BUG, report to devs" case.                                          *)
PendingExact ==
    pending_requests = Len(queue) + Cardinality(BusyWorkers)

(* Every map that exists at the end of a tick was updated once in it, those *)
(* scheduled by other map updates included, unless the executor's queue was *)
(* full or its destruction was given up; a map destroyed in the tick was    *)
(* not updated in it.                                                       *)
EachMapOnce ==
    world = "delayed" =>
        \A m \in DOMAIN updates :
            IF m \in Maps /\ m \notin skipped /\ Base(m[1]) \notin skipped
            THEN updates[m] = 1 ELSE updates[m] = 0

(* No map is updated by two threads, and none after it was destroyed. *)
OneThreadPerMap ==
    /\ \A s, t \in Threads :
         Busy(s) /\ Busy(t) /\ thread[s].map = thread[t].map => s = t
    /\ \A t \in Threads : Busy(t) => thread[t].map \in Maps /\ ~deleted
    /\ \A i \in 1..Len(queue) : queue[i] \in Maps

(* wait() always returns, in a tick and in deactivate(): every broadcast is *)
(* received, and the last pending request sends one; the threads are joined.*)
TickEnds ==
    /\ world = "schedule" ~> world = "delayed"
    /\ world = "unload" ~> world = "stopped"
=============================================================================
