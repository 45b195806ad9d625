-------------------------- MODULE MapUpdateProofs --------------------------
(***************************************************************************)
(* Theorems about MapUpdate and the allocator of instance ids, for any     *)
(* number of threads, maps and instances and any size of the queue.        *)
(***************************************************************************)
EXTENDS MapUpdate, TLAPS, FiniteSetTheorems, WellFoundedInduction

-----------------------------------------------------------------------------
(* The allocator of instance ids *)

(* Every non-empty set of naturals has a least element. *)
LEMMA LeastNat ==
    ASSUME NEW T \in SUBSET Nat, T # {}
    PROVE  \E m \in T : \A y \in T : m <= y
  <1> DEFINE Less == {p \in Nat \X Nat : p[1] < p[2]}
  <1>1. IsWellFoundedOn(Less, Nat)
    BY NatLessThanWellFounded DEF OpToRel
  <1>2. \A x, y \in Nat : x < y => <<x, y>> \in Less
    OBVIOUS
  <1> HIDE DEF Less
  <1>3. PICK m \in T : \A y \in T : ~(<<y, m>> \in Less)
    BY <1>1, WFMin
  <1>4. \A y \in T : ~(y < m)
    BY <1>2, <1>3
  <1> QED BY <1>4

LEMMA BoundedIdsFinite ==
    ASSUME NEW a \in Nat, NEW b \in Int, NEW s, s \subseteq a..b
    PROVE  IsFiniteSet(s) /\ s \in SUBSET Nat
  <1>1. IsFiniteSet(a..b)
    BY FS_Interval
  <1>2. s \in SUBSET (a..b)
    OBVIOUS
  <1>3. IsFiniteSet(s)
    BY <1>1, <1>2, FS_Subset
  <1>4. \A i \in s : i \in Nat
    BY <1>2
  <1> QED BY <1>3, <1>4

(* The search of GenerateInstanceId ends within as many steps as bits are   *)
(* set, at an id that is not marked or beyond the vector.                   *)
LEMMA FirstFreeFound ==
    ASSUME NEW n \in Nat, NEW m \in SUBSET Nat, IsFiniteSet(m), NEW sz \in Nat
    PROVE  LET i == FirstFree(n, m, sz)
           IN  i \in Nat /\ i >= n /\ (i \notin m \/ i >= sz)
  <1> DEFINE last == n + Cardinality(m)
             Free(i) == i \notin m \/ i >= sz
             First(i) == Free(i) /\ \A j \in n..(i - 1) : j \in m /\ j < sz
             T == {i \in n..last : Free(i)}
  <1>1. Cardinality(m) \in Nat
    BY FS_CardinalityType
  <1>2. T # {}
    <2> SUFFICES ASSUME T = {} PROVE FALSE
      OBVIOUS
    <2>1. n..last \in SUBSET m
      OBVIOUS
    <2>2. Cardinality(n..last) <= Cardinality(m)
      BY <2>1, FS_Subset
    <2>3. Cardinality(n..last) = Cardinality(m) + 1
      BY <1>1, FS_Interval
    <2> QED BY <1>1, <2>2, <2>3
  <1>3. T \in SUBSET Nat
    BY <1>1
  <1>4. PICK i \in T : \A y \in T : i <= y
    BY <1>2, <1>3, LeastNat
  <1>5. i \in n..last /\ First(i)
    BY <1>1, <1>4
  <1>6. FirstFree(n, m, sz) = CHOOSE k \in n..last : First(k)
    BY DEF FirstFree
  <1> HIDE DEF First
  <1>7. FirstFree(n, m, sz) \in n..last /\ First(FirstFree(n, m, sz))
    BY <1>5, <1>6
  <1> QED BY <1>1, <1>7 DEF First

(* RoundUp does not lower a number. *)
LEMMA RoundUpType ==
    ASSUME NEW n \in Nat, NEW k \in Nat \ {0}
    PROVE  RoundUp(n, k) \in Nat /\ RoundUp(n, k) >= n
  <1>1. n = k * (n \div k) + (n % k) /\ n \div k \in Nat /\ n % k \in 0..(k - 1)
    OBVIOUS
  <1>2. (n \div k) * k \in Nat /\ (n \div k) * k = k * (n \div k)
    BY <1>1
  <1> QED BY <1>1, <1>2 DEF RoundUp

LEMMA MaxOfTwo ==
    ASSUME NEW a \in Int, NEW b \in Int
    PROVE  Max({a, b}) \in {a, b} /\ Max({a, b}) >= a /\ Max({a, b}) >= b
  <1> DEFINE Top(x) == \A y \in {a, b} : x >= y
  <1>1. \E x \in {a, b} : Top(x)
    OBVIOUS
  <1>2. Max({a, b}) = CHOOSE x \in {a, b} : Top(x)
    BY DEF Max
  <1> HIDE DEF Top
  <1>3. Max({a, b}) \in {a, b} /\ Top(Max({a, b}))
    BY <1>1, <1>2
  <1> QED BY <1>3 DEF Top

(* The largest id of the instance table *)
LEMMA MaxIdType ==
    ASSUME NEW s \in Stored
    PROVE  MaxId(s) \in Nat /\ \A i \in s : i <= MaxId(s)
  <1>1. LastId \in Nat /\ \A i \in s : i \in Nat /\ i >= 1 /\ i <= LastId
    BY InstanceIdsAssumption
  <1>2. CASE s = {}
    BY <1>2 DEF MaxId
  <1>3. CASE s # {}
    <2> DEFINE T == {n \in Nat : \A i \in s : i <= n}
               Top(x) == \A y \in s : x >= y
    <2>1. PICK m \in T : \A y \in T : m <= y
      <3>1. LastId \in T
        BY <1>1
      <3> QED BY <3>1, LeastNat
    <2>2. m \in s
      <3> SUFFICES ASSUME m \notin s PROVE FALSE
        OBVIOUS
      <3>1. PICK i \in s : TRUE
        BY <1>3
      <3> m # 0
        BY <1>1, <2>1, <3>1
      <3>2. m - 1 \in T
        BY <1>1, <2>1
      <3> QED BY <2>1, <3>2
    <2>3. Top(m)
      BY <1>1, <2>1
    <2>4. MaxId(s) = CHOOSE x \in s : Top(x)
      BY <1>3 DEF MaxId, Max
    <2> HIDE DEF Top
    <2>5. MaxId(s) \in s /\ Top(MaxId(s))
      BY <2>2, <2>3, <2>4
    <2>6. \A i \in s : MaxId(s) >= i
      BY <2>5 DEF Top
    <2> QED BY <1>1, <2>5, <2>6
  <1> QED BY <1>2, <1>3

(* The types of the allocator's state; no mark is outside the vector. *)
IdsOK ==
    /\ size \in Nat /\ capacity \in Nat /\ marked \subseteq 0..(size - 1)
    /\ nextInstanceId \in Nat \ {0} /\ inUse \subseteq Nat

LEMMA MarkedFinite ==
    ASSUME IdsOK
    PROVE  IsFiniteSet(marked) /\ marked \in SUBSET Nat
  <1>1. 0 \in Nat /\ size - 1 \in Int /\ marked \subseteq 0..(size - 1)
    BY DEF IdsOK
  <1> QED BY <1>1, BoundedIdsFinite

LEMMA InitIdsOK == InitIds => IdsOK
  <1> SUFFICES ASSUME InitIds PROVE IdsOK
    OBVIOUS
  <1>1. PICK s \in Stored :
          /\ size = RoundUp(MaxId(s), Chunk)
          /\ capacity = RoundUp(size, Word)
          /\ marked = {i \in s : i < size}
          /\ nextInstanceId = RegisteredNext(s)
          /\ inUse = s
    BY DEF InitIds
  <1>2. s \subseteq 1..LastId /\ LastId \in Nat /\ Chunk \in Nat \ {0} /\ Word \in Nat \ {0}
    BY InstanceIdsAssumption
  <1>3. MaxId(s) \in Nat
    BY MaxIdType
  <1>4. size \in Nat /\ capacity \in Nat
    BY <1>1, <1>2, <1>3, RoundUpType
  <1>5. IsFiniteSet(s) /\ s \in SUBSET Nat
    <2>1. 1 \in Nat /\ LastId \in Int
      BY <1>2
    <2> QED BY <1>2, <2>1, BoundedIdsFinite
  <1>6. nextInstanceId \in Nat /\ nextInstanceId >= 1
    BY <1>1, <1>3, <1>5, FirstFreeFound DEF RegisteredNext, FirstInstanceId
  <1>7. marked \subseteq 0..(size - 1)
    <2>1. \A i \in marked : i \in Nat /\ i < size
      BY <1>1, <1>5
    <2> QED BY <1>4, <2>1
  <1> QED BY <1>1, <1>4, <1>5, <1>6, <1>7 DEF IdsOK

(* GenerateInstanceId never shrinks the vector. *)
LEMMA GenerateIdsOK ==
    ASSUME IdsOK, GenerateInstanceId
    PROVE  IdsOK' /\ size' >= size
  <1>1. Chunk \in Nat \ {0} /\ Word \in Nat \ {0}
    BY InstanceIdsAssumption
  <1>2. nextInstanceId' \in Nat \ {0}
    <2>1. nextInstanceId' = FirstFree(nextInstanceId + 1, marked, size)
      BY DEF GenerateInstanceId, NextAfter
    <2>2. nextInstanceId' \in Nat /\ nextInstanceId' >= nextInstanceId + 1
      BY <2>1, MarkedFinite, FirstFreeFound DEF IdsOK
    <2> QED BY <2>2 DEF IdsOK
  <1>3. size' \in Nat /\ size' >= size
    <2>1. RoundUp(nextInstanceId, Chunk) \in Nat /\ RoundUp(nextInstanceId, Chunk) >= nextInstanceId
      BY <1>1, RoundUpType DEF IdsOK
    <2> QED BY <2>1 DEF GenerateInstanceId, SizeFor, IdsOK
  <1>4. capacity' \in Nat
    <2> DEFINE n == size'
               grown == size + Max({size, n - size})
    <2>1. CASE n <= capacity
      BY <2>1 DEF GenerateInstanceId, CapacityFor, IdsOK
    <2>2. CASE ~(n <= capacity)
      <3>1. Max({size, n - size}) \in {size, n - size}
        <4>1. size \in Int /\ n - size \in Int
          BY <1>3 DEF IdsOK
        <4> QED BY <4>1, MaxOfTwo
      <3>2. grown \in Nat
        BY <1>3, <3>1 DEF IdsOK
      <3>3. capacity' = RoundUp(grown, Word)
        BY <2>2 DEF GenerateInstanceId, CapacityFor
      <3> QED BY <1>1, <3>2, <3>3, RoundUpType
    <2> QED BY <2>1, <2>2
  <1>5. marked' \subseteq 0..(size' - 1) /\ inUse' \subseteq Nat
    <2>1. \A i \in marked : i \in 0..(size' - 1)
      <3>1. \A i \in marked : i \in 0..(size - 1)
        BY DEF IdsOK
      <3>2. size \in Nat
        BY DEF IdsOK
      <3> QED BY <1>3, <3>1, <3>2
    <2>2. marked' = marked \cup ({nextInstanceId} \cap 0..(size' - 1))
      BY DEF GenerateInstanceId
    <2>3. inUse' \subseteq Nat
      BY DEF GenerateInstanceId, IdsOK
    <2> QED BY <2>1, <2>2, <2>3
  <1> QED BY <1>2, <1>3, <1>4, <1>5 DEF IdsOK

-----------------------------------------------------------------------------
(* Threads and their jobs *)

LEMMA JobFields ==
    ASSUME NEW j \in Jobs
    PROVE  \/ j = Idle /\ j.at = "idle"
           \/ j.at = "loop" /\ j.map \in Requests /\ j.todo \in SUBSET Requests
           \/ /\ j.at \in {"lower", "read", "write"}
              /\ j.map \in Requests /\ j.todo \in SUBSET Requests
              /\ j.id \in Nat \ {0} /\ j.lower \in BOOLEAN /\ j.word \in SUBSET (0..(size - 1))
  BY DEF Jobs, Idle

LEMMA LargerVector ==
    ASSUME NEW a \in Nat, NEW b \in Nat, b >= a
    PROVE  SUBSET (0..(a - 1)) \subseteq SUBSET (0..(b - 1))
  <1>1. \A i \in 0..(a - 1) : i \in 0..(b - 1)
    OBVIOUS
  <1> QED BY <1>1

LEMMA JobTypes ==
    ASSUME NEW m \in Requests, NEW todo \in SUBSET Requests
    PROVE  Idle \in Jobs /\ Loop(m, todo) \in Jobs /\ Loop(m, todo).at = "loop"
  BY DEF Jobs, Idle, Loop

LEMMA FreeingType ==
    ASSUME NEW at \in {"lower", "read", "write"},
           NEW m \in Requests, NEW todo \in SUBSET Requests, NEW i \in Nat \ {0},
           NEW lower \in BOOLEAN, NEW word \in SUBSET (0..(size - 1))
    PROVE  Freeing(at, m, todo, i, lower, word) \in Jobs
           /\ Freeing(at, m, todo, i, lower, word).at = at
  BY DEF Jobs, Freeing

(* The jobs of the other threads are not touched. *)
LEMMA OneThreadSteps ==
    ASSUME thread \in [Threads -> Jobs], NEW t \in Threads, NEW j \in Jobs,
           thread' = [thread EXCEPT ![t] = j], size' = size
    PROVE  /\ (thread \in [Threads -> Jobs])'
           /\ thread'[t] = j
           /\ \A u \in Threads \ {t} : thread'[u] = thread[u]
  <1>1. Jobs' = Jobs
    BY DEF Jobs, Requests, BaseMaps
  <1>2. thread' \in [Threads -> Jobs]
    OBVIOUS
  <1>3. (thread \in [Threads -> Jobs])' <=> thread' \in [Threads -> Jobs']
    BY DEF Threads
  <1> QED BY <1>1, <1>2, <1>3

LEMMA BusyWorkersFinite == IsFiniteSet(BusyWorkers) /\ Cardinality(BusyWorkers) \in Nat
  <1>1. BusyWorkers \in SUBSET Workers
    BY DEF BusyWorkers
  <1>2. IsFiniteSet(BusyWorkers)
    BY <1>1, FS_Subset, MapUpdateAssumption
  <1> QED BY <1>2, FS_CardinalityType

(* How a step of one thread changes the set of busy workers *)
LEMMA BusyStep ==
    ASSUME thread \in [Threads -> Jobs], NEW t \in Threads, NEW j \in Jobs,
           thread' = [thread EXCEPT ![t] = j], size' = size
    PROVE  /\ (j.at # "idle" <=> Busy(t)) =>
                  BusyWorkers' = BusyWorkers /\ (Busy(World)' <=> Busy(World))
           /\ t = World =>
                  BusyWorkers' = BusyWorkers /\ (Busy(World)' <=> j.at # "idle")
           /\ t # World => (Busy(World)' <=> Busy(World))
           /\ t # World /\ j.at # "idle" => BusyWorkers' = BusyWorkers \cup {t}
           /\ t # World /\ j.at = "idle" => BusyWorkers' = BusyWorkers \ {t}
  <1>1. /\ thread'[t] = j
        /\ \A u \in Threads \ {t} : thread'[u] = thread[u]
    BY OneThreadSteps
  <1>2. World \notin Workers /\ Workers \subseteq Threads /\ World \in Threads
        /\ (t # World => t \in Workers)
    BY MapUpdateAssumption DEF Threads
  <1>3. \A u \in Threads : (Busy(u) <=> thread[u].at # "idle")
                           /\ (Busy(u)' <=> thread'[u].at # "idle")
    BY DEF Busy
  <1>4. BusyWorkers = {w \in Workers : thread[w].at # "idle"}
        /\ BusyWorkers' = {w \in Workers : thread'[w].at # "idle"}
    BY DEF BusyWorkers, Busy
  <1> QED BY <1>1, <1>2, <1>3, <1>4

-----------------------------------------------------------------------------
(* The barrier *)

(* The inductive invariant behind WorldAlone: nothing is pending unless the *)
(* world thread is in the tick and the threads run, and the world thread    *)
(* updates maps itself only when there are no threads.                      *)
Barrier ==
    /\ PendingExact
    /\ world \notin {"schedule", "wait"} => pending_requests = 0
    /\ ~activated => pending_requests = 0
    /\ Busy(World) => world = "schedule" /\ ~activated

Inv == TypeOK /\ Barrier

LEMMA TypeIds == TypeOK => IdsOK
  BY DEF TypeOK, IdsOK

(* With nothing pending nothing is queued and no worker is busy. *)
LEMMA NothingPending ==
    ASSUME Inv, pending_requests = 0
    PROVE  queue = <<>> /\ BusyWorkers = {}
  <1>1. Len(queue) \in Nat /\ queue \in Seq(Requests)
    BY DEF Inv, TypeOK
  <1>2. Len(queue) = 0 /\ Cardinality(BusyWorkers) = 0
    BY <1>1, BusyWorkersFinite DEF Inv, Barrier, PendingExact
  <1>3. BusyWorkers = {}
    BY <1>2, BusyWorkersFinite, FS_EmptySet
  <1> QED BY <1>1, <1>2, <1>3

(* A busy worker is one the world thread waits for. *)
LEMMA BusyMeansTick ==
    ASSUME Inv, NEW t \in Threads, Busy(t)
    PROVE  /\ t # World => activated /\ world \in {"schedule", "wait"} /\ pending_requests # 0
           /\ t = World => ~activated /\ world = "schedule"
  <1>1. CASE t = World
    BY <1>1 DEF Inv, Barrier
  <1>2. CASE t # World
    <2>1. t \in BusyWorkers
      BY <1>2 DEF BusyWorkers, Threads
    <2>2. pending_requests # 0
      BY <2>1, NothingPending
    <2> QED BY <1>2, <2>2 DEF Inv, Barrier
  <1> QED BY <1>1, <1>2

LEMMA InitInv == Init => Inv
  <1> SUFFICES ASSUME Init PROVE Inv
    OBVIOUS
  <1>1. IdsOK
    BY InitIdsOK DEF Init
  <1>2. \A t \in Threads : thread[t] = Idle /\ ~Busy(t)
    BY DEF Init, Busy, Idle
  <1>3. thread \in [Threads -> Jobs]
    BY DEF Init, Jobs
  <1>4. TypeOK
    <2>1. activated \in BOOLEAN /\ exitedWorkers \subseteq Workers
      BY DEF Init
    <2>2. queue \in Seq(Requests) /\ pending_requests \in Nat
      BY DEF Init
    <2>3. /\ deleted \in BOOLEAN /\ sleeping \in BOOLEAN /\ world \in WorldStates
          /\ instances = {} /\ toSchedule = {} /\ skipped = {}
      BY DEF Init, WorldStates
    <2> QED BY <1>1, <1>3, <2>1, <2>2, <2>3 DEF TypeOK, IdsOK
  <1>5. BusyWorkers = {} /\ ~Busy(World)
    BY <1>2 DEF BusyWorkers, Threads
  <1>6. PendingExact
    BY <1>5, FS_EmptySet DEF Init, PendingExact
  <1> QED BY <1>4, <1>5, <1>6 DEF Init, Inv, Barrier

(* Steps of the world thread that leave the threads and the queue alone *)
LEMMA WorldKeepsInv ==
    ASSUME Inv,
           \/ \E b \in Battlegrounds : CreateBattleground(b)
           \/ UnloadAll \/ BeginUpdate \/ EndSchedule \/ Wait \/ DelayedUpdate
           \/ Deactivate \/ Join
    PROVE  Inv'
  <1> USE DEF Inv
  <1>1. thread' = thread /\ queue' = queue /\ pending_requests' = pending_requests
    BY DEF CreateBattleground, UnloadAll, BeginUpdate, EndSchedule, Wait, DelayedUpdate,
           Deactivate, Join, updaterVars
  <1>2. (Busy(World)' <=> Busy(World)) /\ (PendingExact' <=> PendingExact)
    BY <1>1 DEF Busy, BusyWorkers, PendingExact
  <1>3. Barrier'
    BY <1>1, <1>2 DEF Barrier, CreateBattleground, UnloadAll, BeginUpdate, EndSchedule, Wait,
           DelayedUpdate, Deactivate, Join, WaitFor, MayPass, worldVars
  <1>4. CASE \E b \in Battlegrounds : CreateBattleground(b)
    <2>1. PICK b \in Battlegrounds : CreateBattleground(b)
      BY <1>4
    <2>2. IdsOK' /\ size' >= size /\ IdsOK
      BY <2>1, GenerateIdsOK, TypeIds DEF CreateBattleground
    <2>3. (thread \in [Threads -> Jobs])'
      <3>1. size \in Nat /\ size' \in Nat /\ size' >= size
        BY <2>2 DEF IdsOK
      <3>2. SUBSET (0..(size - 1)) \subseteq SUBSET (0..(size' - 1))
        BY <3>1, LargerVector
      <3>3. Jobs \subseteq Jobs'
        BY <3>2 DEF Jobs, Requests, BaseMaps, Idle
      <3> QED BY <1>1, <3>3 DEF TypeOK, Threads
    <2>4. instances' \subseteq Battlegrounds \X (Nat \ {0})
      BY <2>1, <2>2 DEF CreateBattleground, TypeOK, IdsOK
    <2>5. TypeOK'
      BY <2>1, <2>2, <2>3, <2>4 DEF TypeOK, IdsOK, CreateBattleground, updaterVars, worldVars,
           history, Requests, BaseMaps
    <2> QED BY <1>3, <2>5
  <1>5. CASE ~ \E b \in Battlegrounds : CreateBattleground(b)
    <2>1. IdsOK' /\ size' = size
      BY <1>5, TypeIds DEF UnloadAll, BeginUpdate, EndSchedule, Wait, DelayedUpdate,
           Deactivate, Join, idVars, IdsOK
    <2>2. (thread \in [Threads -> Jobs])'
      BY <1>1, <2>1 DEF TypeOK, Threads, Jobs, Requests, BaseMaps
    <2>3. instances' \subseteq Battlegrounds \X (Nat \ {0})
      BY <1>5 DEF UnloadAll, BeginUpdate, EndSchedule, Wait, DelayedUpdate, Deactivate, Join, TypeOK
    <2>4. /\ activated' \in BOOLEAN /\ deleted' \in BOOLEAN /\ sleeping' \in BOOLEAN
          /\ world' \in WorldStates /\ toSchedule' \subseteq BaseMaps
          /\ skipped' \subseteq Requests /\ exitedWorkers' \subseteq Workers
      BY <1>5 DEF UnloadAll, BeginUpdate, EndSchedule, Wait, DelayedUpdate, Deactivate, Join,
           TypeOK, WaitFor, WorldStates, history
    <2>5. TypeOK'
      BY <1>1, <2>1, <2>2, <2>3, <2>4 DEF TypeOK, IdsOK, Requests, BaseMaps, WorldStates
    <2> QED BY <1>3, <2>5
  <1> QED BY <1>4, <1>5

(* Steps of the map update threads, and of the world thread updating maps:  *)
(* first what they have in common.                                          *)
LEMMA ThreadKeepsTypes ==
    ASSUME TypeOK, IdsOK', size' = size, NEW t \in Threads, NEW j \in Jobs,
           thread' = [thread EXCEPT ![t] = j],
           instances' \subseteq instances,
           queue' \in Seq(Requests), pending_requests' \in Nat,
           activated' = activated, deleted' = deleted, world' = world,
           sleeping' \in BOOLEAN, toSchedule' \subseteq toSchedule,
           skipped' \subseteq Requests, exitedWorkers' = exitedWorkers
    PROVE  TypeOK'
  <1>1. (thread \in [Threads -> Jobs])'
    BY OneThreadSteps DEF TypeOK
  <1>2. (queue \in Seq(Requests))' /\ (skipped \subseteq Requests)' /\ (toSchedule \subseteq BaseMaps)'
    BY DEF Requests, BaseMaps, TypeOK
  <1>3. (instances \subseteq Battlegrounds \X (Nat \ {0}))' /\ (world \in WorldStates)'
    BY DEF TypeOK, WorldStates
  <1> QED BY <1>1, <1>2, <1>3 DEF TypeOK, IdsOK

(* A request goes to the end of the queue and is counted, or neither. *)
LEMMA ScheduleStep ==
    ASSUME TypeOK, NEW m \in Requests, schedule_update(m)
    PROVE  /\ queue' \in Seq(Requests) /\ pending_requests' \in Nat
           /\ skipped' \subseteq Requests
           /\ pending_requests' - Len(queue') = pending_requests - Len(queue)
  <1>1. queue \in Seq(Requests) /\ pending_requests \in Nat /\ skipped \subseteq Requests
    BY DEF TypeOK
  <1>2. CASE Accepts
    <2>1. queue' = Append(queue, m) /\ pending_requests' = pending_requests + 1 /\ skipped' = skipped
      BY <1>2 DEF schedule_update
    <2>2. queue' \in Seq(Requests) /\ Len(queue') = Len(queue) + 1 /\ Len(queue) \in Nat
      BY <1>1, <2>1
    <2> QED BY <1>1, <2>1, <2>2
  <1>3. CASE ~Accepts
    BY <1>1, <1>3 DEF schedule_update, updaterVars
  <1> QED BY <1>2, <1>3

LEMMA StartJobType ==
    ASSUME TypeOK, NEW m \in Requests
    PROVE  StartJob(m) \in Jobs /\ StartJob(m).at = "loop"
  <1>1. InstancesOf(m[1]) \in SUBSET Requests
    BY DEF TypeOK, InstancesOf, Requests, BaseMaps
  <1> QED BY <1>1, JobTypes DEF StartJob

LEMMA ScheduleBaseMapKeepsInv ==
    ASSUME Inv, NEW b \in BaseMaps, ScheduleBaseMap(b)
    PROVE  Inv'
  <1>1. Base(b) \in Requests
    BY DEF Base, Requests
  <1>2. TypeOK /\ IdsOK' /\ size' = size /\ World \in Threads
    BY TypeIds DEF Inv, ScheduleBaseMap, idVars, IdsOK, Threads
  <1>3. CASE activated
    <2>1. schedule_update(Base(b)) /\ thread' = thread
      BY <1>3 DEF ScheduleBaseMap
    <2>2. TypeOK'
      <3>1. thread' = [thread EXCEPT ![World] = thread[World]] /\ thread[World] \in Jobs
        BY <1>2, <2>1 DEF TypeOK
      <3>2. /\ queue' \in Seq(Requests) /\ pending_requests' \in Nat
            /\ skipped' \subseteq Requests
        BY <1>1, <1>2, <2>1, ScheduleStep
      <3>3. /\ instances' \subseteq instances /\ activated' = activated /\ deleted' = deleted
            /\ world' = world /\ sleeping' \in BOOLEAN /\ toSchedule' \subseteq toSchedule
            /\ exitedWorkers' = exitedWorkers
        BY <1>2 DEF ScheduleBaseMap, TypeOK
      <3> QED BY <1>2, <3>1, <3>2, <3>3, ThreadKeepsTypes
    <2>3. BusyWorkers' = BusyWorkers /\ (Busy(World)' <=> Busy(World))
      BY <2>1 DEF Busy, BusyWorkers
    <2>4. PendingExact'
      <3>1. /\ pending_requests \in Nat /\ pending_requests' \in Nat
            /\ Len(queue) \in Nat /\ Len(queue') \in Nat
        BY <2>2, <1>2 DEF TypeOK
      <3>2. pending_requests' - Len(queue') = pending_requests - Len(queue)
        BY <1>1, <1>2, <2>1, ScheduleStep
      <3> QED BY <2>3, <3>1, <3>2, BusyWorkersFinite DEF Inv, Barrier, PendingExact
    <2> QED BY <1>3, <2>2, <2>3, <2>4 DEF Inv, Barrier, ScheduleBaseMap
  <1>4. CASE ~activated
    <2>1. /\ thread' = [thread EXCEPT ![World] = StartJob(Base(b))]
          /\ StartJob(Base(b)) \in Jobs /\ StartJob(Base(b)).at = "loop"
      BY <1>1, <1>2, <1>4, StartJobType DEF ScheduleBaseMap
    <2>2. queue' = queue /\ pending_requests' = pending_requests
      BY <1>4 DEF ScheduleBaseMap, updaterVars
    <2>3. TypeOK'
      <3>1. /\ instances' \subseteq instances /\ activated' = activated /\ deleted' = deleted
            /\ world' = world /\ sleeping' \in BOOLEAN /\ toSchedule' \subseteq toSchedule
            /\ exitedWorkers' = exitedWorkers /\ skipped' \subseteq Requests
        BY <1>2, <1>4 DEF ScheduleBaseMap, TypeOK
      <3>2. queue' \in Seq(Requests) /\ pending_requests' \in Nat
        BY <1>2, <2>2 DEF TypeOK
      <3> QED BY <1>2, <2>1, <3>1, <3>2, ThreadKeepsTypes
    <2>4. BusyWorkers' = BusyWorkers
      BY <1>2, <2>1, BusyStep DEF TypeOK
    <2> QED BY <1>4, <2>2, <2>3, <2>4 DEF Inv, Barrier, PendingExact, ScheduleBaseMap
  <1> QED BY <1>3, <1>4

(* A thread visits an instance, or is inside FreeInstanceId: it stays busy, *)
(* and only a scheduled request changes the count.                          *)
LEMMA BusyThreadKeepsInv ==
    ASSUME Inv, NEW t \in Threads,
           \/ \E m \in instances : UpdateInstance(t, m) \/ KeepInstance(t, m) \/ DestroyInstance(t, m)
           \/ LowerNext(t) \/ ReadWord(t) \/ WriteWord(t)
    PROVE  Inv'
  <1>1. TypeOK /\ IdsOK /\ thread[t] \in Jobs
    BY TypeIds DEF Inv, TypeOK
  <1>2. Busy(t)
    BY DEF UpdateInstance, KeepInstance, DestroyInstance, LowerNext, ReadWord, WriteWord, Busy
  <1>3. /\ activated' = activated /\ deleted' = deleted /\ world' = world /\ sleeping' = sleeping
        /\ toSchedule' = toSchedule /\ exitedWorkers' = exitedWorkers /\ size' = size
        /\ instances' \subseteq instances
    BY DEF UpdateInstance, KeepInstance, DestroyInstance, LowerNext, ReadWord, WriteWord,
           worldVars, idVars
  <1>4. PICK j \in Jobs : thread' = [thread EXCEPT ![t] = j] /\ j.at # "idle"
    <2>1. CASE \E m \in instances : UpdateInstance(t, m) \/ KeepInstance(t, m)
      <3>1. PICK m : /\ thread[t].at = "loop"
                     /\ thread' = [thread EXCEPT ![t] = Loop(@.map, @.todo \ {m})]
        BY <2>1 DEF UpdateInstance, KeepInstance
      <3>2. thread[t].map \in Requests /\ thread[t].todo \ {m} \in SUBSET Requests
        BY <1>1, <3>1, JobFields
      <3> QED BY <3>1, <3>2, JobTypes
    <2>2. CASE \E m \in instances : DestroyInstance(t, m)
      <3>1. PICK m \in instances :
              /\ thread[t].at = "loop"
              /\ thread' = [thread EXCEPT ![t] =
                   Freeing("lower", @.map, @.todo \ {m}, m[2], m[2] < nextInstanceId, {})]
        BY <2>2 DEF DestroyInstance
      <3>2. /\ thread[t].map \in Requests /\ thread[t].todo \ {m} \in SUBSET Requests
            /\ m[2] \in Nat \ {0} /\ (m[2] < nextInstanceId) \in BOOLEAN
        BY <1>1, <3>1, JobFields DEF TypeOK
      <3> DEFINE lower == m[2] < nextInstanceId
                 j == Freeing("lower", thread[t].map, thread[t].todo \ {m}, m[2], lower, {})
      <3>3. lower \in BOOLEAN
        BY <3>2
      <3>4. thread' = [thread EXCEPT ![t] = j]
        BY <3>1
      <3> HIDE DEF lower
      <3>5. j \in Jobs /\ j.at = "lower"
        <4>1. "lower" \in {"lower", "read", "write"} /\ {} \in SUBSET (0..(size - 1))
          OBVIOUS
        <4>2. /\ thread[t].map \in Requests /\ thread[t].todo \ {m} \in SUBSET Requests
              /\ m[2] \in Nat \ {0}
          BY <3>2
        <4> QED BY <3>3, <4>1, <4>2, FreeingType
      <3> HIDE DEF j
      <3> QED BY <3>4, <3>5
    <2>3. CASE LowerNext(t) \/ ReadWord(t)
      <3>1. /\ thread[t].at \in {"lower", "read"}
            /\ \/ thread' = [thread EXCEPT ![t] = Freeing("read", @.map, @.todo, @.id, @.lower, {})]
               \/ thread' = [thread EXCEPT ![t] =
                    Freeing("write", @.map, @.todo, @.id, @.lower, WordOf(@.id))]
        BY <2>3 DEF LowerNext, ReadWord
      <3>2. /\ thread[t].map \in Requests /\ thread[t].todo \in SUBSET Requests
            /\ thread[t].id \in Nat \ {0} /\ thread[t].lower \in BOOLEAN
        BY <1>1, <3>1, JobFields
      <3>3. WordOf(thread[t].id) \in SUBSET (0..(size - 1)) /\ {} \in SUBSET (0..(size - 1))
        BY <1>1 DEF WordOf, IdsOK
      <3> DEFINE j == Freeing("read", thread[t].map, thread[t].todo, thread[t].id,
                              thread[t].lower, {})
                 k == Freeing("write", thread[t].map, thread[t].todo, thread[t].id,
                              thread[t].lower, WordOf(thread[t].id))
      <3>4. "read" \in {"lower", "read", "write"} /\ "write" \in {"lower", "read", "write"}
        OBVIOUS
      <3>6. j \in Jobs /\ j.at = "read"
        BY <3>2, <3>3, <3>4, FreeingType
      <3>7. k \in Jobs /\ k.at = "write"
        BY <3>2, <3>3, <3>4, FreeingType
      <3>5. thread' = [thread EXCEPT ![t] = j] \/ thread' = [thread EXCEPT ![t] = k]
        BY <3>1
      <3> HIDE DEF j, k
      <3> QED BY <3>5, <3>6, <3>7
    <2>4. CASE WriteWord(t)
      <3>1. /\ thread[t].at = "write"
            /\ thread' = [thread EXCEPT ![t] = Loop(@.map, @.todo)]
        BY <2>4 DEF WriteWord
      <3>2. thread[t].map \in Requests /\ thread[t].todo \in SUBSET Requests
        BY <1>1, <3>1, JobFields
      <3> QED BY <3>1, <3>2, JobTypes
    <2> QED BY <2>1, <2>2, <2>3, <2>4
  <1>5. IdsOK'
    <2>1. CASE \E m \in instances : UpdateInstance(t, m) \/ KeepInstance(t, m)
      BY <1>1, <2>1 DEF UpdateInstance, KeepInstance, idVars, IdsOK
    <2>2. CASE \E m \in instances : DestroyInstance(t, m)
      BY <1>1, <2>2 DEF DestroyInstance, IdsOK
    <2>3. CASE LowerNext(t)
      <3>1. thread[t].at = "lower" => thread[t].id \in Nat \ {0}
        BY <1>1, JobFields
      <3> QED BY <1>1, <2>3, <3>1 DEF LowerNext, IdsOK
    <2>4. CASE ReadWord(t)
      BY <1>1, <2>4 DEF ReadWord, idVars, IdsOK
    <2>5. CASE WriteWord(t)
      <3>1. thread[t].word \in SUBSET (0..(size - 1))
        BY <1>1, <2>5, JobFields DEF WriteWord
      <3> QED BY <1>1, <2>5, <3>1 DEF WriteWord, IdsOK
    <2> QED BY <2>1, <2>2, <2>3, <2>4, <2>5
  <1>6. /\ queue' \in Seq(Requests) /\ pending_requests' \in Nat /\ skipped' \subseteq Requests
        /\ pending_requests' - Len(queue') = pending_requests - Len(queue)
        /\ ~activated => pending_requests' = pending_requests
    <2>1. CASE \E m \in instances : UpdateInstance(t, m) /\ activated
      <3>1. PICK m \in Requests : schedule_update(m)
        BY <1>1, <2>1 DEF UpdateInstance, TypeOK, Requests, BaseMaps
      <3> QED BY <1>1, <2>1, <3>1, ScheduleStep
    <2>2. CASE ~ \E m \in instances : UpdateInstance(t, m) /\ activated
      <3>1. queue' = queue /\ pending_requests' = pending_requests
        BY <2>2 DEF UpdateInstance, KeepInstance, DestroyInstance, LowerNext, ReadWord, WriteWord,
             updaterVars
      <3>2. skipped' \subseteq Requests
        BY <1>1, <2>2, ZenonT(60) DEF UpdateInstance, KeepInstance, DestroyInstance, LowerNext, ReadWord,
             WriteWord, history, TypeOK, Requests, BaseMaps
      <3> QED BY <1>1, <3>1, <3>2 DEF TypeOK
    <2> QED BY <2>1, <2>2
  <1>7. TypeOK'
    <2>1. sleeping' \in BOOLEAN /\ toSchedule' \subseteq toSchedule
      BY <1>1, <1>3 DEF TypeOK
    <2> QED BY <1>1, <1>3, <1>4, <1>5, <1>6, <2>1, ThreadKeepsTypes
  <1>8. BusyWorkers' = BusyWorkers /\ (Busy(World)' <=> Busy(World))
    BY <1>1, <1>2, <1>3, <1>4, BusyStep DEF TypeOK
  <1>9. PendingExact'
    <2>1. /\ pending_requests \in Nat /\ pending_requests' \in Nat
          /\ Len(queue) \in Nat /\ Len(queue') \in Nat
      BY <1>1, <1>6 DEF TypeOK
    <2> QED BY <1>6, <1>8, <2>1, BusyWorkersFinite DEF Inv, Barrier, PendingExact
  <1> QED BY <1>2, <1>3, <1>6, <1>7, <1>8, <1>9, BusyMeansTick DEF Inv, Barrier

(* A worker takes a request off the queue: it is still pending. *)
LEMMA DequeueKeepsInv ==
    ASSUME Inv, NEW w \in Workers, Dequeue(w)
    PROVE  Inv'
  <1>1. TypeOK /\ IdsOK /\ w \in Threads /\ w # World /\ queue # <<>>
    BY TypeIds, MapUpdateAssumption DEF Inv, Threads, Dequeue
  <1>2. Head(queue) \in Requests /\ queue' \in Seq(Requests) /\ Len(queue') = Len(queue) - 1
    BY <1>1 DEF TypeOK, Dequeue
  <1> DEFINE j == StartJob(Head(queue))
  <1>3. j \in Jobs /\ j.at = "loop"
    BY <1>1, <1>2, StartJobType
  <1>4. thread' = [thread EXCEPT ![w] = j]
    BY DEF Dequeue
  <1> HIDE DEF j
  <1>5. /\ activated' = activated /\ deleted' = deleted /\ world' = world
        /\ toSchedule' = toSchedule /\ exitedWorkers' = exitedWorkers /\ size' = size
        /\ instances' = instances /\ pending_requests' = pending_requests
        /\ skipped' = skipped /\ sleeping' = sleeping
    BY DEF Dequeue, worldVars, idVars
  <1>6. IdsOK'
    BY <1>1 DEF Dequeue, idVars, IdsOK
  <1>7. TypeOK'
    <2>1. sleeping' \in BOOLEAN /\ pending_requests' \in Nat /\ skipped' \subseteq Requests
      BY <1>1, <1>5 DEF TypeOK
    <2> QED BY <1>1, <1>2, <1>3, <1>4, <1>5, <1>6, <2>1, ThreadKeepsTypes
  <1>8. BusyWorkers' = BusyWorkers \cup {w} /\ (Busy(World)' <=> Busy(World))
    BY <1>1, <1>3, <1>4, <1>5, BusyStep DEF TypeOK
  <1>9. Cardinality(BusyWorkers') = Cardinality(BusyWorkers) + 1
    <2>1. w \notin BusyWorkers
      BY DEF Dequeue, BusyWorkers
    <2> QED BY <1>8, <2>1, BusyWorkersFinite, FS_AddElement
  <1>10. PendingExact'
    <2>1. Len(queue) \in Nat
      BY <1>1 DEF TypeOK
    <2>2. pending_requests = Len(queue) + Cardinality(BusyWorkers)
      BY DEF Inv, Barrier, PendingExact
    <2>3. pending_requests' = Len(queue') + Cardinality(BusyWorkers')
      BY <1>2, <1>5, <1>9, <2>1, <2>2, BusyWorkersFinite
    <2> QED BY <2>3 DEF PendingExact
  <1> QED BY <1>5, <1>7, <1>8, <1>10 DEF Inv, Barrier

LEMMA FinishKeepsInv ==
    ASSUME Inv, NEW t \in Threads, FinishUpdate(t)
    PROVE  Inv'
  <1>1. TypeOK /\ IdsOK /\ Busy(t)
    BY TypeIds DEF Inv, FinishUpdate, LoopDone, Busy
  <1>2. thread' = [thread EXCEPT ![t] = Idle] /\ Idle \in Jobs /\ Idle.at = "idle"
    BY DEF FinishUpdate, Idle, Jobs
  <1>3. /\ activated' = activated /\ deleted' = deleted /\ world' = world /\ queue' = queue
        /\ toSchedule' = toSchedule /\ exitedWorkers' = exitedWorkers /\ size' = size
        /\ instances' = instances /\ skipped' = skipped
    BY DEF FinishUpdate, idVars, history
  <1>4. IdsOK'
    BY <1>1 DEF FinishUpdate, idVars, IdsOK
  <1>5. CASE t = World
    <2>1. pending_requests' = pending_requests /\ sleeping' = sleeping
      BY <1>5 DEF FinishUpdate
    <2>2. TypeOK'
      <3>1. /\ sleeping' \in BOOLEAN /\ pending_requests' \in Nat /\ skipped' \subseteq Requests
            /\ queue' \in Seq(Requests)
        BY <1>1, <1>3, <2>1 DEF TypeOK
      <3> QED BY <1>1, <1>2, <1>3, <1>4, <3>1, ThreadKeepsTypes
    <2>3. BusyWorkers' = BusyWorkers /\ ~Busy(World)'
      BY <1>1, <1>2, <1>3, <1>5, BusyStep DEF TypeOK
    <2> QED BY <1>3, <2>1, <2>2, <2>3 DEF Inv, Barrier, PendingExact
  <1>6. CASE t # World
    <2>1. activated /\ world \in {"schedule", "wait"} /\ pending_requests # 0
      BY <1>1, <1>6, BusyMeansTick
    <2>2. pending_requests' = pending_requests - 1 /\ sleeping' = FALSE
      BY <1>6, <2>1 DEF FinishUpdate, update_finished
    <2>3. TypeOK'
      <3>1. /\ sleeping' \in BOOLEAN /\ pending_requests' \in Nat /\ skipped' \subseteq Requests
            /\ queue' \in Seq(Requests)
        <4>1. pending_requests \in Nat /\ skipped \subseteq Requests /\ queue \in Seq(Requests)
          BY <1>1 DEF TypeOK
        <4>2. sleeping' \in BOOLEAN
          BY <2>2
        <4>3. pending_requests' \in Nat
          BY <2>1, <2>2, <4>1
        <4> QED BY <1>3, <4>1, <4>2, <4>3
      <3> QED BY <1>1, <1>2, <1>3, <1>4, <3>1, ThreadKeepsTypes
    <2>4. BusyWorkers' = BusyWorkers \ {t} /\ (Busy(World)' <=> Busy(World))
      BY <1>1, <1>2, <1>3, <1>6, BusyStep DEF TypeOK
    <2>5. Cardinality(BusyWorkers') = Cardinality(BusyWorkers) - 1
      <3>1. t \in BusyWorkers
        BY <1>1, <1>6 DEF BusyWorkers, Threads
      <3> QED BY <2>4, <3>1, BusyWorkersFinite, FS_RemoveElement
    <2>6. PendingExact'
      <3>1. Len(queue) \in Nat
        BY <1>1 DEF TypeOK
      <3>2. pending_requests = Len(queue) + Cardinality(BusyWorkers)
        BY DEF Inv, Barrier, PendingExact
      <3>3. pending_requests' = Len(queue') + Cardinality(BusyWorkers')
        BY <1>3, <2>2, <2>5, <3>1, <3>2, BusyWorkersFinite
      <3> QED BY <3>3 DEF PendingExact
    <2> QED BY <1>3, <2>1, <2>3, <2>4, <2>6 DEF Inv, Barrier
  <1> QED BY <1>5, <1>6

LEMMA StutterKeepsInv ==
    ASSUME Inv, \/ UNCHANGED vars
                \/ \E w \in Workers : ExitWorker(w)
    PROVE  Inv'
  <1>1. /\ UNCHANGED <<idVars, activated, instances, deleted, updaterVars, worldVars, thread, history>>
        /\ exitedWorkers' \subseteq Workers
    BY DEF ExitWorker, vars, Inv, TypeOK
  <1>2. Jobs' = Jobs
    BY <1>1 DEF idVars, Jobs, Requests, BaseMaps
  <1>3. TypeOK'
    BY <1>1, <1>2 DEF Inv, TypeOK, idVars, updaterVars, worldVars, history, Requests, BaseMaps,
         Threads, WorldStates
  <1>4. Barrier'
    BY <1>1 DEF Inv, Barrier, PendingExact, BusyWorkers, Busy, updaterVars, worldVars
  <1> QED BY <1>3, <1>4 DEF Inv

LEMMA NextInv == Inv /\ [Next]_vars => Inv'
  <1> SUFFICES ASSUME Inv, [Next]_vars PROVE Inv'
    OBVIOUS
  <1>1. CASE \/ \E b \in Battlegrounds : CreateBattleground(b)
             \/ UnloadAll \/ BeginUpdate \/ EndSchedule \/ Wait \/ DelayedUpdate
             \/ Deactivate \/ Join
    BY <1>1, WorldKeepsInv
  <1>2. CASE \E b \in BaseMaps : ScheduleBaseMap(b)
    BY <1>2, ScheduleBaseMapKeepsInv
  <1>3. CASE \E t \in Threads :
               \/ \E m \in instances : UpdateInstance(t, m) \/ KeepInstance(t, m) \/ DestroyInstance(t, m)
               \/ LowerNext(t) \/ ReadWord(t) \/ WriteWord(t)
    BY <1>3, BusyThreadKeepsInv
  <1>4. CASE \E t \in Threads : FinishUpdate(t)
    BY <1>4, FinishKeepsInv
  <1>5. CASE \E w \in Workers : Dequeue(w)
    BY <1>5, DequeueKeepsInv
  <1>6. CASE (\E w \in Workers : ExitWorker(w)) \/ Terminated \/ UNCHANGED vars
    BY <1>6, StutterKeepsInv DEF Terminated
  <1> QED BY <1>1, <1>2, <1>3, <1>4, <1>5, <1>6 DEF Next, WorldStep, ThreadStep, WorkerStep

LEMMA InvImpliesWorldAlone == Inv => WorldAlone
  <1> SUFFICES ASSUME Inv, world \notin {"schedule", "wait"}
               PROVE  queue = <<>> /\ \A t \in Threads : ~Busy(t)
    BY DEF WorldAlone
  <1>1. pending_requests = 0 /\ ~Busy(World)
    BY DEF Inv, Barrier
  <1>2. queue = <<>> /\ BusyWorkers = {}
    BY <1>1, NothingPending
  <1> QED BY <1>1, <1>2 DEF BusyWorkers, Threads

(* The barrier of MapManager::Update: with any number of map update threads *)
(* and maps, pending_requests is exact and the world thread goes on from    *)
(* wait() only when no map is queued or being updated.                      *)
THEOREM BarrierHolds == Spec => [](TypeOK /\ PendingExact /\ WorldAlone)
  <1>1. Inv => TypeOK /\ PendingExact /\ WorldAlone
    BY InvImpliesWorldAlone DEF Inv, Barrier
  <1> QED BY InitInv, NextInv, <1>1, PTL DEF Spec

-----------------------------------------------------------------------------
(* Ids in use are not handed out again *)

(* Every id in use has a bit in the vector. *)
Covered == \A i \in inUse : i < size

(* The bits of the ids in use are set, also in a word that a thread is about *)
(* to write back, and no thread clears the bit of an id in use.              *)
IdsSafe ==
    /\ inUse \subseteq marked
    /\ NextIsAvailable
    /\ \A t \in Threads : thread[t].at \in {"lower", "read", "write"} => thread[t].id \notin inUse
    /\ \A t \in Threads : thread[t].at = "write" =>
          \A j \in inUse : j \div Word = thread[t].id \div Word => j \in thread[t].word

LEMMA InitIdsSafe == Init /\ Covered => IdsSafe
  <1> SUFFICES ASSUME Init, Covered PROVE IdsSafe
    OBVIOUS
  <1>1. PICK s \in Stored :
          /\ marked = {i \in s : i < size}
          /\ nextInstanceId = RegisteredNext(s)
          /\ inUse = s
    BY DEF Init, InitIds
  <1>2. IsFiniteSet(s) /\ s \in SUBSET Nat
    BY InstanceIdsAssumption, BoundedIdsFinite
  <1>3. MaxId(s) \in Nat /\ \A i \in s : i <= MaxId(s)
    BY MaxIdType
  <1>4. nextInstanceId \in Nat /\ (nextInstanceId \notin s \/ nextInstanceId >= MaxId(s) + 1)
    BY <1>1, <1>2, <1>3, FirstFreeFound DEF RegisteredNext, FirstInstanceId
  <1>5. nextInstanceId \notin s
    BY <1>2, <1>3, <1>4
  <1>6. inUse \subseteq marked
    BY <1>1 DEF Covered
  <1>7. \A t \in Threads : thread[t].at = "idle"
    BY DEF Init, Idle
  <1> QED BY <1>1, <1>5, <1>6, <1>7 DEF IdsSafe, NextIsAvailable

(* The world thread alone hands out ids, between two ticks. *)
LEMMA GenerateKeepsIdsSafe ==
    ASSUME Inv, IdsSafe, Covered', NEW b \in Battlegrounds, CreateBattleground(b)
    PROVE  IdsSafe'
  <1>1. IdsOK /\ IdsOK'
    BY TypeIds, GenerateIdsOK DEF Inv, CreateBattleground
  <1>2. \A t \in Threads : thread'[t].at = "idle"
    BY InvImpliesWorldAlone DEF WorldAlone, CreateBattleground, Busy
  <1>3. inUse' \subseteq marked'
    <2>1. \A i \in inUse' : i \in Nat /\ i < size'
      BY <1>1 DEF Covered, IdsOK
    <2> QED BY <1>1, <2>1 DEF IdsSafe, CreateBattleground, GenerateInstanceId, IdsOK
  <1>4. nextInstanceId' \notin inUse'
    <2>1. /\ nextInstanceId' \in Nat /\ nextInstanceId' >= nextInstanceId + 1
          /\ nextInstanceId' \notin marked \/ nextInstanceId' >= size
      BY <1>1, MarkedFinite, FirstFreeFound
         DEF CreateBattleground, GenerateInstanceId, NextAfter, IdsOK
    <2>2. \A i \in inUse : i \in marked /\ i < size
      BY <1>1 DEF IdsSafe, IdsOK
    <2> QED BY <1>1, <2>1, <2>2 DEF CreateBattleground, GenerateInstanceId, IdsOK
  <1> QED BY <1>2, <1>3, <1>4 DEF IdsSafe, NextIsAvailable

(* Threads that free ids at the same time, each in steps of its own *)
LEMMA FreeKeepsIdsSafe ==
    ASSUME Inv, IdsSafe, NEW t \in Threads,
           (\E m \in instances : DestroyInstance(t, m)) \/ LowerNext(t) \/ ReadWord(t) \/ WriteWord(t)
    PROVE  IdsSafe'
  <1>1. thread \in [Threads -> Jobs] /\ TypeOK
    BY DEF Inv, TypeOK
  <1>2. \A s \in Threads \ {t} : thread'[s] = thread[s]
    <2>1. \E job : thread' = [thread EXCEPT ![t] = job]
      BY DEF DestroyInstance, LowerNext, ReadWord, WriteWord
    <2> QED BY <1>1, <2>1
  <1>3. inUse' \subseteq inUse
    BY DEF DestroyInstance, LowerNext, ReadWord, WriteWord, idVars
  <1>4. /\ thread'[t].at \in {"lower", "read", "write"} => thread'[t].id \notin inUse'
        /\ thread'[t].at = "write" =>
              \A j \in inUse' : j \div Word = thread'[t].id \div Word => j \in thread'[t].word
    <2>1. CASE \E m \in instances : DestroyInstance(t, m)
      BY <1>1, <2>1 DEF DestroyInstance, Freeing
    <2>2. CASE LowerNext(t)
      BY <1>1, <2>2 DEF LowerNext, Freeing, IdsSafe
    <2>3. CASE ReadWord(t)
      BY <1>1, <2>3 DEF ReadWord, Freeing, IdsSafe, WordOf, idVars
    <2>4. CASE WriteWord(t)
      BY <1>1, <2>4 DEF WriteWord, Loop
    <2> QED BY <2>1, <2>2, <2>3, <2>4
  <1>5. inUse' \subseteq marked'
    <2>1. CASE WriteWord(t)
      <3> SUFFICES ASSUME NEW j \in inUse PROVE j \in marked'
        BY <2>1 DEF WriteWord
      <3>1. j \in marked /\ j # thread[t].id
        BY <2>1 DEF IdsSafe, WriteWord
      <3>2. CASE j \div Word = thread[t].id \div Word
        BY <2>1, <3>1, <3>2 DEF IdsSafe, WriteWord
      <3>3. CASE j \div Word # thread[t].id \div Word
        BY <2>1, <3>1, <3>3 DEF WordOf, WriteWord
      <3> QED BY <3>2, <3>3
    <2>2. CASE ~WriteWord(t)
      BY <2>2 DEF DestroyInstance, LowerNext, ReadWord, IdsSafe, idVars
    <2> QED BY <2>1, <2>2
  <1>6. nextInstanceId' \notin inUse'
    BY <1>3 DEF DestroyInstance, LowerNext, ReadWord, WriteWord, IdsSafe, NextIsAvailable, idVars
  <1> QED BY <1>2, <1>3, <1>4, <1>5, <1>6 DEF IdsSafe, NextIsAvailable

LEMMA OthersKeepIdsSafe ==
    ASSUME Inv, IdsSafe, UNCHANGED idVars,
           \A t \in Threads : thread'[t] = thread[t] \/ thread'[t].at \in {"idle", "loop"}
    PROVE  IdsSafe'
  BY DEF IdsSafe, NextIsAvailable, idVars

LEMMA NextIdsSafe == Inv /\ IdsSafe /\ Covered' /\ [Next]_vars => IdsSafe'
  <1> SUFFICES ASSUME Inv, IdsSafe, Covered', [Next]_vars PROVE IdsSafe'
    OBVIOUS
  <1>0. thread \in [Threads -> Jobs]
    BY DEF Inv, TypeOK
  <1>1. ASSUME NEW b \in Battlegrounds, CreateBattleground(b) PROVE IdsSafe'
    BY <1>1, GenerateKeepsIdsSafe
  <1>2. CASE UnloadAll \/ WorldStep \/ Terminated \/ UNCHANGED vars
    <2>1. UNCHANGED idVars
      BY <1>2 DEF UnloadAll, WorldStep, BeginUpdate, ScheduleBaseMap, EndSchedule, Wait, DelayedUpdate,
                  Deactivate, Join, Terminated, vars
    <2>2. \A t \in Threads : thread'[t] = thread[t] \/ thread'[t].at \in {"idle", "loop"}
      BY <1>0, <1>2 DEF UnloadAll, WorldStep, BeginUpdate, ScheduleBaseMap, EndSchedule, Wait,
                  DelayedUpdate, Deactivate, Join, Terminated, vars, StartJob, Loop
    <2> QED BY <2>1, <2>2, OthersKeepIdsSafe
  <1>3. ASSUME NEW t \in Threads, ThreadStep(t) PROVE IdsSafe'
    <2>1. CASE (\E m \in instances : DestroyInstance(t, m)) \/ LowerNext(t) \/ ReadWord(t) \/ WriteWord(t)
      BY <2>1, FreeKeepsIdsSafe
    <2>2. CASE (\E m \in instances : UpdateInstance(t, m) \/ KeepInstance(t, m)) \/ FinishUpdate(t)
      <3>1. UNCHANGED idVars
        BY <2>2 DEF UpdateInstance, KeepInstance, FinishUpdate
      <3>2. \A s \in Threads : thread'[s] = thread[s] \/ thread'[s].at \in {"idle", "loop"}
        BY <1>0, <2>2 DEF UpdateInstance, KeepInstance, FinishUpdate, Loop, Idle
      <3> QED BY <3>1, <3>2, OthersKeepIdsSafe
    <2> QED BY <1>3, <2>1, <2>2 DEF ThreadStep
  <1>4. ASSUME NEW w \in Workers, WorkerStep(w) PROVE IdsSafe'
    <2>1. UNCHANGED idVars
      BY <1>4 DEF WorkerStep, Dequeue, ExitWorker
    <2>2. \A t \in Threads : thread'[t] = thread[t] \/ thread'[t].at \in {"idle", "loop"}
      BY <1>0, <1>4 DEF WorkerStep, Dequeue, ExitWorker, StartJob, Loop
    <2> QED BY <2>1, <2>2, OthersKeepIdsSafe
  <1> QED BY <1>1, <1>2, <1>3, <1>4 DEF Next

(* As long as every id in use has a bit in the vector, GenerateInstanceId    *)
(* never hands out an id that an instance still has, although threads free   *)
(* ids of one word at the same time without a lock: they may leave bits set, *)
(* but never clear the bit of an id in use.                                  *)
THEOREM CoveredIdsNotReused == Spec /\ []Covered => []NextIsAvailable
  <1>1. IdsSafe => NextIsAvailable
    BY DEF IdsSafe
  <1> QED BY InitInv, NextInv, InitIdsSafe, NextIdsSafe, <1>1, PTL DEF Spec

-----------------------------------------------------------------------------
(* In every tick each map is updated once and by one thread *)

Queued == {queue[i] : i \in 1..Len(queue)}

(* What the tick still has to do, a map or the base map it is reached from, *)
(* is in one place: the loop of the world thread, the queue, one thread.    *)
QueueOnce == \A i, j \in 1..Len(queue) : queue[i] = queue[j] => i = j

ThreadsApart ==
    \A s, t \in Threads :
        Busy(s) /\ Busy(t) /\ thread[s].map = thread[t].map => s = t

Taken ==
    \A t \in Threads : Busy(t) =>
        /\ thread[t].map \in Maps \ Queued
        /\ thread[t].map[1] \notin toSchedule
        /\ Base(thread[t].map[1]) \notin Queued

QueueExists == Queued \subseteq Maps

QueueReached ==
    \A m \in Queued :
        /\ m[1] \notin toSchedule
        /\ m # Base(m[1]) => Base(m[1]) \notin Queued

(* The instances a base map's loop has not visited are nowhere else. *)
TodoApart ==
    \A t \in Threads : Busy(t) =>
        \A m \in thread[t].todo :
            /\ thread[t].map = Base(m[1]) /\ m \in instances
            /\ m \notin Queued
            /\ \A s \in Threads : Busy(s) => thread[s].map # m

Apart ==
    QueueOnce /\ ThreadsApart /\ Taken /\ QueueExists /\ QueueReached /\ TodoApart

(* The tick has not come to m yet. *)
Awaits(m) ==
    \/ m[1] \in toSchedule
    \/ m \in Queued \/ Base(m[1]) \in Queued
    \/ \E t \in Threads : Busy(t) /\ m \in thread[t].todo

PassedOver(m) == m \in skipped \/ Base(m[1]) \in skipped

InTick == world \in {"schedule", "wait", "delayed"}

Counted ==
    InTick =>
        /\ Maps \subseteq DOMAIN updates
        /\ \A m \in Maps : Awaits(m) => ~PassedOver(m)
        /\ \A m \in DOMAIN updates :
              updates[m] = IF m \in Maps /\ ~Awaits(m) /\ ~PassedOver(m) THEN 1 ELSE 0

Between ==
    /\ toSchedule # {} => world = "schedule"
    /\ ~InTick => skipped = {}
    /\ deleted => world \in {"unload", "join", "stopped"}

OnceInv == Inv /\ Apart /\ Counted /\ Between

-----------------------------------------------------------------------------
(* Base maps, instances and the queue *)

LEMMA BaseFacts ==
    ASSUME NEW b, NEW c
    PROVE  Base(b)[1] = b /\ Base(b)[2] = 0 /\ (Base(b) = Base(c) => b = c)
  BY DEF Base

LEMMA MapFacts ==
    ASSUME TypeOK, NEW m \in Maps
    PROVE  /\ m \in Requests /\ m[1] \in BaseMaps
           /\ m \in instances => m # Base(m[1]) /\ m[2] # 0
           /\ m \notin instances => m = Base(m[1]) /\ m[2] = 0
           /\ Base(m[1]) \in Maps
  <1>1. CASE m \in instances
    <2>1. m \in Battlegrounds \X (Nat \ {0})
      BY <1>1 DEF TypeOK
    <2>2. m[1] \in Battlegrounds /\ m[2] \in Nat \ {0} /\ m = <<m[1], m[2]>>
      BY <2>1
    <2>3. m # Base(m[1])
      BY <2>2, BaseFacts
    <2> QED BY <1>1, <2>2, <2>3 DEF Requests, BaseMaps, Maps
  <1>2. CASE m \notin instances
    <2>1. PICK b \in BaseMaps : m = Base(b)
      BY <1>2 DEF Maps
    <2> QED BY <1>2, <2>1, BaseFacts DEF Requests, Base, Maps
  <1> QED BY <1>1, <1>2

LEMMA QueueAppended ==
    ASSUME TypeOK, QueueOnce, NEW m \in Requests, m \notin Queued, queue' = Append(queue, m)
    PROVE  QueueOnce' /\ Queued' = Queued \cup {m}
  <1> DEFINE n == Len(queue)
  <1>1. /\ n \in Nat /\ Len(queue') = n + 1
        /\ \A i \in 1..n : queue'[i] = queue[i]
        /\ queue'[n + 1] = m
    <2> DEFINE S == Requests
    <2> HIDE DEF S
    <2>1. queue \in Seq(S) /\ m \in S
      BY DEF TypeOK, S
    <2> QED BY <2>1
  <1>2. \A i \in 1..(n + 1) : i \in 1..n \/ i = n + 1
    BY <1>1
  <1>3. \A i \in 1..n : queue[i] # m /\ i \in 1..(n + 1)
    BY <1>1 DEF Queued
  <1> HIDE DEF n
  <1>4. Queued' = Queued \cup {m}
    <2>1. Queued' = {queue'[i] : i \in 1..(n + 1)} /\ Queued = {queue[i] : i \in 1..n}
      BY <1>1 DEF Queued, n
    <2>2. n + 1 \in 1..(n + 1)
      BY <1>1
    <2> QED BY <1>1, <1>2, <1>3, <2>1, <2>2
  <1>5. QueueOnce'
    <2> SUFFICES ASSUME NEW i \in 1..(n + 1), NEW j \in 1..(n + 1), queue'[i] = queue'[j]
                 PROVE  i = j
      BY <1>1 DEF QueueOnce
    <2>1. CASE i \in 1..n /\ j \in 1..n
      BY <1>1, <2>1 DEF QueueOnce, n
    <2> QED BY <1>1, <1>2, <1>3, <2>1
  <1> QED BY <1>4, <1>5

LEMMA QueueTaken ==
    ASSUME TypeOK, QueueOnce, queue # <<>>, queue' = Tail(queue)
    PROVE  QueueOnce' /\ Queued' = Queued \ {Head(queue)} /\ Head(queue) \in Queued
  <1> DEFINE n == Len(queue)
  <1>1. /\ n \in Nat /\ n > 0 /\ Len(queue') = n - 1 /\ Head(queue) = queue[1]
        /\ \A i \in 1..(n - 1) : queue'[i] = queue[i + 1]
    <2> DEFINE S == Requests
    <2> HIDE DEF S
    <2>1. queue \in Seq(S)
      BY DEF TypeOK, S
    <2> QED BY <2>1
  <1>2. \A i \in 1..(n - 1) : i + 1 \in 1..n /\ i + 1 # 1
    BY <1>1
  <1>3. \A i \in 1..n : i = 1 \/ (i - 1 \in 1..(n - 1) /\ (i - 1) + 1 = i)
    BY <1>1
  <1>4. 1 \in 1..n
    BY <1>1
  <1> HIDE DEF n
  <1>5. \A i, j \in 1..n : queue[i] = queue[j] => i = j
    BY DEF QueueOnce, n
  <1>6. Queued' = {queue'[i] : i \in 1..(n - 1)} /\ Queued = {queue[i] : i \in 1..n}
    BY <1>1 DEF Queued, n
  <1>7. Queued' = Queued \ {Head(queue)}
    <2>1. ASSUME NEW x \in Queued' PROVE x \in Queued /\ x # Head(queue)
      <3>1. PICK i \in 1..(n - 1) : x = queue'[i]
        BY <1>6
      <3> QED BY <1>1, <1>2, <1>4, <1>5, <1>6, <3>1
    <2>2. ASSUME NEW x \in Queued, x # Head(queue) PROVE x \in Queued'
      <3>1. PICK i \in 1..n : x = queue[i]
        BY <1>6
      <3>2. i - 1 \in 1..(n - 1) /\ queue'[i - 1] = queue[i]
        BY <1>1, <1>3, <2>2, <3>1
      <3> QED BY <1>6, <3>1, <3>2
    <2> QED BY <2>1, <2>2
  <1>8. QueueOnce'
    <2> SUFFICES ASSUME NEW i \in 1..(n - 1), NEW j \in 1..(n - 1), queue'[i] = queue'[j]
                 PROVE  i = j
      BY <1>1 DEF QueueOnce
    <2>1. queue[i + 1] = queue[j + 1] /\ i + 1 \in 1..n /\ j + 1 \in 1..n
      BY <1>1, <1>2
    <2>2. i + 1 = j + 1
      BY <1>5, <2>1
    <2> QED BY <2>2
  <1> QED BY <1>1, <1>4, <1>6, <1>7, <1>8

LEMMA JobOf ==
    ASSUME TypeOK, NEW t \in Threads, NEW j, thread' = [thread EXCEPT ![t] = j]
    PROVE  thread'[t] = j /\ \A u \in Threads \ {t} : thread'[u] = thread[u]
  <1>1. thread \in [Threads -> Jobs]
    BY DEF TypeOK
  <1> QED BY <1>1

-----------------------------------------------------------------------------
(* A thread visits instance m from the loop of its base map *)

LEMMA VisitFacts ==
    ASSUME OnceInv, NEW t \in Threads, NEW m, thread[t].at = "loop", m \in thread[t].todo
    PROVE  /\ Busy(t) /\ thread[t].map = Base(m[1])
           /\ m \in instances /\ m \in Maps /\ m # Base(m[1]) /\ m \in Requests
           /\ m \notin Queued /\ Base(m[1]) \notin Queued /\ m[1] \notin toSchedule
           /\ \A s \in Threads : Busy(s) => thread[s].map # m
           /\ \A s \in Threads : Busy(s) /\ m \in thread[s].todo => s = t
           /\ InTick /\ ~deleted
           /\ Awaits(m) /\ ~PassedOver(m) /\ m \in DOMAIN updates /\ updates[m] = 0
  <1>1. Busy(t) /\ TypeOK /\ Inv
    BY DEF Busy, OnceInv, Inv
  <1>2. /\ thread[t].map = Base(m[1]) /\ m \in instances /\ m \notin Queued
        /\ \A s \in Threads : Busy(s) => thread[s].map # m
    BY <1>1 DEF OnceInv, Apart, TodoApart
  <1>3. m \in Maps
    BY <1>2 DEF Maps
  <1>4. m # Base(m[1]) /\ m \in Requests
    BY <1>1, <1>2, <1>3, MapFacts
  <1>5. Base(m[1]) \notin Queued /\ m[1] \notin toSchedule
    BY <1>1, <1>2, BaseFacts DEF OnceInv, Apart, Taken
  <1>6. ASSUME NEW s \in Threads, Busy(s), m \in thread[s].todo PROVE s = t
    BY <1>1, <1>2, <1>6 DEF OnceInv, Apart, TodoApart, ThreadsApart
  <1>7. InTick /\ ~deleted
    <2>1. world \in {"schedule", "wait"}
      BY <1>1, BusyMeansTick
    <2> QED BY <2>1 DEF InTick, OnceInv, Between
  <1>8. Awaits(m)
    BY <1>1 DEF Awaits
  <1>9. ~PassedOver(m) /\ m \in DOMAIN updates /\ updates[m] = 0
    BY <1>3, <1>7, <1>8 DEF OnceInv, Counted
  <1> QED BY <1>1, <1>2, <1>3, <1>4, <1>5, <1>6, <1>7, <1>8, <1>9

LEMMA VisitApart ==
    ASSUME OnceInv, NEW t \in Threads, NEW m, thread[t].at = "loop", m \in thread[t].todo,
           NEW j, thread' = [thread EXCEPT ![t] = j],
           j.at # "idle", j.map = thread[t].map, j.todo = thread[t].todo \ {m},
           toSchedule' = toSchedule, QueueOnce',
           \/ Queued' = Queued /\ instances' \in {instances, instances \ {m}}
           \/ Queued' = Queued \cup {m} /\ instances' = instances
    PROVE  /\ Apart'
           /\ Awaits(m)' <=> m \in Queued'
           /\ \A x : x # m => (Awaits(x)' <=> Awaits(x))
  <1> USE VisitFacts
  <1>1. /\ Busy(t)' /\ thread'[t].map = thread[t].map /\ thread'[t].todo = thread[t].todo \ {m}
        /\ \A u \in Threads \ {t} : thread'[u] = thread[u] /\ (Busy(u)' <=> Busy(u))
    <2>1. thread'[t] = j /\ \A u \in Threads \ {t} : thread'[u] = thread[u]
      BY JobOf DEF OnceInv, Inv
    <2> QED BY <2>1 DEF Busy
  <1>2. /\ \A u \in Threads : Busy(u)' <=> Busy(u)
        /\ \A u \in Threads : thread'[u].map = thread[u].map
        /\ \A u \in Threads : thread'[u].todo \subseteq thread[u].todo
    BY <1>1
  <1>3. Maps' = {Base(b) : b \in BaseMaps} \cup instances'
    BY DEF Maps, BaseMaps, Base
  <1>4. Maps \ {m} \subseteq Maps' /\ (m \in Queued' => m \in instances')
    BY <1>3 DEF Maps
  <1>5. ThreadsApart'
    BY <1>2 DEF ThreadsApart, OnceInv, Apart
  <1>6. Taken'
    <2> SUFFICES ASSUME NEW u \in Threads, Busy(u)
                 PROVE  /\ thread[u].map \in Maps' \ Queued'
                        /\ thread[u].map[1] \notin toSchedule
                        /\ Base(thread[u].map[1]) \notin Queued'
      BY <1>2 DEF Taken, Base
    <2>1. /\ thread[u].map \in Maps \ Queued /\ thread[u].map[1] \notin toSchedule
          /\ Base(thread[u].map[1]) \notin Queued
      BY DEF OnceInv, Apart, Taken
    <2>2. thread[u].map # m /\ Base(thread[u].map[1]) # m
      BY BaseFacts
    <2> QED BY <1>4, <2>1, <2>2
  <1>7. QueueExists'
    <2>1. Queued \subseteq Maps \ {m}
      BY DEF OnceInv, Apart, QueueExists
    <2> QED BY <1>3, <1>4, <2>1 DEF QueueExists
  <1>8. QueueReached'
    <2> SUFFICES ASSUME NEW x \in Queued'
                 PROVE  x[1] \notin toSchedule /\ (x # Base(x[1]) => Base(x[1]) \notin Queued')
      BY DEF QueueReached, Base
    <2>1. Base(x[1]) # m
      BY BaseFacts
    <2>2. CASE x \in Queued
      BY <2>1, <2>2 DEF OnceInv, Apart, QueueReached
    <2>3. CASE x = m
      BY <2>1, <2>3
    <2> QED BY <2>2, <2>3
  <1>9. TodoApart'
    <2> SUFFICES ASSUME NEW u \in Threads, Busy(u), NEW x \in thread'[u].todo
                 PROVE  /\ thread[u].map = Base(x[1]) /\ x \in instances' /\ x \notin Queued'
                        /\ \A s \in Threads : Busy(s) => thread[s].map # x
      BY <1>2 DEF TodoApart, Base
    <2>1. x \in thread[u].todo /\ x # m
      BY <1>1, <1>2
    <2> QED BY <2>1 DEF OnceInv, Apart, TodoApart
  <1>10. Awaits(m)' <=> m \in Queued'
    <2>1. ~ \E u \in Threads : Busy(u)' /\ m \in thread'[u].todo
      BY <1>1, <1>2
    <2> QED BY <2>1 DEF Awaits, Base
  <1>11. ASSUME NEW x, x # m PROVE Awaits(x)' <=> Awaits(x)
    <2>1. Base(x[1]) # m
      BY BaseFacts
    <2>2. \A u \in Threads : x \in thread'[u].todo <=> x \in thread[u].todo
      BY <1>1, <1>11
    <2> QED BY <1>2, <1>11, <2>1, <2>2 DEF Awaits, Base
  <1> QED BY <1>5, <1>6, <1>7, <1>8, <1>9, <1>10, <1>11 DEF Apart

(* m is queued, passed over, updated on the spot, or destroyed. *)
LEMMA VisitCounted ==
    ASSUME OnceInv, NEW t \in Threads, NEW m, thread[t].at = "loop", m \in thread[t].todo,
           world' = world, Awaits(m)' <=> m \in Queued',
           \A x : x # m => (Awaits(x)' <=> Awaits(x)),
           \/ /\ m \in Queued' /\ skipped' = skipped /\ updates' = updates /\ instances' = instances
           \/ /\ m \notin Queued' /\ skipped' = skipped \cup {m} /\ updates' = updates
              /\ instances' = instances
           \/ /\ m \notin Queued' /\ skipped' = skipped /\ Updated(m) /\ instances' = instances
           \/ /\ m \notin Queued' /\ skipped' = skipped /\ updates' = updates
              /\ instances' = instances \ {m}
    PROVE  Counted'
  <1> USE VisitFacts
  <1>1. InTick' /\ Maps' = {Base(b) : b \in BaseMaps} \cup instances'
    BY DEF InTick, Maps, BaseMaps, Base
  <1>2. /\ Maps \subseteq DOMAIN updates
        /\ \A x \in Maps : Awaits(x) => ~PassedOver(x)
        /\ \A x \in DOMAIN updates :
              updates[x] = IF x \in Maps /\ ~Awaits(x) /\ ~PassedOver(x) THEN 1 ELSE 0
    BY DEF OnceInv, Counted
  <1>3. DOMAIN updates' = DOMAIN updates /\ \A x \in DOMAIN updates : x # m => updates'[x] = updates[x]
    BY DEF Updated
  <1>4. \A x : x # m => (x \in Maps' <=> x \in Maps)
    BY <1>1 DEF Maps
  <1>5. \A x : x # m => (PassedOver(x)' <=> PassedOver(x))
    <2> SUFFICES ASSUME NEW x, x # m PROVE PassedOver(x)' <=> PassedOver(x)
      OBVIOUS
    <2>1. Base(x[1]) # m
      BY BaseFacts
    <2> QED BY <2>1 DEF PassedOver, Base
  <1>6. /\ m \in Maps' /\ Awaits(m)' => ~PassedOver(m)'
        /\ updates'[m] = IF m \in Maps' /\ ~Awaits(m)' /\ ~PassedOver(m)' THEN 1 ELSE 0
    <2>1. m \in Maps' <=> m \in instances'
      <3>1. \A b \in BaseMaps : Base(b) # m
        BY BaseFacts
      <3> QED BY <1>1, <3>1
    <2>2. PassedOver(m)' <=> m \in skipped' \/ Base(m[1]) \in skipped'
      BY DEF PassedOver, Base
    <2>3. m \notin skipped /\ Base(m[1]) \notin skipped /\ Base(m[1]) # m
      BY DEF PassedOver
    <2>4. m \in DOMAIN updates /\ updates[m] = 0
      BY VisitFacts
    <2>5. Updated(m) => updates'[m] = 1
      <3>1. Updated(m) => updates'[m] = updates[m] + 1
        BY <2>4 DEF Updated
      <3> QED BY <2>4, <3>1
    <2> QED BY <2>1, <2>2, <2>3, <2>4, <2>5
  <1>7. Maps' \subseteq DOMAIN updates'
    BY <1>1, <1>2, <1>3 DEF Maps
  <1>8. \A x \in Maps' : Awaits(x)' => ~PassedOver(x)'
    BY <1>2, <1>4, <1>5, <1>6
  <1>9. ASSUME NEW x \in DOMAIN updates'
        PROVE  updates'[x] = IF x \in Maps' /\ ~Awaits(x)' /\ ~PassedOver(x)' THEN 1 ELSE 0
    <2>1. CASE x = m
      BY <1>6, <2>1
    <2>2. CASE x # m
      BY <1>2, <1>3, <1>4, <1>5, <2>2
    <2> QED BY <2>1, <2>2
  <1> QED BY <1>7, <1>8, <1>9 DEF Counted

LEMMA VisitKeepsOnce ==
    ASSUME OnceInv, NEW t \in Threads, NEW m \in instances,
           UpdateInstance(t, m) \/ KeepInstance(t, m) \/ DestroyInstance(t, m)
    PROVE  OnceInv'
  <1>1. thread[t].at = "loop" /\ m \in thread[t].todo /\ TypeOK /\ QueueOnce
    BY DEF UpdateInstance, KeepInstance, DestroyInstance, OnceInv, Inv, Apart
  <1>2. /\ m \notin Queued /\ m \in Requests /\ InTick /\ ~deleted
    BY <1>1, VisitFacts
  <1>3. Inv'
    BY BusyThreadKeepsInv DEF OnceInv
  <1>4. PICK j : /\ thread' = [thread EXCEPT ![t] = j] /\ j.at # "idle"
                 /\ j.map = thread[t].map /\ j.todo = thread[t].todo \ {m}
    <2>1. CASE UpdateInstance(t, m) \/ KeepInstance(t, m)
      <3> DEFINE k == Loop(thread[t].map, thread[t].todo \ {m})
      <3>1. thread' = [thread EXCEPT ![t] = k]
        BY <2>1 DEF UpdateInstance, KeepInstance
      <3>2. k.at = "loop" /\ k.map = thread[t].map /\ k.todo = thread[t].todo \ {m}
        BY DEF Loop
      <3> HIDE DEF k
      <3> QED BY <3>1, <3>2
    <2>2. CASE DestroyInstance(t, m)
      <3> DEFINE k == Freeing("lower", thread[t].map, thread[t].todo \ {m}, m[2],
                              m[2] < nextInstanceId, {})
      <3>1. thread' = [thread EXCEPT ![t] = k]
        BY <2>2 DEF DestroyInstance
      <3>2. k.at = "lower" /\ k.map = thread[t].map /\ k.todo = thread[t].todo \ {m}
        BY DEF Freeing
      <3> HIDE DEF k
      <3> QED BY <3>1, <3>2
    <2> QED BY <2>1, <2>2
  <1>5. /\ toSchedule' = toSchedule /\ world' = world /\ deleted' = deleted
    BY DEF UpdateInstance, KeepInstance, DestroyInstance, worldVars
  <1>6. Between'
    BY <1>2, <1>5 DEF OnceInv, Between, InTick
  <1>7. CASE queue' = Append(queue, m) /\ skipped' = skipped /\ updates' = updates
             /\ instances' = instances
    <2>1. QueueOnce' /\ Queued' = Queued \cup {m}
      BY <1>1, <1>2, <1>7, QueueAppended
    <2>2. /\ Apart' /\ (Awaits(m)' <=> m \in Queued') /\ \A x : x # m => (Awaits(x)' <=> Awaits(x))
      BY <1>1, <1>4, <1>5, <1>7, <2>1, VisitApart
    <2>3. Counted'
      BY <1>1, <1>5, <1>7, <2>1, <2>2, VisitCounted
    <2> QED BY <1>3, <1>6, <2>2, <2>3 DEF OnceInv
  <1>8. CASE /\ queue' = queue
             /\ \/ skipped' = skipped \cup {m} /\ updates' = updates /\ instances' = instances
                \/ skipped' = skipped /\ Updated(m) /\ instances' = instances
                \/ skipped' = skipped /\ updates' = updates /\ instances' = instances \ {m}
    <2>1. QueueOnce' /\ Queued' = Queued
      BY <1>1, <1>8 DEF QueueOnce, Queued
    <2>2. /\ Apart' /\ (Awaits(m)' <=> m \in Queued') /\ \A x : x # m => (Awaits(x)' <=> Awaits(x))
      BY <1>1, <1>4, <1>5, <1>8, <2>1, VisitApart
    <2>3. Counted'
      BY <1>1, <1>2, <1>5, <1>8, <2>1, <2>2, VisitCounted
    <2> QED BY <1>3, <1>6, <2>2, <2>3 DEF OnceInv
  <1>9. CASE UpdateInstance(t, m)
    BY <1>7, <1>8, <1>9 DEF UpdateInstance, schedule_update, updaterVars
  <1>10. CASE KeepInstance(t, m)
    BY <1>8, <1>10 DEF KeepInstance, updaterVars
  <1>11. CASE DestroyInstance(t, m)
    BY <1>8, <1>11 DEF DestroyInstance, updaterVars, history
  <1> QED BY <1>9, <1>10, <1>11

-----------------------------------------------------------------------------
(* Steps that leave the maps where they are *)

LEMMA FrameKeepsOnce ==
    ASSUME OnceInv, Inv', queue' = queue, toSchedule' = toSchedule, instances' = instances,
           updates' = updates, skipped' = skipped, deleted' = deleted,
           InTick' <=> InTick, world = world' \/ toSchedule = {}, ~deleted \/ world' = world,
           \A u \in Threads :
              \/ Busy(u)' /\ Busy(u) /\ thread'[u].map = thread[u].map /\ thread'[u].todo = thread[u].todo
              \/ ~Busy(u)' /\ (~Busy(u) \/ thread[u].todo = {})
    PROVE  OnceInv'
  <1>1. Queued' = Queued /\ Maps' = Maps /\ (QueueOnce' <=> QueueOnce)
    BY DEF Queued, Maps, QueueOnce, BaseMaps, Base
  <1>2. \A u \in Threads : Busy(u)' =>
            Busy(u) /\ thread'[u].map = thread[u].map /\ thread'[u].todo = thread[u].todo
    OBVIOUS
  <1>3. ThreadsApart'
    BY <1>2 DEF ThreadsApart, OnceInv, Apart
  <1>4. Taken'
    BY <1>1, <1>2 DEF Taken, OnceInv, Apart, Base
  <1>5. QueueExists' /\ QueueReached'
    BY <1>1 DEF QueueExists, QueueReached, OnceInv, Apart, Base
  <1>6. TodoApart'
    BY <1>1, <1>2 DEF TodoApart, OnceInv, Apart, Base
  <1>7. ASSUME NEW x PROVE Awaits(x)' <=> Awaits(x)
    <2>1. (\E t \in Threads : Busy(t)' /\ x \in thread'[t].todo)
            <=> (\E t \in Threads : Busy(t) /\ x \in thread[t].todo)
      OBVIOUS
    <2> QED BY <1>1, <2>1 DEF Awaits, Base
  <1>8. \A x : PassedOver(x)' <=> PassedOver(x)
    BY DEF PassedOver, Base
  <1>9. Counted'
    BY <1>1, <1>7, <1>8 DEF Counted, OnceInv
  <1>10. Between'
    BY DEF Between, OnceInv
  <1> QED BY <1>1, <1>3, <1>4, <1>5, <1>6, <1>9, <1>10 DEF OnceInv, Apart

LEMMA FreeingKeepsOnce ==
    ASSUME OnceInv, NEW t \in Threads, LowerNext(t) \/ ReadWord(t) \/ WriteWord(t)
    PROVE  OnceInv'
  <1>1. /\ queue' = queue /\ toSchedule' = toSchedule /\ instances' = instances
        /\ updates' = updates /\ skipped' = skipped /\ deleted' = deleted /\ world' = world
    BY DEF LowerNext, ReadWord, WriteWord, updaterVars, worldVars, history
  <1>2. Inv' /\ TypeOK
    BY BusyThreadKeepsInv DEF OnceInv, Inv
  <1>3. Busy(t)
    BY DEF LowerNext, ReadWord, WriteWord, Busy
  <1>4. PICK j : /\ thread' = [thread EXCEPT ![t] = j] /\ j.at # "idle"
                 /\ j.map = thread[t].map /\ j.todo = thread[t].todo
    <2>1. ASSUME NEW k, thread' = [thread EXCEPT ![t] = k], k.at # "idle",
                 k.map = thread[t].map, k.todo = thread[t].todo
          PROVE  \E j : /\ thread' = [thread EXCEPT ![t] = j] /\ j.at # "idle"
                        /\ j.map = thread[t].map /\ j.todo = thread[t].todo
      BY <2>1
    <2>2. CASE LowerNext(t)
      <3> DEFINE k == Freeing("read", thread[t].map, thread[t].todo, thread[t].id,
                              thread[t].lower, {})
      <3>1. thread' = [thread EXCEPT ![t] = k]
        BY <2>2 DEF LowerNext
      <3>2. k.at = "read" /\ k.map = thread[t].map /\ k.todo = thread[t].todo
        BY DEF Freeing
      <3> HIDE DEF k
      <3> QED BY <2>1, <3>1, <3>2
    <2>3. CASE ReadWord(t)
      <3> DEFINE k == Freeing("write", thread[t].map, thread[t].todo, thread[t].id,
                              thread[t].lower, WordOf(thread[t].id))
      <3>1. thread' = [thread EXCEPT ![t] = k]
        BY <2>3 DEF ReadWord
      <3>2. k.at = "write" /\ k.map = thread[t].map /\ k.todo = thread[t].todo
        BY DEF Freeing
      <3> HIDE DEF k
      <3> QED BY <2>1, <3>1, <3>2
    <2>4. CASE WriteWord(t)
      <3> DEFINE k == Loop(thread[t].map, thread[t].todo)
      <3>1. thread' = [thread EXCEPT ![t] = k]
        BY <2>4 DEF WriteWord
      <3>2. k.at = "loop" /\ k.map = thread[t].map /\ k.todo = thread[t].todo
        BY DEF Loop
      <3> HIDE DEF k
      <3> QED BY <2>1, <3>1, <3>2
    <2> QED BY <2>2, <2>3, <2>4
  <1>5. thread'[t] = j /\ \A u \in Threads \ {t} : thread'[u] = thread[u]
    BY <1>2, <1>4, JobOf
  <1>6. \A u \in Threads :
              \/ Busy(u)' /\ Busy(u) /\ thread'[u].map = thread[u].map /\ thread'[u].todo = thread[u].todo
              \/ ~Busy(u)' /\ (~Busy(u) \/ thread[u].todo = {})
    BY <1>3, <1>4, <1>5 DEF Busy
  <1>7. InTick' <=> InTick
    BY <1>1 DEF InTick
  <1> QED BY <1>1, <1>2, <1>6, <1>7, FrameKeepsOnce

LEMMA FinishKeepsOnce ==
    ASSUME OnceInv, NEW t \in Threads, FinishUpdate(t)
    PROVE  OnceInv'
  <1>1. /\ queue' = queue /\ toSchedule' = toSchedule /\ instances' = instances
        /\ updates' = updates /\ skipped' = skipped /\ deleted' = deleted /\ world' = world
        /\ thread' = [thread EXCEPT ![t] = Idle] /\ thread[t].todo = {}
    BY DEF FinishUpdate, LoopDone, history
  <1>2. Inv' /\ TypeOK
    BY FinishKeepsInv DEF OnceInv, Inv
  <1>3. thread'[t] = Idle /\ \A u \in Threads \ {t} : thread'[u] = thread[u]
    BY <1>1, <1>2, JobOf
  <1>4. \A u \in Threads :
              \/ Busy(u)' /\ Busy(u) /\ thread'[u].map = thread[u].map /\ thread'[u].todo = thread[u].todo
              \/ ~Busy(u)' /\ (~Busy(u) \/ thread[u].todo = {})
    BY <1>1, <1>3 DEF Busy, Idle
  <1>5. InTick' <=> InTick
    BY <1>1 DEF InTick
  <1> QED BY <1>1, <1>2, <1>4, <1>5, FrameKeepsOnce

(* The steps of the world thread that start and end the phases of a tick *)
LEMMA WorldKeepsOnce ==
    ASSUME OnceInv,
           \/ \E b \in Battlegrounds : CreateBattleground(b)
           \/ UnloadAll \/ BeginUpdate \/ EndSchedule \/ Wait \/ DelayedUpdate
           \/ Deactivate \/ Join
    PROVE  OnceInv'
  <1>1. Inv' /\ Inv /\ thread' = thread /\ queue' = queue /\ WorldAlone /\ TypeOK
    BY WorldKeepsInv, InvImpliesWorldAlone
       DEF OnceInv, Inv, CreateBattleground, UnloadAll, BeginUpdate, EndSchedule, Wait,
           DelayedUpdate, Deactivate, Join, updaterVars
  <1>2. \A u \in Threads : Busy(u)' <=> Busy(u)
    BY <1>1 DEF Busy
  <1>3. CASE EndSchedule \/ Wait
    <2>1. /\ toSchedule' = toSchedule /\ instances' = instances /\ toSchedule = {}
          /\ updates' = updates /\ skipped' = skipped /\ deleted' = deleted /\ ~deleted
          /\ (InTick' <=> InTick)
      BY <1>3 DEF EndSchedule, Wait, WaitFor, history, OnceInv, Between, InTick
    <2> QED BY <1>1, <1>2, <2>1, FrameKeepsOnce
  <1>4. ASSUME queue = <<>>, \A u \in Threads : ~Busy(u) PROVE Apart'
    <2>1. Queued' = {} /\ QueueOnce'
      BY <1>1, <1>4 DEF Queued, QueueOnce
    <2> QED BY <1>2, <1>4, <2>1
            DEF Apart, ThreadsApart, Taken, QueueExists, QueueReached, TodoApart
  <1>5. CASE \/ \E b \in Battlegrounds : CreateBattleground(b)
             \/ UnloadAll \/ DelayedUpdate \/ Deactivate \/ Join
    <2>1. world \in {"idle", "delayed", "unload", "join"}
      BY <1>5 DEF CreateBattleground, UnloadAll, DelayedUpdate, Deactivate, Join
    <2>2. Apart'
      BY <1>1, <1>4, <2>1 DEF WorldAlone
    <2>3. ~InTick' /\ toSchedule' = {} /\ skipped' = {}
      BY <1>5 DEF CreateBattleground, UnloadAll, DelayedUpdate, Deactivate, Join, WaitFor,
                  OnceInv, Between, InTick, worldVars, history
    <2>4. deleted' => world' \in {"unload", "join", "stopped"}
      BY <1>5 DEF CreateBattleground, UnloadAll, DelayedUpdate, Deactivate, Join, WaitFor,
                  OnceInv, Between, worldVars
    <2> QED BY <1>1, <2>2, <2>3, <2>4 DEF OnceInv, Counted, Between
  <1>6. CASE BeginUpdate
    <2>1. /\ world = "idle" /\ world' = "schedule" /\ toSchedule' = BaseMaps /\ skipped' = skipped
          /\ updates' = [m \in Maps |-> 0] /\ instances' = instances /\ deleted' = deleted
      BY <1>6 DEF BeginUpdate
    <2>2. Apart'
      BY <1>1, <1>4, <2>1 DEF WorldAlone
    <2>3. Maps' = Maps /\ skipped' = {} /\ ~deleted
      BY <2>1 DEF Maps, BaseMaps, Base, OnceInv, Between, InTick
    <2>4. \A m \in Maps : Awaits(m)'
      BY <1>1, <2>1, MapFacts DEF Awaits
    <2>5. \A m : ~PassedOver(m)'
      BY <2>3 DEF PassedOver
    <2>6. Counted'
      BY <2>1, <2>3, <2>4, <2>5 DEF Counted
    <2>7. Between'
      BY <2>1, <2>3 DEF Between, InTick
    <2> QED BY <1>1, <2>2, <2>6, <2>7 DEF OnceInv
  <1> QED BY <1>3, <1>5, <1>6

-----------------------------------------------------------------------------
(* The tick comes to a map: m is at the head of its queue or its loop *)

LEMMA StartFacts ==
    ASSUME OnceInv, NEW m \in Maps, m \in Queued \/ (m = Base(m[1]) /\ m[1] \in toSchedule)
    PROVE  /\ \A s \in Threads : Busy(s) => thread[s].map # m /\ m \notin thread[s].todo
           /\ m = Base(m[1]) =>
                /\ \A s \in Threads : Busy(s) =>
                      thread[s].map[1] # m[1] /\ \A x \in thread[s].todo : x[1] # m[1]
                /\ \A x \in Queued : x # m => x[1] # m[1]
           /\ m # Base(m[1]) => Base(m[1]) \notin Queued
           /\ m[1] \in toSchedule => m \notin Queued
           /\ InTick /\ world \in {"schedule", "wait"} /\ ~deleted
           /\ Awaits(m) /\ ~PassedOver(m) /\ m \in DOMAIN updates /\ updates[m] = 0
  <1>1. Inv /\ TypeOK /\ WorldAlone
    BY InvImpliesWorldAlone DEF OnceInv, Inv
  <1>2. /\ m # Base(m[1]) => Base(m[1]) \notin Queued
        /\ m[1] \in toSchedule => m \notin Queued
    BY DEF OnceInv, Apart, QueueReached
  <1>3. ASSUME NEW s \in Threads, Busy(s)
        PROVE  /\ thread[s].map # m /\ m \notin thread[s].todo
               /\ m = Base(m[1]) => thread[s].map[1] # m[1] /\ \A x \in thread[s].todo : x[1] # m[1]
    <2>1. /\ thread[s].map \notin Queued /\ thread[s].map[1] \notin toSchedule
          /\ Base(thread[s].map[1]) \notin Queued
      BY <1>3 DEF OnceInv, Apart, Taken
    <2>2. \A x \in thread[s].todo : thread[s].map = Base(x[1]) /\ x \notin Queued
      BY <1>3 DEF OnceInv, Apart, TodoApart
    <2>3. \A x \in thread[s].todo : thread[s].map[1] = x[1]
      BY <2>2, BaseFacts
    <2>4. thread[s].map # m
      BY <2>1
    <2>5. m \notin thread[s].todo
      BY <2>1, <2>2, <2>3
    <2>6. m = Base(m[1]) => thread[s].map[1] # m[1]
      BY <2>1
    <2> QED BY <2>3, <2>4, <2>5, <2>6
  <1>4. ASSUME m = Base(m[1]), NEW x \in Queued, x # m PROVE x[1] # m[1]
    <2>1. x[1] \notin toSchedule /\ (x # Base(x[1]) => Base(x[1]) \notin Queued)
      BY DEF OnceInv, Apart, QueueReached
    <2> QED BY <1>4, <2>1
  <1>5. world \in {"schedule", "wait"}
    <2>1. CASE m \in Queued
      <3>1. queue # <<>>
        <4>1. queue = <<>> => Queued = {}
          BY DEF Queued
        <4> QED BY <2>1, <4>1
      <3> QED BY <1>1, <3>1 DEF WorldAlone
    <2>2. CASE m[1] \in toSchedule
      BY <2>2 DEF OnceInv, Between
    <2> QED BY <2>1, <2>2
  <1>6. InTick /\ ~deleted
    BY <1>5 DEF InTick, OnceInv, Between
  <1>7. Awaits(m)
    BY DEF Awaits
  <1>8. ~PassedOver(m) /\ m \in DOMAIN updates /\ updates[m] = 0
    BY <1>6, <1>7 DEF OnceInv, Counted
  <1> QED BY <1>2, <1>3, <1>4, <1>5, <1>6, <1>7, <1>8

(* A thread starts to update m, and to go over its instances. *)
LEMMA StartKeepsOnce ==
    ASSUME OnceInv, Inv', NEW m \in Maps, NEW t \in Threads, ~Busy(t),
           thread' = [thread EXCEPT ![t] = StartJob(m)], Updated(m),
           world' = world, deleted' = deleted, instances' = instances, skipped' = skipped, QueueOnce',
           \/ m \in Queued /\ Queued' = Queued \ {m} /\ toSchedule' = toSchedule
           \/ /\ m = Base(m[1]) /\ m[1] \in toSchedule
              /\ toSchedule' = toSchedule \ {m[1]} /\ Queued' = Queued
    PROVE  OnceInv'
  <1> DEFINE todo == IF m[2] = 0 THEN InstancesOf(m[1]) ELSE {}
  <1>1. TypeOK
    BY DEF OnceInv, Inv
  <1>2. /\ m[2] = 0 <=> m = Base(m[1])
        /\ \A x \in Maps : x[2] = 0 <=> x = Base(x[1])
        /\ \A x \in Maps : x # Base(x[1]) <=> x \in instances
    BY <1>1, MapFacts
  <1>3. /\ \A x \in todo : x \in instances /\ x[1] = m[1] /\ x # m /\ x \in Maps
        /\ \A x \in todo : m = Base(x[1])
        /\ \A x \in instances : m = Base(x[1]) => x \in todo
    <2>1. \A x \in todo : x \in instances /\ x[1] = m[1] /\ m = Base(m[1])
      BY <1>2 DEF InstancesOf
    <2>2. \A x \in instances : m = Base(x[1]) => x[1] = m[1] /\ m[2] = 0
      BY BaseFacts
    <2>3. \A x \in instances : x \in Maps /\ x # Base(x[1])
      BY <1>2 DEF Maps
    <2>4. \A x \in instances : m = Base(x[1]) => x \in todo
      BY <2>2 DEF InstancesOf
    <2> QED BY <2>1, <2>3, <2>4
  <1>4. /\ Busy(t)' /\ thread'[t].map = m /\ thread'[t].todo = todo
        /\ \A u \in Threads \ {t} : thread'[u] = thread[u] /\ (Busy(u)' <=> Busy(u))
    <2>1. thread'[t] = StartJob(m) /\ \A u \in Threads \ {t} : thread'[u] = thread[u]
      BY <1>1, JobOf
    <2>2. StartJob(m).at = "loop" /\ StartJob(m).map = m /\ StartJob(m).todo = todo
      BY DEF StartJob, Loop
    <2> QED BY <2>1, <2>2 DEF Busy
  <1> HIDE DEF todo
  <1>5. Maps' = Maps /\ toSchedule' \subseteq toSchedule /\ Queued' \subseteq Queued
    BY DEF Maps, BaseMaps, Base
  <1>6. m \notin Queued' /\ m[1] \notin toSchedule' /\ Base(m[1]) \notin Queued'
    BY StartFacts DEF OnceInv, Apart, QueueReached
  <1>7. ThreadsApart'
    <2> SUFFICES ASSUME NEW r \in Threads, NEW s \in Threads, Busy(r)', Busy(s)',
                        thread'[r].map = thread'[s].map
                 PROVE  r = s
      BY DEF ThreadsApart
    <2>1. CASE r # t /\ s # t
      BY <1>4, <2>1 DEF OnceInv, Apart, ThreadsApart
    <2> QED BY <1>4, <2>1, StartFacts
  <1>8. Taken'
    <2> SUFFICES ASSUME NEW u \in Threads, Busy(u)'
                 PROVE  /\ thread'[u].map \in Maps \ Queued'
                        /\ thread'[u].map[1] \notin toSchedule'
                        /\ Base(thread'[u].map[1]) \notin Queued'
      BY <1>5 DEF Taken, Base
    <2>1. CASE u = t
      BY <1>4, <1>6, <2>1
    <2>2. CASE u # t
      BY <1>4, <1>5, <2>2 DEF OnceInv, Apart, Taken
    <2> QED BY <2>1, <2>2
  <1>9. QueueExists' /\ QueueReached'
    BY <1>5 DEF QueueExists, QueueReached, OnceInv, Apart, Base
  <1>10. TodoApart'
    <2> SUFFICES ASSUME NEW u \in Threads, Busy(u)', NEW x \in thread'[u].todo
                 PROVE  /\ thread'[u].map = Base(x[1]) /\ x \in instances
                        /\ x \notin Queued'
                        /\ \A s \in Threads : Busy(s)' => thread'[s].map # x
      BY DEF TodoApart, Base
    <2>1. CASE u = t
      <3>1. x \in instances /\ x[1] = m[1] /\ x # m /\ m = Base(m[1])
        BY <1>3, <1>4, <2>1
      <3>2. x \notin Queued /\ \A s \in Threads : Busy(s) => thread[s].map # x
        BY <3>1, StartFacts
      <3> QED BY <1>4, <1>5, <2>1, <3>1, <3>2
    <2>2. CASE u # t
      <3>1. /\ thread[u].map = Base(x[1]) /\ x \in instances /\ x \notin Queued
            /\ \A s \in Threads : Busy(s) => thread[s].map # x
        BY <1>4, <2>2 DEF OnceInv, Apart, TodoApart
      <3>2. x # m
        BY <1>4, <2>2, StartFacts
      <3> QED BY <1>4, <1>5, <2>2, <3>1, <3>2
    <2> QED BY <2>1, <2>2
  <1>11. ~Awaits(m)'
    <2>1. ASSUME NEW u \in Threads, Busy(u)' PROVE m \notin thread'[u].todo
      BY <1>3, <1>4, <2>1, StartFacts
    <2> QED BY <1>6, <2>1 DEF Awaits, Base
  <1>12. ASSUME NEW x \in Maps, x # m PROVE Awaits(x)' <=> Awaits(x)
    <2>1. x \in todo => Awaits(x)' /\ Awaits(x)
      <3>1. x \in todo => Base(x[1]) = m /\ x[1] = m[1]
        BY <1>3
      <3>2. x \in todo => Awaits(x)
        BY <3>1 DEF Awaits
      <3> QED BY <1>4, <3>2 DEF Awaits
    <2>2. ASSUME x \notin todo PROVE Awaits(x)' <=> Awaits(x)
      <3>1. Base(x[1]) # m
        BY <1>2, <1>3, <1>12, <2>2
      <3>2. x[1] \in toSchedule' <=> x[1] \in toSchedule
        BY <3>1
      <3>3. (x \in Queued' <=> x \in Queued) /\ (Base(x[1]) \in Queued' <=> Base(x[1]) \in Queued)
        BY <1>12, <3>1
      <3>4. (\E u \in Threads : Busy(u)' /\ x \in thread'[u].todo)
              <=> (\E u \in Threads : Busy(u) /\ x \in thread[u].todo)
        BY <1>4, <2>2
      <3> QED BY <3>2, <3>3, <3>4 DEF Awaits, Base
    <2> QED BY <2>1, <2>2
  <1>13. \A x : PassedOver(x)' <=> PassedOver(x)
    BY DEF PassedOver, Base
  <1>14. Counted'
    <2>1. /\ Maps \subseteq DOMAIN updates
          /\ \A x \in Maps : Awaits(x) => ~PassedOver(x)
          /\ \A x \in DOMAIN updates :
                updates[x] = IF x \in Maps /\ ~Awaits(x) /\ ~PassedOver(x) THEN 1 ELSE 0
      BY StartFacts DEF OnceInv, Counted
    <2>2. /\ DOMAIN updates' = DOMAIN updates /\ updates'[m] = 1
          /\ \A x \in DOMAIN updates : x # m => updates'[x] = updates[x]
      <3>1. m \in DOMAIN updates /\ updates[m] = 0
        BY StartFacts
      <3>2. updates'[m] = updates[m] + 1
        BY <3>1 DEF Updated
      <3> QED BY <3>1, <3>2 DEF Updated
    <2>3. \A x \in Maps : Awaits(x)' => ~PassedOver(x)'
      BY <1>11, <1>12, <1>13, <2>1
    <2>4. ASSUME NEW x \in DOMAIN updates
          PROVE  updates'[x] = IF x \in Maps /\ ~Awaits(x)' /\ ~PassedOver(x)' THEN 1 ELSE 0
      <3>1. CASE x = m
        BY <1>11, <1>13, <2>2, <3>1, StartFacts
      <3>2. CASE x # m
        BY <1>12, <1>13, <2>1, <2>2, <3>2
      <3> QED BY <3>1, <3>2
    <2> QED BY <1>5, <2>1, <2>2, <2>3, <2>4 DEF Counted
  <1>15. Between'
    BY <1>5 DEF OnceInv, Between, InTick
  <1> QED BY <1>7, <1>8, <1>9, <1>10, <1>14, <1>15 DEF OnceInv, Apart

(* The loop of the world thread hands a base map to the executor, is refused, *)
(* or updates the map itself.                                                *)
LEMMA ScheduleBaseMapKeepsOnce ==
    ASSUME OnceInv, NEW b \in BaseMaps, ScheduleBaseMap(b)
    PROVE  OnceInv'
  <1> DEFINE m == Base(b)
  <1>1. m \in Maps /\ m \in Requests /\ m[1] = b /\ m = Base(m[1]) /\ b \in toSchedule
    BY BaseFacts DEF Maps, Requests, Base, ScheduleBaseMap
  <1> HIDE DEF m
  <1>2. Inv' /\ TypeOK /\ QueueOnce
    BY ScheduleBaseMapKeepsInv DEF OnceInv, Inv, Apart
  <1>3. /\ world' = world /\ deleted' = deleted /\ instances' = instances
        /\ toSchedule' = toSchedule \ {b} /\ ~Busy(World) /\ World \in Threads
    BY DEF ScheduleBaseMap, Threads
  <1>4. CASE ~activated
    <2>1. /\ thread' = [thread EXCEPT ![World] = StartJob(m)] /\ Updated(m) /\ queue' = queue
          /\ skipped' = skipped
      BY <1>4 DEF ScheduleBaseMap, updaterVars, m
    <2>2. QueueOnce' /\ Queued' = Queued
      BY <1>2, <2>1 DEF QueueOnce, Queued
    <2> QED BY <1>1, <1>2, <1>3, <2>1, <2>2, StartKeepsOnce
  <1>5. CASE activated
    <2>1. /\ thread' = thread /\ updates' = updates
          /\ \/ queue' = Append(queue, m) /\ skipped' = skipped
             \/ queue' = queue /\ skipped' = skipped \cup {m}
      BY <1>5 DEF ScheduleBaseMap, schedule_update, updaterVars, m
    <2>2. m \notin Queued
      BY <1>1, StartFacts
    <2>3. /\ QueueOnce'
          /\ \/ Queued' = Queued \cup {m} /\ skipped' = skipped
             \/ Queued' = Queued /\ skipped' = skipped \cup {m}
      <3>1. CASE queue' = Append(queue, m) /\ skipped' = skipped
        BY <1>1, <1>2, <2>2, <3>1, QueueAppended
      <3>2. CASE queue' = queue /\ skipped' = skipped \cup {m}
        BY <1>2, <3>2 DEF QueueOnce, Queued
      <3> QED BY <2>1, <3>1, <3>2
    <2>4. /\ Maps' = Maps /\ (\A u \in Threads : Busy(u)' <=> Busy(u))
          /\ (InTick' <=> InTick)
      BY <1>3, <2>1 DEF Maps, BaseMaps, Base, Busy, InTick
    <2>5. \A x : Base(x[1]) = m => x[1] = b
      BY <1>1, BaseFacts
    <2>6. ThreadsApart'
      BY <2>1, <2>4 DEF ThreadsApart, OnceInv, Apart
    <2>7. Taken'
      <3> SUFFICES ASSUME NEW u \in Threads, Busy(u)
                   PROVE  /\ thread[u].map \in Maps \ Queued'
                          /\ thread[u].map[1] \notin toSchedule'
                          /\ Base(thread[u].map[1]) \notin Queued'
        BY <2>1, <2>4 DEF Taken, Base
      <3>1. /\ thread[u].map \in Maps \ Queued /\ thread[u].map[1] \notin toSchedule
            /\ Base(thread[u].map[1]) \notin Queued
        BY DEF OnceInv, Apart, Taken
      <3> QED BY <1>1, <1>3, <2>3, <2>5, <3>1
    <2>8. QueueExists'
      BY <1>1, <2>3, <2>4 DEF OnceInv, Apart, QueueExists
    <2>9. QueueReached'
      <3> SUFFICES ASSUME NEW x \in Queued'
                   PROVE  x[1] \notin toSchedule' /\ (x # Base(x[1]) => Base(x[1]) \notin Queued')
        BY DEF QueueReached, Base
      <3>1. CASE x \in Queued
        <4>1. x[1] \notin toSchedule /\ (x # Base(x[1]) => Base(x[1]) \notin Queued)
          BY <3>1 DEF OnceInv, Apart, QueueReached
        <4> QED BY <1>1, <1>3, <2>3, <2>5, <4>1
      <3>2. CASE x = m
        BY <1>1, <1>3, <3>2
      <3> QED BY <2>3, <3>1, <3>2
    <2>10. TodoApart'
      <3> SUFFICES ASSUME NEW u \in Threads, Busy(u), NEW x \in thread[u].todo
                   PROVE  /\ thread[u].map = Base(x[1]) /\ x \in instances /\ x \notin Queued'
                          /\ \A s \in Threads : Busy(s) => thread[s].map # x
        BY <1>3, <2>1, <2>4 DEF TodoApart, Base
      <3>1. x # m
        BY <1>1, StartFacts
      <3> QED BY <2>3, <3>1 DEF OnceInv, Apart, TodoApart
    <2>11. (\A x : (\E u \in Threads : Busy(u)' /\ x \in thread'[u].todo)
                     <=> (\E u \in Threads : Busy(u) /\ x \in thread[u].todo))
      BY <2>1, <2>4
    <2>12. ASSUME NEW x \in Maps
           PROVE  /\ PassedOver(x)' => PassedOver(x) \/ (skipped' = skipped \cup {m} /\ x[1] = b)
                  /\ PassedOver(x) => PassedOver(x)'
                  /\ x[1] = b /\ skipped' = skipped \cup {m} => PassedOver(x)'
                  /\ x[1] = b => Awaits(x)
                  /\ x[1] = b => (Awaits(x)' <=> m \in Queued')
                  /\ x[1] # b => (Awaits(x)' <=> Awaits(x))
      <3>1. PassedOver(x)' <=> x \in skipped' \/ Base(x[1]) \in skipped'
        BY DEF PassedOver, Base
      <3>2. Awaits(x)' <=> \/ x[1] \in toSchedule' \/ x \in Queued' \/ Base(x[1]) \in Queued'
                           \/ \E u \in Threads : Busy(u)' /\ x \in thread'[u].todo
        BY DEF Awaits, Base
      <3>3. x[1] = b => Base(x[1]) = m
        BY DEF m
      <3>4. x = m => x[1] = b
        BY <1>1
      <3>5. x[1] = b => ~ \E u \in Threads : Busy(u)' /\ x \in thread'[u].todo
        BY <1>1, <2>11, StartFacts
      <3>6. x[1] = b => (x \in Queued' => m \in Queued')
        <4>1. ASSUME x[1] = b, x \in Queued PROVE FALSE
          BY <1>1, <4>1, StartFacts
        <4> QED BY <2>3, <4>1
      <3>7. x[1] = b => Awaits(x)
        BY <1>1 DEF Awaits
      <3>8. x[1] = b => (Awaits(x)' <=> m \in Queued')
        BY <1>3, <3>2, <3>3, <3>5, <3>6
      <3>9. x[1] # b => (Awaits(x)' <=> Awaits(x))
        BY <1>3, <2>3, <2>5, <2>11, <3>2, <3>4 DEF Awaits
      <3>10. /\ PassedOver(x)' => PassedOver(x) \/ (skipped' = skipped \cup {m} /\ x[1] = b)
             /\ PassedOver(x) => PassedOver(x)'
             /\ x[1] = b /\ skipped' = skipped \cup {m} => PassedOver(x)'
        BY <2>3, <2>5, <3>1, <3>3, <3>4 DEF PassedOver
      <3> QED BY <3>7, <3>8, <3>9, <3>10
    <2>13. Counted'
      <3>1. /\ Maps \subseteq DOMAIN updates
            /\ \A x \in Maps : Awaits(x) => ~PassedOver(x)
            /\ \A x \in DOMAIN updates :
                  updates[x] = IF x \in Maps /\ ~Awaits(x) /\ ~PassedOver(x) THEN 1 ELSE 0
        BY <1>1, StartFacts DEF OnceInv, Counted
      <3>2. CASE m \in Queued' /\ skipped' = skipped
        <4>1. \A x \in Maps : (Awaits(x)' <=> Awaits(x)) /\ (PassedOver(x)' <=> PassedOver(x))
          <5>1. \A x : PassedOver(x)' <=> PassedOver(x)
            BY <3>2 DEF PassedOver, Base
          <5> QED BY <2>12, <3>2, <5>1
        <4> QED BY <2>1, <2>4, <3>1, <4>1 DEF Counted
      <3>3. CASE m \notin Queued' /\ skipped' = skipped \cup {m}
        <4>1. \A x \in Maps : x[1] = b => ~Awaits(x)' /\ PassedOver(x)' /\ Awaits(x)
          BY <2>12, <3>3
        <4>2. \A x \in Maps : x[1] # b => (Awaits(x)' <=> Awaits(x)) /\ (PassedOver(x)' <=> PassedOver(x))
          BY <2>12
        <4> QED BY <2>1, <2>4, <3>1, <4>1, <4>2 DEF Counted
      <3> QED BY <2>2, <2>3, <3>2, <3>3
    <2>14. Between'
      <3>1. InTick
        BY <1>1, StartFacts
      <3> QED BY <1>3, <2>4, <3>1 DEF OnceInv, Between
    <2> QED BY <1>2, <2>3, <2>6, <2>7, <2>8, <2>9, <2>10, <2>13, <2>14 DEF OnceInv, Apart
  <1> QED BY <1>4, <1>5

LEMMA DequeueKeepsOnce ==
    ASSUME OnceInv, NEW w \in Workers, Dequeue(w)
    PROVE  OnceInv'
  <1>1. Inv' /\ TypeOK /\ QueueOnce /\ QueueExists
    BY DequeueKeepsInv DEF OnceInv, Inv, Apart
  <1>2. queue # <<>> /\ queue' = Tail(queue) /\ ~Busy(w) /\ w \in Threads
    BY DEF Dequeue, Threads
  <1> DEFINE m == Head(queue)
  <1>3. QueueOnce' /\ Queued' = Queued \ {m} /\ m \in Queued
    BY <1>1, <1>2, QueueTaken
  <1>4. /\ thread' = [thread EXCEPT ![w] = StartJob(m)] /\ Updated(m)
        /\ world' = world /\ deleted' = deleted /\ instances' = instances
        /\ skipped' = skipped /\ toSchedule' = toSchedule
    BY DEF Dequeue, worldVars
  <1> HIDE DEF m
  <1>5. m \in Maps
    BY <1>1, <1>3 DEF QueueExists
  <1> QED BY <1>1, <1>2, <1>3, <1>4, <1>5, StartKeepsOnce

LEMMA StutterKeepsOnce ==
    ASSUME OnceInv, \/ UNCHANGED vars
                    \/ \E w \in Workers : ExitWorker(w)
    PROVE  OnceInv'
  <1>1. UNCHANGED <<instances, deleted, queue, world, toSchedule, thread, updates, skipped>>
    BY DEF ExitWorker, vars, updaterVars, worldVars, history
  <1>2. Inv'
    BY StutterKeepsInv DEF OnceInv
  <1>3. (InTick' <=> InTick) /\ \A u \in Threads : Busy(u)' <=> Busy(u)
    BY <1>1 DEF InTick, Busy
  <1>4. \A u \in Threads :
              \/ Busy(u)' /\ Busy(u) /\ thread'[u].map = thread[u].map /\ thread'[u].todo = thread[u].todo
              \/ ~Busy(u)' /\ (~Busy(u) \/ thread[u].todo = {})
    BY <1>1, <1>3
  <1> QED BY <1>1, <1>2, <1>3, <1>4, FrameKeepsOnce

-----------------------------------------------------------------------------
(* Every behaviour *)

LEMMA InitOnce == Init => OnceInv
  <1> SUFFICES ASSUME Init PROVE OnceInv
    OBVIOUS
  <1>1. Inv
    BY InitInv
  <1>2. queue = <<>> /\ Queued = {} /\ QueueOnce
    BY DEF Init, Queued, QueueOnce
  <1>3. \A t \in Threads : ~Busy(t)
    BY DEF Init, Busy, Idle
  <1>4. Apart
    BY <1>2, <1>3 DEF Apart, ThreadsApart, Taken, QueueExists, QueueReached, TodoApart
  <1>5. Counted /\ Between
    BY DEF Init, Counted, Between, InTick
  <1> QED BY <1>1, <1>4, <1>5 DEF OnceInv

LEMMA NextOnce == OnceInv /\ [Next]_vars => OnceInv'
  <1> SUFFICES ASSUME OnceInv, [Next]_vars PROVE OnceInv'
    OBVIOUS
  <1>1. CASE \/ \E b \in Battlegrounds : CreateBattleground(b)
             \/ UnloadAll \/ BeginUpdate \/ EndSchedule \/ Wait \/ DelayedUpdate
             \/ Deactivate \/ Join
    BY <1>1, WorldKeepsOnce
  <1>2. CASE \E b \in BaseMaps : ScheduleBaseMap(b)
    BY <1>2, ScheduleBaseMapKeepsOnce
  <1>3. CASE \E t \in Threads :
               \E m \in instances : UpdateInstance(t, m) \/ KeepInstance(t, m) \/ DestroyInstance(t, m)
    BY <1>3, VisitKeepsOnce
  <1>4. CASE \E t \in Threads : LowerNext(t) \/ ReadWord(t) \/ WriteWord(t)
    BY <1>4, FreeingKeepsOnce
  <1>5. CASE \E t \in Threads : FinishUpdate(t)
    BY <1>5, FinishKeepsOnce
  <1>6. CASE \E w \in Workers : Dequeue(w)
    BY <1>6, DequeueKeepsOnce
  <1>7. CASE (\E w \in Workers : ExitWorker(w)) \/ Terminated \/ UNCHANGED vars
    BY <1>7, StutterKeepsOnce DEF Terminated
  <1> QED BY <1>1, <1>2, <1>3, <1>4, <1>5, <1>6, <1>7 DEF Next, WorldStep, ThreadStep, WorkerStep

(* No map is ever updated by two threads, and none after it was destroyed   *)
(* or the maps were unloaded, in any interleaving of MapInstanced::Update   *)
(* with the executor.                                                       *)
THEOREM MapsUnshared == Spec => []OneThreadPerMap
  <1>1. OnceInv => OneThreadPerMap
    <2> SUFFICES ASSUME OnceInv PROVE OneThreadPerMap
      OBVIOUS
    <2>1. ASSUME NEW t \in Threads, Busy(t) PROVE thread[t].map \in Maps /\ ~deleted
      <3>1. world \in {"schedule", "wait"}
        BY <2>1, BusyMeansTick DEF OnceInv
      <3> QED BY <2>1, <3>1 DEF OnceInv, Apart, Taken, Between
    <2>2. \A i \in 1..Len(queue) : queue[i] \in Maps
      BY DEF OnceInv, Apart, QueueExists, Queued
    <2> QED BY <2>1, <2>2 DEF OneThreadPerMap, OnceInv, Apart, ThreadsApart
  <1> QED BY InitOnce, NextOnce, <1>1, PTL DEF Spec

(* When wait() has let the world thread go on, every map was updated once   *)
(* in the tick, whatever thread scheduled it, but for those the executor's  *)
(* full queue refused or whose destruction was given up.                    *)
THEOREM TickUpdatesOnce == Spec => []EachMapOnce
  <1>1. OnceInv => EachMapOnce
    <2> SUFFICES ASSUME OnceInv, world = "delayed" PROVE EachMapOnce
      BY DEF EachMapOnce
    <2>1. queue = <<>> /\ \A t \in Threads : ~Busy(t)
      BY InvImpliesWorldAlone DEF OnceInv, WorldAlone
    <2>2. Queued = {} /\ toSchedule = {}
      BY <2>1 DEF Queued, OnceInv, Between
    <2>3. \A m : ~Awaits(m)
      BY <2>1, <2>2 DEF Awaits
    <2>4. \A m \in DOMAIN updates :
             updates[m] = IF m \in Maps /\ ~Awaits(m) /\ ~PassedOver(m) THEN 1 ELSE 0
      BY DEF OnceInv, Counted, InTick
    <2> QED BY <2>3, <2>4 DEF EachMapOnce, PassedOver
  <1> QED BY InitOnce, NextOnce, <1>1, PTL DEF Spec
=============================================================================
