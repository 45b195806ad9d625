---------------------------- MODULE InstanceIds ----------------------------
(***************************************************************************)
(* The allocator of instance ids in MapManager (game/Maps/MapManager.cpp): *)
(* _instanceIds, a vector<bool> of the ids in use, and _nextInstanceId.    *)
(*                                                                         *)
(* A store beyond the vector's size is undefined: it lands in memory that  *)
(* is not part of the vector, so the bit is not there when the vector is   *)
(* read or copied again.                                                   *)
(***************************************************************************)
EXTENDS Integers, FiniteSets, FiniteSetsExt

CONSTANTS
    Chunk,          \* granularity of the sizes asked for: 32
    Word,           \* granularity of vector<bool>'s capacity: 64
    Stored,         \* possible contents of the instance table at startup
    LastId          \* bound on the ids handed out, 0xFFFFFFFE in the code

ASSUME InstanceIdsAssumption ==
    /\ Chunk \in Nat \ {0} /\ Word \in Nat \ {0} /\ LastId \in Nat
    /\ \A s \in Stored : s \subseteq 1..LastId

VARIABLES
    size,           \* _instanceIds.size()
    capacity,       \* _instanceIds.capacity()
    marked,         \* ids below size whose bit is set
    nextInstanceId, \* _nextInstanceId
    inUse           \* ids an instance has: handed out and not freed

idVars == <<size, capacity, marked, nextInstanceId, inUse>>

(* (n / 32) * 32 + (n % 32 > 0 ? 32 : 0) *)
RoundUp(n, k) == (n \div k) * k + (IF n % k > 0 THEN k ELSE 0)

(* Largest stored id, 0 for an empty table *)
MaxId(s) == IF s = {} THEN 0 ELSE Max(s)

(* Smallest id from n on that Generate takes for free *)
FirstFree(n, m, sz) ==
    CHOOSE i \in n..(n + Cardinality(m)) :
        /\ i \notin m \/ i >= sz
        /\ \A j \in n..(i - 1) : j \in m /\ j < sz

(* _nextInstanceId of an empty table; id 0 means "no instance". *)
FirstInstanceId == 1

(* LoadResetTimes reads the ids of the table in ascending order and moves   *)
(* _nextInstanceId past the ones it meets.                                  *)
RegisteredNext(s) == FirstFree(FirstInstanceId, s, MaxId(s) + 1)

(* InitInstanceIds, then RegisterInstanceId of the ids of the table *)
InitIds ==
    \E s \in Stored :
        /\ size = RoundUp(MaxId(s), Chunk)
        /\ capacity = RoundUp(size, Word)
        /\ marked = {i \in s : i < size}
        /\ nextInstanceId = RegisteredNext(s)
        /\ inUse = s

(* The size GenerateInstanceId makes room with for id n *)
SizeFor(n) ==
    IF n < size THEN size
    ELSE IF size < capacity THEN capacity
    ELSE RoundUp(n, Chunk)

(* vector<bool>::resize: a reallocation at least doubles the storage        *)
(* (external: libstdc++).                                                   *)
CapacityFor(n) ==
    IF n <= capacity THEN capacity
    ELSE RoundUp(size + Max({size, n - size}), Word)

(* Returns _nextInstanceId and looks for the id to return next time. *)
NextAfter_Unchecked(n) == n + 1

NextAfter(n) == FirstFree(n + 1, marked, size)

GenerateInstanceId ==
    /\ nextInstanceId <= LastId
    /\ nextInstanceId' = NextAfter(nextInstanceId)
    /\ size' = SizeFor(nextInstanceId)
    /\ capacity' = CapacityFor(size')
    /\ marked' = marked \cup ({nextInstanceId} \cap 0..(size' - 1))
    /\ inUse' = inUse \cup {nextInstanceId}

(* SetNextInstanceId(instanceId) if it is lower *)
NextAfterFree(i, n) == IF i < n THEN i ELSE n

FreeInstanceId(i) ==
    /\ nextInstanceId' = NextAfterFree(i, nextInstanceId)
    /\ marked' = marked \ {i}
    /\ inUse' = inUse \ {i}
    /\ UNCHANGED <<size, capacity>>

InitSequential == InitIds
NextSequential == GenerateInstanceId \/ \E i \in inUse : FreeInstanceId(i)
SequentialSpec == InitSequential /\ [][NextSequential]_idVars

-----------------------------------------------------------------------------
(* Properties *)

(* GenerateInstanceId never hands out an id that an instance still has:     *)
(* "Find the lowest available id".                                          *)
NextIsAvailable == nextInstanceId \notin inUse
=============================================================================
