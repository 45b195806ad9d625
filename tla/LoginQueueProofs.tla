-------------------------- MODULE LoginQueueProofs --------------------------
(***************************************************************************)
(* Theorems about LoginQueue, for any accounts, sessions and limits.       *)
(***************************************************************************)
EXTENDS LoginQueue, TLAPS, SequenceTheorems, FiniteSetTheorems, WellFoundedInduction

-----------------------------------------------------------------------------
(* Lemmas about the operators of the model *)

(* Every non-empty set of naturals has a least element. *)
LEMMA NatMin ==
    ASSUME NEW T \in SUBSET Nat, T # {}
    PROVE  \E m \in T : \A y \in T : m <= y
  <1> DEFINE R == {p \in Nat \X Nat : p[1] < p[2]}
  <1>1. IsWellFoundedOn(R, Nat)
    BY NatLessThanWellFounded DEF OpToRel
  <1>2. \A x, y \in Nat : x < y => <<x, y>> \in R
    OBVIOUS
  <1> HIDE DEF R
  <1>3. PICK m \in T : \A y \in T : ~(<<y, m>> \in R)
    BY <1>1, WFMin
  <1>4. \A y \in T : ~(y < m)
    BY <1>2, <1>3
  <1> QED BY <1>3, <1>4

(* GetQueuePos is the index of the session's entry, 0 if there is none. *)
LEMMA QueuePosRange ==
    ASSUME NEW q \in Seq(Sessions), NEW s
    PROVE  /\ GetQueuePos(q, s) \in 0..Len(q)
           /\ GetQueuePos(q, s) # 0 => q[GetQueuePos(q, s)] = s
           /\ GetQueuePos(q, s) # 0 <=> \E i \in 1..Len(q) : q[i] = s
  <1>1. CASE ~Contains(q, s)
    BY <1>1 DEF GetQueuePos, Contains
  <1>2. CASE Contains(q, s)
    <2> DEFINE T == {i \in 1..Len(q) : q[i] = s}
               Hit(i) == q[i] = s /\ \A j \in 1..(i - 1) : q[j] # s
    <2>1. T \in SUBSET Nat /\ T # {}
      BY <1>2 DEF Contains
    <2>2. PICK m \in T : \A y \in T : m <= y
      BY <2>1, NatMin
    <2>3. m \in 1..Len(q) /\ Hit(m)
      BY <2>2
    <2>4. GetQueuePos(q, s) = CHOOSE i \in 1..Len(q) : Hit(i)
      BY <1>2 DEF GetQueuePos
    <2> HIDE DEF Hit
    <2>5. GetQueuePos(q, s) \in 1..Len(q) /\ Hit(GetQueuePos(q, s))
      BY <2>3, <2>4
    <2> QED BY <2>5 DEF Hit
  <1> QED BY <1>1, <1>2

(* RemoveAt drops one entry and moves the later ones down. *)
LEMMA RemoveAtProperties ==
    ASSUME NEW q \in Seq(Sessions), NEW p \in 1..Len(q)
    PROVE  /\ RemoveAt(q, p) \in Seq(Sessions)
           /\ Len(RemoveAt(q, p)) = Len(q) - 1
           /\ \A i \in 1..(Len(q) - 1) :
                RemoveAt(q, p)[i] = IF i < p THEN q[i] ELSE q[i + 1]
  <1> DEFINE u == SubSeq(q, 1, p - 1)
             v == SubSeq(q, p + 1, Len(q))
  <1>1. /\ u \in Seq(Sessions) /\ Len(u) = p - 1
        /\ \A i \in 1..(p - 1) : u[i] = q[i]
    BY SubSeqProperties
  <1>2. /\ v \in Seq(Sessions) /\ Len(v) = Len(q) - p
        /\ \A i \in 1..(Len(q) - p) : v[i] = q[p + i]
    BY SubSeqProperties
  <1> HIDE DEF u, v
  <1>3. /\ u \o v \in Seq(Sessions) /\ Len(u \o v) = Len(q) - 1
        /\ \A i \in 1..(Len(q) - 1) : (u \o v)[i] = IF i < p THEN u[i] ELSE v[i - (p - 1)]
    <2>1. Len(q) \in Nat
      OBVIOUS
    <2>2. /\ u \o v \in Seq(Sessions) /\ Len(u \o v) = Len(u) + Len(v)
          /\ \A i \in 1..(Len(u) + Len(v)) :
                (u \o v)[i] = IF i <= Len(u) THEN u[i] ELSE v[i - Len(u)]
      BY <1>1, <1>2, ConcatProperties
    <2> QED BY <1>1, <1>2, <2>1, <2>2
  <1>4. RemoveAt(q, p) = u \o v
    BY DEF RemoveAt, u, v
  <1> QED BY <1>1, <1>2, <1>3, <1>4

(* Head and tail of a queue *)
LEMMA TailOfQueue ==
    ASSUME NEW q \in Seq(Sessions), q # <<>>
    PROVE  /\ Head(q) \in Sessions /\ Head(q) = q[1]
           /\ Tail(q) \in Seq(Sessions)
           /\ Len(q) \in Nat \ {0}
           /\ Len(Tail(q)) = Len(q) - 1
           /\ \A i \in 1..(Len(q) - 1) : Tail(q)[i] = q[i + 1]
  OBVIOUS

(* Taking the head off a queue of distinct entries removes just that entry. *)
LEMMA TailEntries ==
    ASSUME NEW q \in Seq(Sessions), q # <<>>, Distinct(q)
    PROVE  /\ Distinct(Tail(q))
           /\ Head(q) \in Entries(q)
           /\ Entries(Tail(q)) = Entries(q) \ {Head(q)}
  <1>1. /\ Head(q) = q[1] /\ Len(q) \in Nat \ {0} /\ Len(Tail(q)) = Len(q) - 1
        /\ \A i \in 1..(Len(q) - 1) : Tail(q)[i] = q[i + 1]
    BY TailOfQueue
  <1>2. Distinct(Tail(q))
    BY <1>1 DEF Distinct
  <1>3. Head(q) \in Entries(q)
    BY <1>1 DEF Entries
  <1>4. Entries(Tail(q)) \subseteq Entries(q) \ {Head(q)}
    BY <1>1 DEF Entries, Distinct
  <1>5. ASSUME NEW x \in Entries(q), x # Head(q) PROVE x \in Entries(Tail(q))
    <2>1. PICK k \in 1..Len(q) : x = q[k]
      BY DEF Entries
    <2>2. k - 1 \in 1..(Len(q) - 1) /\ Tail(q)[k - 1] = x
      BY <1>1, <1>5, <2>1
    <2> QED BY <1>1, <2>2 DEF Entries
  <1> QED BY <1>2, <1>3, <1>4, <1>5

(* Appending a new entry *)
LEMMA AppendEntries ==
    ASSUME NEW q \in Seq(Sessions), NEW s \in Sessions, Distinct(q), s \notin Entries(q)
    PROVE  /\ Append(q, s) \in Seq(Sessions)
           /\ Len(Append(q, s)) = Len(q) + 1
           /\ Distinct(Append(q, s))
           /\ Entries(Append(q, s)) = Entries(q) \cup {s}
  <1> DEFINE n == Len(q)
             r == Append(q, s)
  <1>1. /\ n \in Nat /\ r \in Seq(Sessions) /\ Len(r) = n + 1
        /\ \A i \in 1..n : r[i] = q[i]
        /\ r[n + 1] = s
    BY AppendProperties
  <1> HIDE DEF r
  <1>2. Distinct(r)
    <2>1. \A i \in 1..n : r[i] # s
      BY <1>1 DEF Entries
    <2>2. \A i \in 1..(n + 1) : i \in 1..n \/ i = n + 1
      BY <1>1
    <2>3. \A i, j \in 1..n : r[i] = r[j] => i = j
      BY <1>1 DEF Distinct
    <2> QED BY <1>1, <2>1, <2>2, <2>3 DEF Distinct
  <1>3. Entries(r) = Entries(q) \cup {s}
    BY <1>1 DEF Entries
  <1> QED BY <1>1, <1>2, <1>3 DEF r

(* The state the queue functions work on *)
QueueStateType ==
    [queue : Seq(Sessions), inQueue : [Sessions -> BOOLEAN],
     told : [Sessions -> Nat], found : BOOLEAN]

(* RemoveQueuedPlayer keeps types and distinctness, adds nothing to the      *)
(* queue, and leaves no entry for the session it is called with.             *)
LEMMA RemoveQueuedPlayerProperties ==
    ASSUME NEW st \in QueueStateType, NEW total \in Int, NEW s,
           m_playerLimit \in Nat, Distinct(st.queue)
    PROVE  LET r == RemoveQueuedPlayer(st, total, s) IN
           /\ r \in QueueStateType
           /\ Distinct(r.queue)
           /\ Entries(r.queue) \subseteq Entries(st.queue) \ {s}
  <1> DEFINE q      == st.queue
             pos    == GetQueuePos(q, s)
             found  == pos # 0
             rest   == IF found THEN RemoveAt(q, pos) ELSE q
             popped == MayAdmit(CountWithout(total - Len(q), found)) /\ rest # <<>>
             queue  == IF popped THEN Tail(rest) ELSE rest
             r      == RemoveQueuedPlayer(st, total, s)
  <1>1. q \in Seq(Sessions) /\ st.inQueue \in [Sessions -> BOOLEAN]
        /\ st.told \in [Sessions -> Nat]
    BY DEF QueueStateType
  <1>2. /\ pos \in 0..Len(q)
        /\ pos # 0 => q[pos] = s
        /\ pos # 0 <=> \E i \in 1..Len(q) : q[i] = s
    BY <1>1, QueuePosRange
  <1>3. /\ rest \in Seq(Sessions)
        /\ Distinct(rest)
        /\ \A i \in 1..Len(rest) : rest[i] # s /\ \E k \in 1..Len(q) : rest[i] = q[k]
    <2> HIDE DEF q, pos
    <2>0. Len(q) \in Nat /\ Distinct(q)
      BY <1>1 DEF q
    <2>1. CASE found
      <3>1. /\ rest \in Seq(Sessions) /\ Len(rest) = Len(q) - 1
            /\ \A i \in 1..(Len(q) - 1) : rest[i] = IF i < pos THEN q[i] ELSE q[i + 1]
        <4>1. pos \in 1..Len(q) /\ rest = RemoveAt(q, pos)
          BY <1>2, <2>0, <2>1
        <4> HIDE DEF rest
        <4> QED BY <1>1, <4>1, RemoveAtProperties
      <3> HIDE DEF rest
      <3>2. \A i \in 1..Len(rest) : \E k \in 1..Len(q) \ {pos} :
              k = (IF i < pos THEN i ELSE i + 1) /\ rest[i] = q[k]
        BY <1>2, <2>0, <2>1, <3>1
      <3>3. q[pos] = s /\ pos \in 1..Len(q)
        BY <1>2, <2>0, <2>1
      <3>4. \A i \in 1..Len(rest) : rest[i] # s
        BY <2>0, <3>2, <3>3 DEF Distinct
      <3>5. Distinct(rest)
        BY <1>2, <2>0, <3>1, <3>2 DEF Distinct
      <3> QED BY <3>1, <3>2, <3>4, <3>5
    <2>2. CASE ~found
      BY <1>1, <1>2, <2>0, <2>2
    <2> QED BY <2>1, <2>2
  <1>4. /\ queue \in Seq(Sessions)
        /\ Distinct(queue)
        /\ Entries(queue) \subseteq Entries(q) \ {s}
    <2> HIDE DEF rest
    <2>1. CASE popped
      <3>1. /\ queue \in Seq(Sessions) /\ Len(rest) \in Nat /\ Len(queue) = Len(rest) - 1
            /\ \A i \in 1..(Len(rest) - 1) : queue[i] = rest[i + 1]
        BY <1>3, <2>1, TailOfQueue
      <3> QED BY <1>3, <2>1, <3>1 DEF Distinct, Entries
    <2>2. CASE ~popped
      BY <1>3, <2>2 DEF Distinct, Entries
    <2> QED BY <2>1, <2>2
  <1>5. /\ r.queue = queue
        /\ r.inQueue \in [Sessions -> BOOLEAN]
        /\ r.found \in BOOLEAN
    BY <1>1 DEF RemoveQueuedPlayer
  <1>6. r.told \in [Sessions -> Nat]
    <2>1. \A x : GetQueuePos(queue, x) \in Nat
      <3> HIDE DEF queue
      <3>1. \A x : GetQueuePos(queue, x) \in 0..Len(queue)
        BY <1>4, QueuePosRange
      <3>2. Len(queue) \in Nat
        BY <1>4
      <3> QED BY <3>1, <3>2
    <2> QED BY <1>1, <2>1 DEF RemoveQueuedPlayer
  <1>7. r = [queue |-> r.queue, inQueue |-> r.inQueue, told |-> r.told, found |-> r.found]
    BY DEF RemoveQueuedPlayer
  <1> QED BY <1>4, <1>5, <1>6, <1>7 DEF QueueStateType

-----------------------------------------------------------------------------
(* The inductive invariant: the types, the absence of dangling pointers, and *)
(* that accounts are left to visit only during the walk over m_sessions, so  *)
(* that ~World does not pull the map from under it.                          *)
WalkOK == pending # {} => Updating

Inv == TypeOK /\ NoDanglingSession /\ WalkOK

(* The queue state of a reachable state has its type and distinct entries.   *)
LEMMA QueueStateOK ==
    ASSUME Inv
    PROVE  /\ QueueState \in QueueStateType
           /\ QueueState.queue = m_QueuedPlayer
           /\ Distinct(m_QueuedPlayer)
           /\ m_playerLimit \in Nat
  BY ConstantsAssumption
  DEF Inv, TypeOK, NoDanglingSession, QueueState, QueueStateType

(* The number of sessions in the world is a natural number.                  *)
LEMMA CountType ==
    ASSUME TypeOK
    PROVE  IsFiniteSet(InWorld) /\ GetActiveAndQueuedSessionCount \in Nat
  <1>1. InWorld \in SUBSET Accounts
    BY DEF InWorld
  <1> QED BY <1>1, ConstantsAssumption, FS_Subset, FS_CardinalityType
          DEF GetActiveAndQueuedSessionCount

(* AddQueuedPlayer appends one entry.                                        *)
LEMMA AddQueuedPlayerProperties ==
    ASSUME NEW st \in QueueStateType, NEW s \in Sessions,
           Distinct(st.queue), s \notin Entries(st.queue)
    PROVE  LET r == AddQueuedPlayer(st, s) IN
           /\ r \in QueueStateType
           /\ Distinct(r.queue)
           /\ Entries(r.queue) = Entries(st.queue) \cup {s}
           /\ Len(r.queue) = Len(st.queue) + 1
  <1>1. st.queue \in Seq(Sessions)
    BY DEF QueueStateType
  <1>2. /\ AddQueuedPlayer(st, s).queue = Append(st.queue, s)
        /\ AddQueuedPlayer(st, s) \in QueueStateType
    BY <1>1 DEF AddQueuedPlayer, QueueStateType
  <1> QED BY <1>1, <1>2, AppendEntries

(* What a step that installs session s for account a does to the queue       *)
LEMMA InstalledQueue ==
    ASSUME Inv, NEW s \in Sessions, s \notin WorldSessions, InstallSession(s)
    PROVE  /\ m_QueuedPlayer' \in Seq(Sessions)
           /\ m_inQueue' \in [Sessions -> BOOLEAN]
           /\ told' \in [Sessions -> Nat]
           /\ Distinct(m_QueuedPlayer')
           /\ Entries(m_QueuedPlayer') \subseteq
                (Entries(m_QueuedPlayer) \ {m_sessions[account[s]]}) \cup {s}
  <1> DEFINE old     == m_sessions[account[s]]
             before  == GetActiveAndQueuedSessionCount
             dropped == IF old # NoSession THEN Unqueue(before, old) ELSE QueueState
  <1>1. /\ dropped \in QueueStateType
        /\ Distinct(dropped.queue)
        /\ Entries(dropped.queue) \subseteq Entries(m_QueuedPlayer) \ {old}
    <2>1. CASE old # NoSession
      <3>1. before \in Int
        BY CountType DEF Inv
      <3>2. dropped = RemoveQueuedPlayer(QueueState, before, old)
        BY <2>1 DEF Unqueue
      <3> HIDE DEF dropped, before, old
      <3> QED BY <3>1, <3>2, QueueStateOK, RemoveQueuedPlayerProperties
    <2>2. CASE old = NoSession
      <3>1. NoSession \notin Entries(m_QueuedPlayer)
        BY ConstantsAssumption DEF Inv, TypeOK, Entries
      <3> QED BY <2>2, <3>1, QueueStateOK
    <2> QED BY <2>1, <2>2
  <1>2. s \notin Entries(dropped.queue)
    BY <1>1 DEF Inv, NoDanglingSession
  <1>3. \/ SetQueueState(dropped)
        \/ SetQueueState(AddQueuedPlayer(dropped, s))
    BY DEF InstallSession
  <1> HIDE DEF dropped
  <1>4. CASE SetQueueState(dropped)
    BY <1>1, <1>4 DEF SetQueueState, QueueStateType
  <1>5. CASE SetQueueState(AddQueuedPlayer(dropped, s))
    <2> DEFINE r == AddQueuedPlayer(dropped, s)
    <2>1. /\ r \in QueueStateType
          /\ Distinct(r.queue)
          /\ Entries(r.queue) = Entries(dropped.queue) \cup {s}
      BY <1>1, <1>2, AddQueuedPlayerProperties
    <2> HIDE DEF r
    <2>2. m_QueuedPlayer' = r.queue /\ m_inQueue' = r.inQueue /\ told' = r.told
      BY <1>5 DEF SetQueueState, r
    <2> QED BY <1>1, <2>1, <2>2 DEF QueueStateType
  <1> QED BY <1>3, <1>4, <1>5

(* AddSession_ keeps the invariant.                                          *)
LEMMA AddSession_Inv ==
    ASSUME Inv, AddSession_
    PROVE  Inv'
  <1> DEFINE s   == Head(addSessQueue)
             a   == account[s]
             old == m_sessions[a]
  <1>1. /\ addSessQueue \in Seq(Sessions) /\ addSessQueue # <<>> /\ Distinct(addSessQueue)
        /\ addSessQueue' = Tail(addSessQueue)
        /\ UNCHANGED <<phase, pending, logins, now>>
        /\ WalkOK'
    BY DEF Inv, TypeOK, NoDanglingSession, AddSession_, WalkOK, Updating
  <1>2. /\ s \in Sessions /\ s \in Entries(addSessQueue)
        /\ addSessQueue' \in Seq(Sessions) /\ Distinct(addSessQueue')
        /\ Entries(addSessQueue') = Entries(addSessQueue) \ {s}
    BY <1>1, TailOfQueue, TailEntries
  <1> HIDE DEF s
  <1>3. s \in alive /\ s \notin WorldSessions
    BY <1>2 DEF Inv, NoDanglingSession
  <1>4. a \in Accounts /\ old \in Sessions \cup {NoSession}
    BY <1>2 DEF Inv, TypeOK
  <1>5. CASE RefuseSession(s)
    <2>1. TypeOK'
      BY <1>1, <1>2, <1>5 DEF Inv, TypeOK, RefuseSession
    <2>2. InWorld' = InWorld /\ WorldSessions' = WorldSessions
      BY <1>5 DEF InWorld, WorldSessions, RefuseSession
    <2>3. NoDanglingSession'
      BY <1>1, <1>2, <1>3, <1>5, <2>2
      DEF Inv, NoDanglingSession, RefuseSession, WorldSessions
    <2> QED BY <1>1, <2>1, <2>3 DEF Inv
  <1>6. CASE InstallSession(s)
    <2>1. /\ m_sessions' = [m_sessions EXCEPT ![a] = s]
          /\ alive' = alive \ {old}
          /\ closed' = [x \in Sessions |-> x = old \/ closed[x]]
          /\ UNCHANGED <<account, loading, m_playerLimit, m_disconnects>>
      BY <1>6 DEF InstallSession
    <2>2. /\ m_QueuedPlayer' \in Seq(Sessions)
          /\ m_inQueue' \in [Sessions -> BOOLEAN]
          /\ told' \in [Sessions -> Nat]
          /\ Distinct(m_QueuedPlayer')
          /\ Entries(m_QueuedPlayer') \subseteq (Entries(m_QueuedPlayer) \ {old}) \cup {s}
      BY <1>2, <1>3, <1>6, InstalledQueue
    <2>3. pass' \in [Sessions -> {"queue", "skip", "recent", "expired"}]
      BY <1>2, <1>6 DEF InstallSession, Inv, TypeOK, Exemption
    <2>4. closed' \in [Sessions -> BOOLEAN]
      BY <2>1 DEF Inv, TypeOK
    <2>5. TypeOK'
      BY <1>1, <1>2, <1>4, <2>1, <2>2, <2>3, <2>4 DEF Inv, TypeOK
    <2>6. /\ InWorld' = InWorld \cup {a}
          /\ \A b \in InWorld' : m_sessions'[b] = IF b = a THEN s ELSE m_sessions[b]
      BY <1>2, <1>4, <2>1, ConstantsAssumption DEF Inv, TypeOK, InWorld
    <2>7. \A b \in InWorld : b # a => m_sessions[b] # old
      BY <1>4 DEF Inv, NoDanglingSession, InWorld
    <2>8. WorldSessions' = (WorldSessions \ {old}) \cup {s}
      BY <1>4, <2>6, <2>7 DEF WorldSessions, InWorld
    <2>9. \A b \in InWorld' : m_sessions'[b] \in alive' /\ account'[m_sessions'[b]] = b
      BY <1>3, <1>4, <2>1, <2>6, <2>7 DEF Inv, NoDanglingSession, WorldSessions, InWorld
    <2>10. Entries(addSessQueue') \subseteq alive' \ WorldSessions'
      <3>1. old \notin Entries(addSessQueue)
        BY <1>4, ConstantsAssumption
        DEF Inv, TypeOK, NoDanglingSession, WorldSessions, InWorld
      <3> QED BY <1>2, <2>1, <2>8, <3>1 DEF Inv, NoDanglingSession
    <2>11. Entries(m_QueuedPlayer') \subseteq WorldSessions'
      BY <2>2, <2>8 DEF Inv, NoDanglingSession
    <2>12. pending' \subseteq InWorld'
      BY <1>1, <2>6 DEF Inv, NoDanglingSession
    <2> QED BY <1>1, <1>2, <2>2, <2>5, <2>9, <2>10, <2>11, <2>12 DEF Inv, NoDanglingSession
  <1> QED BY <1>5, <1>6 DEF AddSession_, s

(* Deleting a session whose socket is closed keeps the invariant.            *)
LEMMA RemoveDeadSessionInv ==
    ASSUME Inv, NEW a \in Accounts, RemoveDeadSession(a)
    PROVE  Inv'
  <1> DEFINE s     == m_sessions[a]
             total == GetActiveAndQueuedSessionCount
             once  == RemoveQueuedPlayer(QueueState, total, s)
             twice == RemoveQueuedPlayer(once, total, s)
  <1>1. /\ pending' = pending \ {a} /\ a \in pending
        /\ SetQueueState(twice)
        /\ m_sessions' = [m_sessions EXCEPT ![a] = NoSession]
        /\ alive' = alive \ {s}
        /\ \/ m_disconnects' = m_disconnects
           \/ m_disconnects' = [m_disconnects EXCEPT ![a] = now]
        /\ UNCHANGED <<account, loading, closed, addSessQueue, m_playerLimit,
                       phase, logins, now, pass>>
        /\ WalkOK'
    BY DEF RemoveDeadSession, DisconnectTime, WalkOK, Updating
  <1>2. a \in InWorld /\ s \in Sessions
    BY <1>1 DEF Inv, NoDanglingSession, InWorld, TypeOK
  <1>3. /\ once \in QueueStateType
        /\ Distinct(once.queue)
        /\ Entries(once.queue) \subseteq Entries(m_QueuedPlayer) \ {s}
    BY QueueStateOK, CountType, RemoveQueuedPlayerProperties DEF Inv
  <1> HIDE DEF once
  <1>4. /\ twice \in QueueStateType
        /\ Distinct(twice.queue)
        /\ Entries(twice.queue) \subseteq Entries(once.queue) \ {s}
    BY <1>3, QueueStateOK, CountType, RemoveQueuedPlayerProperties DEF Inv
  <1> HIDE DEF twice
  <1>5. m_QueuedPlayer' = twice.queue /\ m_inQueue' = twice.inQueue /\ told' = twice.told
    BY <1>1 DEF SetQueueState
  <1>6. m_disconnects' \in [Accounts -> {Never} \cup 0..now']
    <2>1. now' = now /\ now \in 0..now
      BY <1>1 DEF Inv, TypeOK
    <2> QED BY <1>1, <2>1 DEF Inv, TypeOK
  <1>7. TypeOK'
    BY <1>1, <1>4, <1>5, <1>6 DEF Inv, TypeOK, QueueStateType
  <1>8. /\ InWorld' = InWorld \ {a}
        /\ \A b \in InWorld' : m_sessions'[b] = m_sessions[b]
    BY <1>1, <1>2 DEF Inv, TypeOK, InWorld
  <1>9. \A b \in InWorld : b # a => m_sessions[b] # s
    BY <1>2 DEF Inv, NoDanglingSession
  <1>10. WorldSessions' = WorldSessions \ {s}
    BY <1>2, <1>8, <1>9 DEF WorldSessions
  <1>11. s \in WorldSessions
    BY <1>2 DEF WorldSessions
  <1>12. Distinct(m_QueuedPlayer') /\ Entries(m_QueuedPlayer') \subseteq WorldSessions'
    BY <1>3, <1>4, <1>5, <1>10 DEF Inv, NoDanglingSession
  <1>13. \A b \in InWorld' : m_sessions'[b] \in alive' /\ account'[m_sessions'[b]] = b
    BY <1>1, <1>8, <1>9 DEF Inv, NoDanglingSession
  <1>14. Distinct(addSessQueue') /\ Entries(addSessQueue') \subseteq alive' \ WorldSessions'
    BY <1>1, <1>10, <1>11 DEF Inv, NoDanglingSession
  <1>15. pending' \subseteq InWorld'
    BY <1>1, <1>8 DEF Inv, NoDanglingSession
  <1> QED BY <1>1, <1>7, <1>12, <1>13, <1>14, <1>15 DEF Inv, NoDanglingSession

(* The steps that leave m_sessions, the queue and the heap alone             *)
LEMMA OtherStepsInv ==
    ASSUME Inv,
           \/ \E s \in Sessions : CloseSocket(s)
           \/ BeginUpdateSessions
           \/ BeginWalk
           \/ \E a \in Accounts : UpdateSession(a)
           \/ EndUpdateSessions
           \/ \E l \in Limits : SetPlayerAmountLimit(l)
           \/ Tick
           \/ UNCHANGED vars
    PROVE  Inv'
  <1>1. /\ UNCHANGED <<addSessQueue, m_sessions, m_QueuedPlayer, alive, account,
                       m_disconnects, m_inQueue, told, pass>>
        /\ pending' \in {pending, InWorld} \/ \E a \in Accounts : pending' = pending \ {a}
    BY DEF CloseSocket, BeginUpdateSessions, BeginWalk, SessionsToUpdate, UpdateSession,
           EndUpdateSessions, SetPlayerAmountLimit, Tick, vars, session, world
  <1>2. InWorld' = InWorld /\ WorldSessions' = WorldSessions
    BY <1>1 DEF InWorld, WorldSessions
  <1>3. NoDanglingSession'
    BY <1>1, <1>2 DEF Inv, NoDanglingSession
  <1>4. pending' \subseteq Accounts
    BY <1>1 DEF Inv, TypeOK, InWorld
  <1>5. loading' \in [Sessions -> BOOLEAN]
    <2>1. ASSUME NEW a \in Accounts, UpdateSession(a) PROVE loading' \in [Sessions -> BOOLEAN]
      BY <2>1 DEF UpdateSession, Inv, TypeOK, NoDanglingSession, InWorld
    <2> QED BY <2>1 DEF Inv, TypeOK, CloseSocket, BeginUpdateSessions, BeginWalk,
                EndUpdateSessions, SetPlayerAmountLimit, Tick, vars, session, world
  <1>6. closed' \in [Sessions -> BOOLEAN]
    BY DEF Inv, TypeOK, CloseSocket, BeginUpdateSessions, BeginWalk, UpdateSession,
           EndUpdateSessions, SetPlayerAmountLimit, Tick, vars, session, world
  <1>7. m_playerLimit' \in Limits /\ phase' \in Phases /\ logins' \in Nat
    BY DEF Inv, TypeOK, CloseSocket, BeginUpdateSessions, BeginWalk, UpdateSession,
           EndUpdateSessions, SetPlayerAmountLimit, Tick, vars, session, world, Phases
  <1>8. now' \in Nat /\ now' >= now
    BY DEF Inv, TypeOK, CloseSocket, BeginUpdateSessions, BeginWalk, UpdateSession,
           EndUpdateSessions, SetPlayerAmountLimit, Tick, vars, session, world
  <1>9. m_disconnects' \in [Accounts -> {Never} \cup 0..now']
    <2>1. 0..now \subseteq 0..now'
      BY <1>8 DEF Inv, TypeOK
    <2> QED BY <1>1, <2>1 DEF Inv, TypeOK
  <1>10. WalkOK'
    BY DEF Inv, TypeOK, CloseSocket, BeginUpdateSessions, BeginWalk, UpdateSession,
           EndUpdateSessions, SetPlayerAmountLimit, Tick, vars, session, world,
           WalkOK, Updating, Adding, Phases
  <1> QED BY <1>1, <1>3, <1>4, <1>5, <1>6, <1>7, <1>8, <1>9, <1>10 DEF Inv, TypeOK

(* Allocating a session and handing it over                                  *)
LEMMA AddSessionInv ==
    ASSUME Inv, NEW s \in Sessions, NEW a \in Accounts, AddSession(s, a)
    PROVE  Inv'
  <1>1. InWorld' = InWorld /\ WorldSessions' = WorldSessions
    BY DEF AddSession, InWorld, WorldSessions
  <1>2. s \notin Entries(addSessQueue) /\ s \notin WorldSessions
    BY DEF AddSession, Inv, NoDanglingSession, WorldSessions
  <1>3. /\ addSessQueue' \in Seq(Sessions)
        /\ Distinct(addSessQueue')
        /\ Entries(addSessQueue') = Entries(addSessQueue) \cup {s}
    BY <1>2, AppendEntries DEF AddSession, Inv, TypeOK, NoDanglingSession
  <1>4. TypeOK'
    BY <1>3 DEF AddSession, Inv, TypeOK
  <1>5. \A b \in InWorld' : m_sessions'[b] \in alive' /\ account'[m_sessions'[b]] = b
    BY <1>1, <1>2 DEF AddSession, Inv, TypeOK, NoDanglingSession, WorldSessions
  <1> QED BY <1>1, <1>2, <1>3, <1>4, <1>5
          DEF AddSession, Inv, NoDanglingSession, WalkOK, Updating

(* Shutdown: KickAll empties the queue, ~World the map.                      *)
LEMMA ShutdownInv ==
    ASSUME Inv, KickAll \/ DestroyWorld
    PROVE  Inv'
  <1>1. m_QueuedPlayer' = <<>> /\ Distinct(<<>>) /\ Entries(<<>>) = {}
    BY DEF KickAll, DestroyWorld, Distinct, Entries
  <1>2. CASE KickAll
    <2>1. TypeOK'
      BY <1>2 DEF KickAll, Inv, TypeOK, Phases
    <2>2. InWorld' = InWorld /\ WorldSessions' = WorldSessions
      BY <1>2 DEF KickAll, InWorld, WorldSessions
    <2> QED BY <1>1, <1>2, <2>1, <2>2
            DEF KickAll, Inv, NoDanglingSession, WalkOK, Updating
  <1>3. CASE DestroyWorld
    <2>1. TypeOK'
      BY <1>3 DEF DestroyWorld, Inv, TypeOK
    <2>2. InWorld' = {} /\ WorldSessions' = {}
      BY <1>3 DEF DestroyWorld, InWorld, WorldSessions
    <2>3. pending' = {}
      BY <1>3 DEF DestroyWorld, Inv, WalkOK, Updating
    <2> QED BY <1>1, <1>3, <2>1, <2>2, <2>3 DEF DestroyWorld, Inv, NoDanglingSession, WalkOK
  <1> QED BY <1>2, <1>3

(* The initial states satisfy the invariant.                                 *)
LEMMA InitInv == Init => Inv
  <1> SUFFICES ASSUME Init PROVE Inv
    OBVIOUS
  <1>1. (CHOOSE a \in Accounts : TRUE) \in Accounts
    BY ConstantsAssumption
  <1>2. TypeOK
    BY <1>1, ConstantsAssumption DEF Init, TypeOK, Phases
  <1>3. InWorld = {} /\ WorldSessions = {}
    BY DEF Init, InWorld, WorldSessions
  <1>4. Distinct(<<>>) /\ Entries(<<>>) = {}
    BY DEF Distinct, Entries
  <1> QED BY <1>2, <1>3, <1>4 DEF Init, Inv, NoDanglingSession, WalkOK

(* Every step keeps the invariant.                                           *)
LEMMA NextInv == Inv /\ [Next]_vars => Inv'
  BY AddSession_Inv, RemoveDeadSessionInv, OtherStepsInv, AddSessionInv, ShutdownInv
  DEF Next, Terminated

(* In every reachable state the variables have their types and no pointer    *)
(* to a deleted WorldSession is held by addSessQueue, m_sessions or          *)
(* m_QueuedPlayer, whatever the interleaving of logins, reconnections,       *)
(* disconnections, limit changes and shutdown.                               *)
THEOREM LoginQueueSafe == Spec => [](TypeOK /\ NoDanglingSession)
  <1>1. Init => Inv
    BY InitInv
  <1>2. Inv /\ [Next]_vars => Inv'
    BY NextInv
  <1>3. Inv => TypeOK /\ NoDanglingSession
    BY DEF Inv
  <1> QED BY <1>1, <1>2, <1>3, PTL DEF Spec

-----------------------------------------------------------------------------
(* No slot stays free while someone waits                                    *)

(* How many entries RemoveQueuedPlayer takes off the queue.                  *)
LEMMA RemoveQueuedPlayerLength ==
    ASSUME NEW st \in QueueStateType, NEW total \in Nat, NEW s,
           m_playerLimit \in Nat
    PROVE  LET r     == RemoveQueuedPlayer(st, total, s)
               n     == Len(st.queue)
               rest  == IF r.found THEN n - 1 ELSE n
               count == CountWithout(total - n, r.found)
           IN  /\ r.found <=> s \in Entries(st.queue)
               /\ Len(r.queue) = IF MayAdmit(count) /\ rest # 0 THEN rest - 1 ELSE rest
  <1> DEFINE q      == st.queue
             pos    == GetQueuePos(q, s)
             found  == pos # 0
             rest   == IF found THEN RemoveAt(q, pos) ELSE q
             popped == MayAdmit(CountWithout(total - Len(q), found)) /\ rest # <<>>
             queue  == IF popped THEN Tail(rest) ELSE rest
             r      == RemoveQueuedPlayer(st, total, s)
  <1>1. r.found = found /\ r.queue = queue
    BY DEF RemoveQueuedPlayer
  <1>2. q \in Seq(Sessions) /\ Len(q) \in Nat
    BY DEF QueueStateType
  <1> HIDE DEF q, r
  <1>3. pos \in 0..Len(q) /\ (found <=> s \in Entries(q))
    BY <1>2, QueuePosRange DEF Entries
  <1> HIDE DEF pos
  <1>4. rest \in Seq(Sessions) /\ Len(rest) = IF found THEN Len(q) - 1 ELSE Len(q)
    <2>1. CASE found
      <3>1. pos \in 1..Len(q)
        BY <1>2, <1>3, <2>1
      <3> QED BY <1>2, <2>1, <3>1, RemoveAtProperties
    <2>2. CASE ~found
      BY <1>2, <2>2
    <2> QED BY <2>1, <2>2
  <1> HIDE DEF rest
  <1>5. rest # <<>> <=> Len(rest) # 0
    BY <1>4, EmptySeq
  <1>6. Len(queue) = IF popped THEN Len(rest) - 1 ELSE Len(rest)
    BY <1>4, TailOfQueue
  <1> QED BY <1>1, <1>3, <1>4, <1>5, <1>6 DEF q, r

(* Installing a session, with the limit fixed                                *)
LEMMA InstallSessionWork ==
    ASSUME Inv, WorkConserving, AddSession_
    PROVE  WorkConserving'
  <1> DEFINE s   == Head(addSessQueue)
             a   == account[s]
             old == m_sessions[a]
             N   == Cardinality(InWorld)
             n   == Len(m_QueuedPlayer)
             dropped == IF old # NoSession THEN Unqueue(N, old) ELSE QueueState
             total   == IF old # NoSession THEN N ELSE N + 1
  <1>1. /\ s \in Sessions /\ s \in alive /\ s \notin WorldSessions
        /\ a \in Accounts /\ old \in Sessions \cup {NoSession}
    <2>1. addSessQueue \in Seq(Sessions) /\ addSessQueue # <<>> /\ Distinct(addSessQueue)
      BY DEF Inv, TypeOK, NoDanglingSession, AddSession_
    <2>2. s \in Sessions /\ s \in Entries(addSessQueue)
      BY <2>1, TailOfQueue, TailEntries
    <2> QED BY <2>2 DEF Inv, TypeOK, NoDanglingSession
  <1> HIDE DEF s
  <1>2. IsFiniteSet(InWorld) /\ N \in Nat /\ n \in Nat
    BY CountType DEF Inv, TypeOK, GetActiveAndQueuedSessionCount
  <1>3. n # 0 => m_playerLimit > 0 /\ N - n >= m_playerLimit
    BY DEF WorkConserving, GetActiveSessionCount, GetActiveAndQueuedSessionCount, Inv, TypeOK
  <1>4. CASE RefuseSession(s)
    BY <1>4 DEF RefuseSession, WorkConserving, GetActiveSessionCount,
                GetActiveAndQueuedSessionCount, InWorld
  <1>5. CASE InstallSession(s)
    <2>1. Cardinality(InWorld') = total
      <3>1. InWorld' = InWorld \cup {a}
        BY <1>1, <1>5, ConstantsAssumption DEF InstallSession, Inv, TypeOK, InWorld
      <3>2. a \in InWorld <=> old # NoSession
        BY <1>1 DEF InWorld
      <3> QED BY <1>2, <3>1, <3>2, FS_AddElement
    <2>2. /\ dropped \in QueueStateType
          /\ Distinct(dropped.queue)
          /\ s \notin Entries(dropped.queue)
      <3>1. QueueState \in QueueStateType /\ m_playerLimit \in Nat
            /\ Distinct(QueueState.queue) /\ QueueState.queue = m_QueuedPlayer
        BY QueueStateOK
      <3>2. s \notin Entries(m_QueuedPlayer)
        BY <1>1 DEF Inv, NoDanglingSession
      <3>3. CASE old # NoSession
        <4>1. dropped = RemoveQueuedPlayer(QueueState, N, old)
          BY <3>3 DEF Unqueue
        <4> HIDE DEF dropped, N, old
        <4> QED BY <1>2, <3>1, <3>2, <4>1, RemoveQueuedPlayerProperties
      <3>4. CASE old = NoSession
        BY <3>1, <3>2, <3>4
      <3> QED BY <3>3, <3>4
    <2>3. LET rest  == IF dropped.found THEN n - 1 ELSE n
              count == CountWithout(N - n, dropped.found)
          IN  /\ dropped.found => n # 0 /\ old # NoSession
              /\ Len(dropped.queue) =
                   IF old # NoSession /\ MayAdmit(count) /\ rest # 0 THEN rest - 1 ELSE rest
      <3>1. QueueState \in QueueStateType /\ m_playerLimit \in Nat
            /\ QueueState.queue = m_QueuedPlayer /\ QueueState.found = FALSE
        BY QueueStateOK DEF QueueState
      <3>2. Entries(m_QueuedPlayer) # {} => n # 0
        BY <1>2 DEF Entries
      <3>3. CASE old # NoSession
        <4>1. dropped = RemoveQueuedPlayer(QueueState, N, old)
          BY <3>3 DEF Unqueue
        <4> HIDE DEF dropped, N, old
        <4> QED BY <1>2, <3>1, <3>2, <3>3, <4>1, RemoveQueuedPlayerLength
      <3>4. CASE old = NoSession
        BY <3>1, <3>4
      <3> QED BY <3>3, <3>4
    <2>4. \/ /\ m_playerLimit > 0
             /\ (IF dropped.found THEN total ELSE total - 1) >= m_playerLimit
             /\ m_QueuedPlayer' = AddQueuedPlayer(dropped, s).queue
          \/ m_QueuedPlayer' = dropped.queue
      BY <1>5 DEF InstallSession, LimitReached, SetQueueState, GetActiveAndQueuedSessionCount
    <2>5. Len(AddQueuedPlayer(dropped, s).queue) = Len(dropped.queue) + 1
      BY <1>1, <2>2, AddQueuedPlayerProperties
    <2>6. m_QueuedPlayer' # <<>> => Len(m_QueuedPlayer') # 0
      BY AddSession_Inv, EmptySeq DEF Inv, TypeOK
    <2>7. m_playerLimit' = m_playerLimit /\ m_playerLimit \in Nat
      BY <1>5, QueueStateOK DEF InstallSession
    <2> HIDE DEF dropped, N, n, old
    <2>8. Len(m_QueuedPlayer') # 0 =>
             m_playerLimit > 0 /\ total - Len(m_QueuedPlayer') >= m_playerLimit
      <3> DEFINE f == dropped.found
                 d == Len(dropped.queue)
                 m == Len(m_QueuedPlayer')
      <3>1. f \in BOOLEAN
        BY <2>2 DEF QueueStateType
      <3>2. \/ m_playerLimit > 0 /\ m = d + 1
                /\ (IF f THEN total ELSE total - 1) >= m_playerLimit
            \/ m = d
        BY <2>4, <2>5
      <3>3. CASE f
        <4>1. n # 0 /\ d = n - 1 /\ total = N
          BY <1>2, <1>3, <2>3, <2>7, <3>3 DEF MayAdmit, CountWithout
        <4> QED BY <1>2, <1>3, <2>7, <3>2, <4>1
      <3>4. CASE ~f /\ old # NoSession
        <4>1. total = N
          BY <3>4
        <4>2. IF n # 0 /\ N - n - 1 < m_playerLimit THEN d = n - 1 ELSE d = n
          BY <1>2, <1>3, <2>3, <2>7, <3>4 DEF MayAdmit, CountWithout
        <4> QED BY <1>2, <1>3, <2>7, <3>2, <3>4, <4>1, <4>2
      <3>5. CASE ~f /\ old = NoSession
        <4>1. total = N + 1 /\ d = n
          BY <2>3, <3>5
        <4> QED BY <1>2, <1>3, <2>7, <3>2, <3>5, <4>1
      <3> QED BY <3>1, <3>3, <3>4, <3>5
    <2> QED BY <2>1, <2>6, <2>7, <2>8
            DEF WorkConserving, GetActiveSessionCount, GetActiveAndQueuedSessionCount
  <1> QED BY <1>4, <1>5 DEF AddSession_, s

(* Deleting a session, with the limit fixed                                  *)
LEMMA RemoveDeadSessionWork ==
    ASSUME Inv, WorkConserving, NEW a \in Accounts, RemoveDeadSession(a)
    PROVE  WorkConserving'
  <1> DEFINE s     == m_sessions[a]
             N     == Cardinality(InWorld)
             n     == Len(m_QueuedPlayer)
             once  == RemoveQueuedPlayer(QueueState, N, s)
             twice == RemoveQueuedPlayer(once, N, s)
  <1>1. /\ a \in pending
        /\ m_QueuedPlayer' = twice.queue
        /\ m_sessions' = [m_sessions EXCEPT ![a] = NoSession]
        /\ m_playerLimit' = m_playerLimit
    BY DEF RemoveDeadSession, SetQueueState, GetActiveAndQueuedSessionCount
  <1>2. IsFiniteSet(InWorld) /\ N \in Nat /\ n \in Nat
    BY CountType DEF Inv, TypeOK, GetActiveAndQueuedSessionCount
  <1>3. n # 0 => m_playerLimit > 0 /\ N - n >= m_playerLimit
    BY DEF WorkConserving, GetActiveSessionCount, GetActiveAndQueuedSessionCount, Inv, TypeOK
  <1>4. Cardinality(InWorld') = N - 1
    <2>1. a \in InWorld /\ InWorld' = InWorld \ {a}
      BY <1>1 DEF Inv, TypeOK, NoDanglingSession, InWorld
    <2> QED BY <1>2, <2>1, FS_RemoveElement
  <1>5. /\ QueueState \in QueueStateType /\ m_playerLimit \in Nat
        /\ Distinct(QueueState.queue) /\ QueueState.queue = m_QueuedPlayer
    BY QueueStateOK
  <1> HIDE DEF N, s
  <1>6. /\ once \in QueueStateType /\ Distinct(once.queue)
        /\ s \notin Entries(once.queue)
    BY <1>2, <1>5, RemoveQueuedPlayerProperties
  <1>7. LET rest  == IF once.found THEN n - 1 ELSE n
            count == CountWithout(N - n, once.found)
        IN  /\ once.found <=> s \in Entries(m_QueuedPlayer)
            /\ Len(once.queue) = IF MayAdmit(count) /\ rest # 0 THEN rest - 1 ELSE rest
    BY <1>2, <1>5, RemoveQueuedPlayerLength
  <1>8. once.found => n # 0
    BY <1>2, <1>7 DEF Entries
  <1> HIDE DEF once
  <1>9. LET k     == Len(once.queue)
            count == CountWithout(N - k, FALSE)
        IN  Len(twice.queue) = IF MayAdmit(count) /\ k # 0 THEN k - 1 ELSE k
    <2>1. ~twice.found
      BY <1>2, <1>5, <1>6, RemoveQueuedPlayerLength
    <2> QED BY <1>2, <1>5, <1>6, <2>1, RemoveQueuedPlayerLength DEF CountWithout
  <1>10. twice.queue # <<>> => Len(twice.queue) # 0
    BY <1>1, RemoveDeadSessionInv, EmptySeq DEF Inv, TypeOK
  <1> HIDE DEF twice, n
  <1>11. Len(twice.queue) # 0 =>
            m_playerLimit > 0 /\ (N - 1) - Len(twice.queue) >= m_playerLimit
    <2> DEFINE k == Len(once.queue)
    <2>1. once.found \in BOOLEAN
      BY <1>6 DEF QueueStateType
    <2>2. CASE once.found
      <3>1. k = n - 1 /\ n # 0
        BY <1>2, <1>3, <1>5, <1>7, <1>8, <2>2 DEF MayAdmit, CountWithout
      <3> QED BY <1>2, <1>3, <1>5, <1>9, <3>1 DEF MayAdmit, CountWithout
    <2>3. CASE ~once.found
      <3>1. IF n # 0 /\ N - n - 1 < m_playerLimit THEN k = n - 1 ELSE k = n
        BY <1>2, <1>3, <1>5, <1>7, <2>3 DEF MayAdmit, CountWithout
      <3> QED BY <1>2, <1>3, <1>5, <1>9, <3>1 DEF MayAdmit, CountWithout
    <2> QED BY <2>1, <2>2, <2>3
  <1> QED BY <1>1, <1>4, <1>10, <1>11
          DEF WorkConserving, GetActiveSessionCount, GetActiveAndQueuedSessionCount

(* With a player limit that is not changed at run time, nobody waits while   *)
(* fewer sessions are active than the limit allows: the two calls of         *)
(* RemoveQueuedPlayer in UpdateSessions and the one in AddSession_ together  *)
(* refill every slot that is given up.                                       *)
THEOREM NoIdleSlot ==
    ASSUME NEW L, Limits = {L}
    PROVE  Spec => []WorkConserving
  <1>1. Init => WorkConserving
    BY DEF Init, WorkConserving
  <1>2. ASSUME Inv, WorkConserving, [Next]_vars
        PROVE  WorkConserving'
    <2>1. CASE AddSession_
      BY <1>2, <2>1, InstallSessionWork
    <2>2. ASSUME NEW a \in Accounts, RemoveDeadSession(a) PROVE WorkConserving'
      BY <1>2, <2>2, RemoveDeadSessionWork
    <2>3. CASE KickAll \/ DestroyWorld
      BY <2>3 DEF KickAll, DestroyWorld, WorkConserving
    <2>4. ASSUME NEW l \in Limits, SetPlayerAmountLimit(l) PROVE FALSE
      BY <1>2, <2>4 DEF SetPlayerAmountLimit, Inv, TypeOK
    <2>5. ASSUME UNCHANGED <<m_sessions, m_QueuedPlayer, m_playerLimit>>
          PROVE  WorkConserving'
      BY <1>2, <2>5 DEF WorkConserving, GetActiveSessionCount,
                        GetActiveAndQueuedSessionCount, InWorld
    <2> QED BY <1>2, <2>1, <2>2, <2>3, <2>4, <2>5
            DEF Next, AddSession, CloseSocket, BeginUpdateSessions, BeginWalk, UpdateSession,
                EndUpdateSessions, Tick, Terminated, vars, session, world
  <1> QED BY <1>1, <1>2, InitInv, NextInv, PTL DEF Spec

-----------------------------------------------------------------------------
(* Flags, positions and order of the queue                                   *)

(* x waits in front of y.                                                    *)
Before(q, x, y) == \E i, j \in 1..Len(q) : i < j /\ q[i] = x /\ q[j] = y

(* The last position sent to each waiting client is its position.            *)
Accurate(q, sent) == \A i \in 1..Len(q) : sent[q[i]] = i

(* The entries of a queue without duplicates are found where they are.       *)
LEMMA QueuePosDistinct ==
    ASSUME NEW q \in Seq(Sessions), Distinct(q)
    PROVE  /\ \A i \in 1..Len(q) : GetQueuePos(q, q[i]) = i
           /\ \A x, y : Before(q, x, y) => GetQueuePos(q, x) < GetQueuePos(q, y)
           /\ \A x : GetQueuePos(q, x) # 0 <=> x \in Entries(q)
  <1>1. Len(q) \in Nat
    OBVIOUS
  <1>2. \A i \in 1..Len(q) : GetQueuePos(q, q[i]) = i
    <2> SUFFICES ASSUME NEW i \in 1..Len(q) PROVE GetQueuePos(q, q[i]) = i
      OBVIOUS
    <2> DEFINE p == GetQueuePos(q, q[i])
    <2>1. p \in 0..Len(q) /\ p # 0 /\ (p # 0 => q[p] = q[i])
      BY QueuePosRange
    <2> HIDE DEF p
    <2>2. p \in 1..Len(q) /\ q[p] = q[i]
      BY <1>1, <2>1
    <2> QED BY <2>2 DEF Distinct, p
  <1>3. \A x, y : Before(q, x, y) => GetQueuePos(q, x) < GetQueuePos(q, y)
    BY <1>2 DEF Before
  <1>4. \A x : GetQueuePos(q, x) # 0 <=> x \in Entries(q)
    BY QueuePosRange DEF Entries
  <1> QED BY <1>2, <1>3, <1>4

(* The queue without s                                                       *)
Rest(q, s) == IF GetQueuePos(q, s) # 0 THEN RemoveAt(q, GetQueuePos(q, s)) ELSE q

LEMMA RestProperties ==
    ASSUME NEW q \in Seq(Sessions), Distinct(q), NEW s
    PROVE  /\ Rest(q, s) \in Seq(Sessions) /\ Distinct(Rest(q, s))
           /\ Entries(Rest(q, s)) = Entries(q) \ {s}
           /\ \A x, y : Before(q, x, y) /\ x # s /\ y # s => Before(Rest(q, s), x, y)
           /\ \A i \in 1..Len(Rest(q, s)) :
                 i < GetQueuePos(q, s) \/ GetQueuePos(q, s) = 0 => Rest(q, s)[i] = q[i]
  <1> DEFINE p == GetQueuePos(q, s)
             n == Len(q)
             t == Rest(q, s)
  <1>1. n \in Nat /\ p \in 0..n /\ (p # 0 => q[p] = s) /\ (p # 0 <=> s \in Entries(q))
    BY QueuePosRange DEF Entries
  <1>2. CASE p = 0
    <2>1. t = q /\ Entries(q) = Entries(q) \ {s}
      BY <1>1, <1>2 DEF Rest
    <2> QED BY <2>1
  <1>3. CASE p # 0
    <2>1. p \in 1..n /\ t = RemoveAt(q, p)
      BY <1>1, <1>3 DEF Rest
    <2>2. /\ t \in Seq(Sessions) /\ Len(t) = n - 1
          /\ \A i \in 1..(n - 1) : t[i] = IF i < p THEN q[i] ELSE q[i + 1]
      BY <2>1, RemoveAtProperties
    <2>3. q[p] = s
      BY <1>1, <1>3
    <2> HIDE DEF p, n, t
    <2> DEFINE From(i) == IF i < p THEN i ELSE i + 1
               Into(k) == IF k < p THEN k ELSE k - 1
    <2>4. \A i \in 1..(n - 1) : From(i) \in 1..n /\ From(i) # p /\ t[i] = q[From(i)]
      BY <1>1, <2>1, <2>2
    <2>5. \A i, j \in 1..(n - 1) : From(i) = From(j) => i = j
      BY <1>1, <2>1
    <2>6. \A k \in 1..n : k # p => Into(k) \in 1..(n - 1) /\ t[Into(k)] = q[k]
      BY <1>1, <2>1, <2>2
    <2>7. \A k, l \in 1..n : k # p /\ l # p /\ k < l => Into(k) < Into(l)
      BY <1>1, <2>1
    <2> HIDE DEF From, Into
    <2>8. \A k \in 1..n : q[k] = s <=> k = p
      BY <2>1, <2>3 DEF Distinct, n
    <2>9. Distinct(t)
      BY <2>2, <2>4, <2>5 DEF Distinct, n
    <2>10. Entries(t) = Entries(q) \ {s}
      <3>1. Entries(t) \subseteq Entries(q) \ {s}
        BY <2>2, <2>4, <2>8 DEF Entries, n
      <3>2. Entries(q) \ {s} \subseteq Entries(t)
        BY <2>2, <2>6, <2>8 DEF Entries, n
      <3> QED BY <3>1, <3>2
    <2>11. \A x, y : Before(q, x, y) /\ x # s /\ y # s => Before(t, x, y)
      <3> SUFFICES ASSUME NEW x, NEW y, Before(q, x, y), x # s, y # s PROVE Before(t, x, y)
        OBVIOUS
      <3>1. PICK k \in 1..n, l \in 1..n : k < l /\ q[k] = x /\ q[l] = y
        BY DEF Before, n
      <3>2. k # p /\ l # p
        BY <2>3, <3>1
      <3> QED BY <2>2, <2>6, <2>7, <3>1, <3>2 DEF Before
    <2>12. \A i \in 1..Len(t) : i < p => t[i] = q[i]
      BY <2>2
    <2> QED BY <1>3, <2>2, <2>9, <2>10, <2>11, <2>12 DEF t, p
  <1> QED BY <1>2, <1>3

LEMMA TailBefore ==
    ASSUME NEW q \in Seq(Sessions), q # <<>>, NEW x, NEW y, Before(q, x, y), x # Head(q)
    PROVE  Before(Tail(q), x, y)
  <1> DEFINE n == Len(q)
  <1>1. /\ Head(q) = q[1] /\ n \in Nat \ {0} /\ Len(Tail(q)) = n - 1
        /\ \A i \in 1..(n - 1) : Tail(q)[i] = q[i + 1]
    BY TailOfQueue
  <1>2. PICK i \in 1..n, j \in 1..n : i < j /\ q[i] = x /\ q[j] = y
    BY DEF Before
  <1> HIDE DEF n
  <1>3. i # 1
    BY <1>1, <1>2
  <1>4. i - 1 \in 1..(n - 1) /\ j - 1 \in 1..(n - 1) /\ i - 1 < j - 1
        /\ (i - 1) + 1 = i /\ (j - 1) + 1 = j
    BY <1>1, <1>2, <1>3
  <1> QED BY <1>1, <1>2, <1>4 DEF Before

(* Does RemoveQueuedPlayer let the first of the others in?                   *)
Pops(st, total, s) ==
    /\ MayAdmit(CountWithout(total - Len(st.queue), s \in Entries(st.queue)))
    /\ Rest(st.queue, s) # <<>>

(* RemoveQueuedPlayer takes s off the queue and, if there is room, the first *)
(* of the others; those that stay keep their order and know their positions. *)
LEMMA RemovedShape ==
    ASSUME NEW st \in QueueStateType, NEW total \in Int, NEW s, Distinct(st.queue)
    PROVE  LET r    == RemoveQueuedPlayer(st, total, s)
               rest == Rest(st.queue, s)
               pops == Pops(st, total, s)
           IN  /\ r.queue = IF pops THEN Tail(rest) ELSE rest
               /\ r.found <=> s \in Entries(st.queue)
               /\ Entries(r.queue) = Entries(st.queue) \ ({s} \cup (IF pops THEN {Head(rest)} ELSE {}))
               /\ pops => Head(rest) \in Entries(st.queue) \ {s}
               /\ \A x \in Sessions :
                     r.inQueue[x] <=> ~(s \in Entries(st.queue) /\ x = s)
                                      /\ ~(pops /\ x = Head(rest)) /\ st.inQueue[x]
               /\ \A x, y : Before(st.queue, x, y) /\ x \in Entries(r.queue)
                                => Before(r.queue, x, y) \/ y = s
               /\ Accurate(st.queue, st.told) => Accurate(r.queue, r.told)
  <1> DEFINE q     == st.queue
             pos   == GetQueuePos(q, s)
             rest  == Rest(q, s)
             pops  == Pops(st, total, s)
             queue == IF pops THEN Tail(rest) ELSE rest
             first == FirstToUpdate(pops, pos, Len(queue) + 1)
             r     == RemoveQueuedPlayer(st, total, s)
             Left(x)   == (pos # 0 /\ x = s) \/ (pops /\ x = Head(rest))
             Resent(x) == \E i \in first..Len(queue) : queue[i] = x
  <1>1. q \in Seq(Sessions) /\ Len(q) \in Nat /\ Distinct(q) /\ st.told \in [Sessions -> Nat]
    BY DEF QueueStateType
  <1>2. /\ pos \in 0..Len(q) /\ (pos # 0 <=> s \in Entries(q))
    BY <1>1, QueuePosRange DEF Entries
  <1>3. /\ rest \in Seq(Sessions) /\ Distinct(rest) /\ Entries(rest) = Entries(q) \ {s}
        /\ \A x, y : Before(q, x, y) /\ x # s /\ y # s => Before(rest, x, y)
        /\ \A i \in 1..Len(rest) : i < pos \/ pos = 0 => rest[i] = q[i]
    BY <1>1, RestProperties
  <1>4. pops <=> MayAdmit(CountWithout(total - Len(q), pos # 0)) /\ rest # <<>>
    BY <1>2 DEF Pops
  <1>5. /\ r.queue = queue /\ (r.found <=> pos # 0)
        /\ \A x \in Sessions : r.inQueue[x] <=> ~Left(x) /\ st.inQueue[x]
        /\ r.told = [x \in Sessions |-> CASE Left(x)   -> 0
                                          [] Resent(x) -> GetQueuePos(queue, x)
                                          [] OTHER     -> st.told[x]]
    <2> DEFINE adm == MayAdmit(CountWithout(total - Len(q), pos # 0)) /\ rest # <<>>
    <2>1. /\ r.queue = IF adm THEN Tail(rest) ELSE rest
          /\ (r.found <=> pos # 0)
          /\ \A x \in Sessions : r.inQueue[x] <=>
                ~((pos # 0 /\ x = s) \/ (adm /\ x = Head(rest))) /\ st.inQueue[x]
      BY DEF RemoveQueuedPlayer, Rest, QueueStateType
    <2>2. r.told = LET qq == IF adm THEN Tail(rest) ELSE rest
                       ff == FirstToUpdate(adm, pos, Len(qq) + 1)
                   IN  [x \in Sessions |->
                          CASE (pos # 0 /\ x = s) \/ (adm /\ x = Head(rest)) -> 0
                            [] \E i \in ff..Len(qq) : qq[i] = x -> GetQueuePos(qq, x)
                            [] OTHER -> st.told[x]]
      BY DEF RemoveQueuedPlayer, Rest
    <2>3. adm = pops
      <3>1. adm \in BOOLEAN /\ pops \in BOOLEAN
        BY DEF Pops
      <3> QED BY <1>4, <3>1
    <2> HIDE DEF adm, r, q, pos, rest, pops
    <2> QED BY <2>1, <2>2, <2>3
  <1> HIDE DEF q, pos, rest, pops, r
  <1>6. /\ queue \in Seq(Sessions) /\ Distinct(queue)
        /\ Entries(queue) = Entries(rest) \ (IF pops THEN {Head(rest)} ELSE {})
        /\ pops => Head(rest) \in Entries(rest)
    <2>1. CASE pops
      BY <1>3, <1>4, <2>1, TailOfQueue, TailEntries
    <2>2. CASE ~pops
      BY <1>3, <2>2
    <2> QED BY <2>1, <2>2
  <1>7. \A x, y : Before(q, x, y) /\ x \in Entries(queue) => Before(queue, x, y) \/ y = s
    <2> SUFFICES ASSUME NEW x, NEW y, Before(q, x, y), x \in Entries(queue), y # s
                 PROVE  Before(queue, x, y)
      OBVIOUS
    <2>1. x # s /\ Before(rest, x, y)
      BY <1>3, <1>6
    <2>2. CASE pops
      BY <1>3, <1>4, <1>6, <2>1, <2>2, TailBefore
    <2>3. CASE ~pops
      BY <2>1, <2>3
    <2> QED BY <2>2, <2>3
  <1>8. ASSUME Accurate(q, st.told) PROVE Accurate(queue, r.told)
    <2> SUFFICES ASSUME NEW i \in 1..Len(queue) PROVE r.told[queue[i]] = i
      BY DEF Accurate
    <2> DEFINE x == queue[i]
    <2>1. Len(queue) \in Nat /\ x \in Sessions /\ x \in Entries(queue)
      BY <1>6 DEF Entries
    <2>2. ~Left(x)
      BY <1>3, <1>6, <2>1
    <2>3. GetQueuePos(queue, x) = i
      BY <1>6, QueuePosDistinct
    <2>4. Resent(x) \/ st.told[x] = i
      <3>1. CASE pops
        <4>1. first = 1
          BY <3>1 DEF FirstToUpdate
        <4> QED BY <4>1
      <3>2. CASE ~pops /\ pos # 0 /\ ~(i < pos)
        <4>1. first = pos /\ i \in first..Len(queue)
          BY <1>1, <1>2, <2>1, <3>2 DEF FirstToUpdate
        <4> QED BY <4>1
      <3>3. CASE ~pops /\ (pos = 0 \/ i < pos)
        <4>1. queue = rest /\ rest[i] = q[i] /\ i \in 1..Len(rest)
          BY <1>3, <3>3
        <4>2. i \in 1..Len(q)
          <5>1. CASE pos = 0
            <6>1. rest = q
              BY <5>1 DEF rest, Rest, pos
            <6> QED BY <4>1, <6>1
          <5>2. CASE pos # 0
            <6>1. i < pos
              BY <3>3, <5>2
            <6> QED BY <1>1, <1>2, <2>1, <6>1
          <5> QED BY <5>1, <5>2
        <4> QED BY <1>8, <4>1, <4>2 DEF Accurate
      <3> QED BY <3>1, <3>2, <3>3
    <2> HIDE DEF x, queue, first
    <2> QED BY <1>5, <2>1, <2>2, <2>3, <2>4 DEF x
  <1>9. s \in Entries(q) <=> pos # 0
    BY <1>2
  <1>10. Entries(queue) = Entries(q) \ ({s} \cup (IF pops THEN {Head(rest)} ELSE {}))
         /\ (pops => Head(rest) \in Entries(q) \ {s})
    BY <1>3, <1>6
  <1> HIDE DEF queue
  <1>11. \A x \in Sessions :
                     r.inQueue[x] <=> ~(s \in Entries(q) /\ x = s)
                                      /\ ~(pops /\ x = Head(rest)) /\ st.inQueue[x]
    BY <1>5, <1>9
  <1> QED BY <1>5, <1>7, <1>8, <1>9, <1>10, <1>11 DEF q, pos, rest, pops, r, queue

(* The state d after s, and perhaps others, have been taken off the queue of *)
(* st: those taken lose m_inQueue, those left keep their order, and keep     *)
(* knowing their positions.                                                  *)
Removed(st, d, s) ==
    /\ d \in QueueStateType
    /\ Distinct(d.queue)
    /\ Entries(d.queue) \subseteq Entries(st.queue) \ {s}
    /\ \A x \in Sessions :
          d.inQueue[x] <=> st.inQueue[x] /\ x \notin Entries(st.queue) \ Entries(d.queue)
    /\ \A x, y : Before(st.queue, x, y) /\ x \in Entries(d.queue)
                    => Before(d.queue, x, y) \/ y = s
    /\ Accurate(st.queue, st.told) => Accurate(d.queue, d.told)

(* One call of RemoveQueuedPlayer, and two in a row                          *)
LEMMA RemovedOnce ==
    ASSUME NEW st \in QueueStateType, NEW total \in Int, NEW s,
           m_playerLimit \in Nat, Distinct(st.queue)
    PROVE  Removed(st, RemoveQueuedPlayer(st, total, s), s)
  <1> DEFINE r    == RemoveQueuedPlayer(st, total, s)
             rest == Rest(st.queue, s)
             pops == Pops(st, total, s)
  <1>1. r \in QueueStateType /\ Distinct(r.queue)
    BY RemoveQueuedPlayerProperties
  <1>2. /\ Entries(r.queue) = Entries(st.queue) \ ({s} \cup (IF pops THEN {Head(rest)} ELSE {}))
        /\ pops => Head(rest) \in Entries(st.queue) \ {s}
        /\ \A x \in Sessions :
              r.inQueue[x] <=> ~(s \in Entries(st.queue) /\ x = s)
                               /\ ~(pops /\ x = Head(rest)) /\ st.inQueue[x]
        /\ \A x, y : Before(st.queue, x, y) /\ x \in Entries(r.queue)
                         => Before(r.queue, x, y) \/ y = s
        /\ Accurate(st.queue, st.told) => Accurate(r.queue, r.told)
    BY RemovedShape
  <1> HIDE DEF r, rest, pops
  <1>3. \A x \in Sessions :
          r.inQueue[x] <=> st.inQueue[x] /\ x \notin Entries(st.queue) \ Entries(r.queue)
    BY <1>2
  <1>4. Entries(r.queue) \subseteq Entries(st.queue) \ {s}
    BY <1>2
  <1> QED BY <1>1, <1>2, <1>3, <1>4 DEF Removed, r

LEMMA RemovedTwice ==
    ASSUME NEW st, NEW d, NEW e, NEW s, Removed(st, d, s), Removed(d, e, s)
    PROVE  Removed(st, e, s)
  <1>1. Entries(e.queue) \subseteq Entries(d.queue) /\ Entries(d.queue) \subseteq Entries(st.queue)
    BY DEF Removed
  <1>2. \A x \in Sessions :
          e.inQueue[x] <=> st.inQueue[x] /\ x \notin Entries(st.queue) \ Entries(e.queue)
    BY <1>1 DEF Removed
  <1>3. \A x, y : Before(st.queue, x, y) /\ x \in Entries(e.queue)
                    => Before(e.queue, x, y) \/ y = s
    BY <1>1 DEF Removed
  <1>4. Accurate(st.queue, st.told) => Accurate(e.queue, e.told)
    BY DEF Removed
  <1> QED BY <1>1, <1>2, <1>3, <1>4 DEF Removed

(* What AddSession_ does to the queue, the flags and the positions sent when *)
(* it installs s: the session it replaces is taken off, s may be appended.   *)
LEMMA InstalledShape ==
    ASSUME Inv, NEW s \in Sessions, s \notin WorldSessions, InstallSession(s)
    PROVE  \E d : /\ Removed(QueueState, d, m_sessions[account[s]])
                  /\ SetQueueState(d) \/ SetQueueState(AddQueuedPlayer(d, s))
  <1> DEFINE old     == m_sessions[account[s]]
             before  == GetActiveAndQueuedSessionCount
             dropped == IF old # NoSession THEN Unqueue(before, old) ELSE QueueState
  <1>1. Removed(QueueState, dropped, old)
    <2>1. CASE old # NoSession
      <3>1. before \in Int
        BY CountType DEF Inv
      <3>2. dropped = RemoveQueuedPlayer(QueueState, before, old)
        BY <2>1 DEF Unqueue
      <3> HIDE DEF dropped, before, old
      <3> QED BY <3>1, <3>2, QueueStateOK, RemovedOnce
    <2>2. CASE old = NoSession
      <3>1. NoSession \notin Entries(m_QueuedPlayer)
        BY ConstantsAssumption DEF Inv, TypeOK, Entries
      <3> QED BY <2>2, <3>1, QueueStateOK DEF Removed
    <2> QED BY <2>1, <2>2
  <1>2. SetQueueState(dropped) \/ SetQueueState(AddQueuedPlayer(dropped, s))
    BY DEF InstallSession
  <1> QED BY <1>1, <1>2

LEMMA DeadShape ==
    ASSUME Inv, NEW a \in Accounts, RemoveDeadSession(a)
    PROVE  \E d : Removed(QueueState, d, m_sessions[a]) /\ SetQueueState(d)
  <1> DEFINE s     == m_sessions[a]
             total == GetActiveAndQueuedSessionCount
             once  == RemoveQueuedPlayer(QueueState, total, s)
             twice == RemoveQueuedPlayer(once, total, s)
  <1>1. SetQueueState(twice)
    BY DEF RemoveDeadSession
  <1>2. total \in Int
    BY CountType DEF Inv
  <1> HIDE DEF total, s
  <1>3. Removed(QueueState, once, s)
    BY <1>2, QueueStateOK, RemovedOnce
  <1>4. once \in QueueStateType /\ Distinct(once.queue)
    BY <1>3 DEF Removed
  <1> HIDE DEF once
  <1>5. Removed(once, twice, s)
    BY <1>2, <1>4, QueueStateOK, RemovedOnce
  <1>6. Removed(QueueState, twice, s)
    BY <1>3, <1>5, RemovedTwice
  <1> QED BY <1>1, <1>6 DEF s

(* The session AddSession_ takes from addSessQueue                           *)
LEMMA NextNewSession ==
    ASSUME Inv, AddSession_
    PROVE  \E s \in Sessions :
              /\ s = Head(addSessQueue) /\ s \in Entries(addSessQueue)
              /\ s \in alive /\ s \notin WorldSessions /\ s \notin Entries(m_QueuedPlayer)
              /\ Entries(addSessQueue') = Entries(addSessQueue) \ {s}
              /\ RefuseSession(s) \/ InstallSession(s)
  <1> DEFINE s == Head(addSessQueue)
  <1>1. addSessQueue \in Seq(Sessions) /\ addSessQueue # <<>> /\ Distinct(addSessQueue)
    BY DEF Inv, TypeOK, NoDanglingSession, AddSession_
  <1>2. /\ s \in Sessions /\ s \in Entries(addSessQueue)
        /\ Entries(addSessQueue') = Entries(addSessQueue) \ {s}
    BY <1>1, TailOfQueue, TailEntries DEF AddSession_
  <1>3. RefuseSession(s) \/ InstallSession(s)
    BY DEF AddSession_
  <1> HIDE DEF s
  <1>4. s \in alive /\ s \notin WorldSessions /\ s \notin Entries(m_QueuedPlayer)
    BY <1>2 DEF Inv, NoDanglingSession
  <1> QED BY <1>2, <1>3, <1>4 DEF s

(* A client appended to the queue is told the right position and flagged,    *)
(* and stands behind everyone.                                               *)
LEMMA AppendedShape ==
    ASSUME NEW d \in QueueStateType, Distinct(d.queue),
           NEW s \in Sessions, s \notin Entries(d.queue)
    PROVE  LET r == AddQueuedPlayer(d, s)
           IN  /\ Accurate(d.queue, d.told) => Accurate(r.queue, r.told)
               /\ \A x \in Sessions : r.inQueue[x] <=> x = s \/ d.inQueue[x]
               /\ \A x, y : Before(d.queue, x, y) => Before(r.queue, x, y)
               /\ \A x \in Entries(d.queue) : Before(r.queue, x, s)
  <1> DEFINE q == d.queue
             n == Len(q)
             u == Append(q, s)
             t == [d.told EXCEPT ![s] = n + 1]
             r == AddQueuedPlayer(d, s)
  <1>1. /\ q \in Seq(Sessions) /\ n \in Nat /\ d.told \in [Sessions -> Nat]
        /\ d.inQueue \in [Sessions -> BOOLEAN]
    BY DEF QueueStateType
  <1>2. r.queue = u /\ r.told = t /\ r.inQueue = [d.inQueue EXCEPT ![s] = TRUE]
    BY DEF AddQueuedPlayer
  <1>3. /\ Len(u) = n + 1 /\ u[n + 1] = s
        /\ \A i \in 1..n : u[i] = q[i] /\ q[i] \in Sessions /\ q[i] # s
    BY <1>1, AppendProperties DEF Entries
  <1>4. Accurate(q, d.told) => Accurate(u, t)
    <2> SUFFICES ASSUME Accurate(q, d.told), NEW i \in 1..(n + 1) PROVE t[u[i]] = i
      BY <1>3 DEF Accurate
    <2> HIDE DEF u, q, n
    <2>1. CASE i = n + 1
      BY <1>1, <1>3, <2>1
    <2>2. CASE i \in 1..n
      <3>1. d.told[q[i]] = i
        BY <2>2 DEF Accurate, n
      <3> QED BY <1>1, <1>3, <2>2, <3>1
    <2> QED BY <1>1, <2>1, <2>2
  <1>5. \A x \in Sessions : r.inQueue[x] <=> x = s \/ d.inQueue[x]
    BY <1>1, <1>2
  <1> HIDE DEF u, q, n
  <1>6. \A x, y : Before(q, x, y) => Before(u, x, y)
    <2> SUFFICES ASSUME NEW x, NEW y, Before(q, x, y) PROVE Before(u, x, y)
      OBVIOUS
    <2>1. PICK i \in 1..n, j \in 1..n : i < j /\ q[i] = x /\ q[j] = y
      BY DEF Before, n
    <2>2. i \in 1..(n + 1) /\ j \in 1..(n + 1)
      BY <1>1, <2>1
    <2> QED BY <1>3, <2>1, <2>2 DEF Before
  <1>7. ASSUME NEW x \in Entries(q) PROVE Before(u, x, s)
    <2>1. PICK i \in 1..n : q[i] = x
      BY DEF Entries, n
    <2>2. i \in 1..(n + 1) /\ n + 1 \in 1..(n + 1) /\ i < n + 1
      BY <1>1, <2>1
    <2> QED BY <1>3, <2>1, <2>2 DEF Before
  <1> HIDE DEF r, t
  <1>8. \A x \in Entries(q) : Before(u, x, s)
    BY <1>7
  <1> QED BY <1>2, <1>4, <1>5, <1>6, <1>8 DEF q, u, r

(* Steps that leave the queue and the positions of those in it alone, or     *)
(* empty the queue                                                           *)
LEMMA QuietSteps ==
    ASSUME Inv, [Next]_vars, ~AddSession_, \A a \in Accounts : ~RemoveDeadSession(a)
    PROVE  \/ m_QueuedPlayer' = <<>>
           \/ /\ m_QueuedPlayer' = m_QueuedPlayer
              /\ \A x \in Entries(m_QueuedPlayer) : told'[x] = told[x]
  <1>1. ASSUME NEW s \in Sessions, NEW a \in Accounts, AddSession(s, a)
        PROVE  /\ m_QueuedPlayer' = m_QueuedPlayer
               /\ \A x \in Entries(m_QueuedPlayer) : told'[x] = told[x]
    <2>1. s \notin Entries(m_QueuedPlayer)
      BY <1>1 DEF AddSession, Inv, NoDanglingSession, WorldSessions
    <2> QED BY <1>1, <2>1 DEF AddSession, Inv, TypeOK
  <1>2. CASE KickAll \/ DestroyWorld
    BY <1>2 DEF KickAll, DestroyWorld
  <1>3. CASE UNCHANGED <<m_QueuedPlayer, told>>
    BY <1>3
  <1> QED BY <1>1, <1>2, <1>3
          DEF Next, CloseSocket, BeginUpdateSessions, BeginWalk, UpdateSession,
              EndUpdateSessions, SetPlayerAmountLimit, Tick, Terminated, vars, session, world

(* Whatever leaves, is replaced or is accepted, the last position sent to a  *)
(* waiting client is its position in the queue (RemoveQueuedPlayer sends the *)
(* new positions from the right place on, AddQueuedPlayer the right number). *)
THEOREM PositionsTold == Spec => []PositionsAccurate
  <1> DEFINE A == Accurate(m_QueuedPlayer, told)
  <1>1. Init => A
    BY DEF Init, Accurate
  <1>2. ASSUME Inv, A, [Next]_vars PROVE A'
    <2>0. Accurate(QueueState.queue, QueueState.told)
      BY <1>2 DEF QueueState
    <2>1. CASE AddSession_
      <3>1. PICK s \in Sessions :
              /\ s \notin WorldSessions /\ s \notin Entries(m_QueuedPlayer)
              /\ RefuseSession(s) \/ InstallSession(s)
        BY <1>2, <2>1, NextNewSession
      <3>2. CASE RefuseSession(s)
        BY <1>2, <3>2 DEF RefuseSession
      <3>3. CASE InstallSession(s)
        <4>1. PICK d : /\ Removed(QueueState, d, m_sessions[account[s]])
                       /\ SetQueueState(d) \/ SetQueueState(AddQueuedPlayer(d, s))
          BY <1>2, <3>1, <3>3, InstalledShape
        <4>2. /\ d \in QueueStateType /\ Distinct(d.queue)
              /\ Accurate(d.queue, d.told) /\ s \notin Entries(d.queue)
          BY <2>0, <3>1, <4>1 DEF Removed, QueueState
        <4>3. Accurate(AddQueuedPlayer(d, s).queue, AddQueuedPlayer(d, s).told)
          BY <4>2, AppendedShape
        <4> QED BY <4>1, <4>2, <4>3 DEF SetQueueState
      <3> QED BY <3>1, <3>2, <3>3
    <2>2. ASSUME NEW a \in Accounts, RemoveDeadSession(a) PROVE A'
      <3>1. PICK d : Removed(QueueState, d, m_sessions[a]) /\ SetQueueState(d)
        BY <1>2, <2>2, DeadShape
      <3> QED BY <2>0, <3>1 DEF Removed, SetQueueState
    <2>3. CASE ~AddSession_ /\ \A a \in Accounts : ~RemoveDeadSession(a)
      <3>1. \/ m_QueuedPlayer' = <<>>
            \/ /\ m_QueuedPlayer' = m_QueuedPlayer
               /\ \A x \in Entries(m_QueuedPlayer) : told'[x] = told[x]
        BY <1>2, <2>3, QuietSteps
      <3> QED BY <1>2, <3>1 DEF Accurate, Entries
    <2> QED BY <2>1, <2>2, <2>3
  <1>3. Inv /\ A => PositionsAccurate
    BY DEF Inv, TypeOK, Accurate, PositionsAccurate
  <1> QED BY <1>1, <1>2, <1>3, InitInv, NextInv, PTL DEF Spec

-----------------------------------------------------------------------------
(* The flag m_inQueue.  A session still in addSessQueue must have it clear,  *)
(* for AddSession_ sets it only when it queues the session.                  *)
FlagsOK ==
    /\ QueueFlag
    /\ \A s \in Entries(addSessQueue) : ~m_inQueue[s]

(* Everyone in the world but the session just handled: taking others off the *)
(* queue, deleting one and closing sockets keep the flag right.              *)
LEMMA OthersFlagged ==
    ASSUME Inv, QueueFlag, NEW gone, NEW d, Removed(QueueState, d, gone),
           NEW x \in Sessions, x \in WorldSessions, x # gone
    PROVE  /\ x \in Entries(d.queue) => d.inQueue[x]
           /\ d.inQueue[x] => x \in Entries(d.queue) \/ (Stopping /\ closed[x])
  <1>1. /\ x \in Entries(m_QueuedPlayer) => m_inQueue[x]
        /\ m_inQueue[x] => x \in Entries(m_QueuedPlayer) \/ (Stopping /\ closed[x])
    BY DEF QueueFlag, WorldSessions, Queued
  <1>2. /\ Entries(d.queue) \subseteq Entries(m_QueuedPlayer)
        /\ d.inQueue[x] <=> m_inQueue[x] /\ x \notin Entries(m_QueuedPlayer) \ Entries(d.queue)
    BY DEF Removed, QueueState
  <1> QED BY <1>1, <1>2

LEMMA FlagsStep ==
    ASSUME Inv, FlagsOK, [Next]_vars
    PROVE  FlagsOK'
  <1>0. QueueState.inQueue = m_inQueue /\ QueueState.queue = m_QueuedPlayer
    BY DEF QueueState
  <1>1. CASE AddSession_
    <2>1. PICK s \in Sessions :
              /\ s \in Entries(addSessQueue) /\ s \in alive
              /\ s \notin WorldSessions /\ s \notin Entries(m_QueuedPlayer)
              /\ Entries(addSessQueue') = Entries(addSessQueue) \ {s}
              /\ RefuseSession(s) \/ InstallSession(s)
      BY <1>1, NextNewSession
    <2>2. phase' = phase
      BY <1>1 DEF AddSession_
    <2>3. CASE RefuseSession(s)
      <3>1. InWorld' = InWorld /\ UNCHANGED <<m_sessions, m_QueuedPlayer, m_inQueue>>
        BY <2>3 DEF RefuseSession, InWorld
      <3>2. \A x \in Sessions : closed[x] => closed'[x]
        BY <2>3 DEF RefuseSession, Inv, TypeOK
      <3>3. \A b \in InWorld : m_sessions[b] \in Sessions
        BY DEF Inv, TypeOK, InWorld
      <3> QED BY <2>1, <2>2, <3>1, <3>2, <3>3 DEF FlagsOK, QueueFlag, Queued, Stopping
    <2>4. CASE InstallSession(s)
      <3> DEFINE a   == account[s]
                 old == m_sessions[a]
      <3>1. /\ m_sessions' = [m_sessions EXCEPT ![a] = s]
            /\ closed' = [x \in Sessions |-> x = old \/ closed[x]]
            /\ a \in Accounts
        BY <2>4 DEF InstallSession, Inv, TypeOK
      <3>2. PICK d : /\ Removed(QueueState, d, old)
                     /\ SetQueueState(d) \/ SetQueueState(AddQueuedPlayer(d, s))
        BY <2>1, <2>4, InstalledShape
      <3>3. \A b \in InWorld' : /\ b # a => b \in InWorld /\ m_sessions'[b] = m_sessions[b]
                                /\ b = a => m_sessions'[b] = s
        BY <3>1 DEF InWorld, Inv, TypeOK
      <3>4. \A b \in InWorld : b # a => /\ m_sessions[b] # old /\ m_sessions[b] \in WorldSessions
                                        /\ m_sessions[b] \in Sessions /\ m_sessions[b] # s
        BY <2>1, <3>1 DEF Inv, TypeOK, NoDanglingSession, InWorld, WorldSessions
      <3>5. /\ d \in QueueStateType /\ Distinct(d.queue) /\ s \notin Entries(d.queue)
            /\ \A x \in Sessions : x \notin Entries(m_QueuedPlayer) =>
                                     (d.inQueue[x] <=> m_inQueue[x])
        BY <1>0, <2>1, <3>2 DEF Removed
      <3>6. /\ \A x \in Sessions : AddQueuedPlayer(d, s).inQueue[x] <=> x = s \/ d.inQueue[x]
            /\ Entries(AddQueuedPlayer(d, s).queue) = Entries(d.queue) \cup {s}
        BY <3>5, AppendedShape, AddQueuedPlayerProperties
      <3>7. /\ \A x \in Sessions : x # s => (m_inQueue'[x] <=> d.inQueue[x])
            /\ \A x : x # s => (x \in Entries(m_QueuedPlayer') <=> x \in Entries(d.queue))
            /\ m_inQueue'[s] => d.inQueue[s] \/ s \in Entries(m_QueuedPlayer')
            /\ s \in Entries(m_QueuedPlayer') => m_inQueue'[s]
        BY <3>2, <3>5, <3>6 DEF SetQueueState
      <3>8. ~m_inQueue[s] /\ ~d.inQueue[s]
        BY <2>1, <3>5 DEF FlagsOK
      <3>9. ASSUME NEW x \in Entries(addSessQueue') PROVE ~m_inQueue'[x]
        <4>1. x # s /\ ~m_inQueue[x] /\ x \in Sessions /\ x \notin Entries(m_QueuedPlayer)
          BY <2>1 DEF FlagsOK, Inv, TypeOK, NoDanglingSession
        <4> QED BY <3>5, <3>7, <4>1
      <3>10. ASSUME NEW b \in InWorld'
             PROVE  /\ m_sessions'[b] \in Entries(m_QueuedPlayer') => m_inQueue'[m_sessions'[b]]
                    /\ m_inQueue'[m_sessions'[b]] =>
                          \/ m_sessions'[b] \in Entries(m_QueuedPlayer')
                          \/ Stopping' /\ closed'[m_sessions'[b]]
        <4>1. CASE b = a
          BY <3>3, <3>7, <3>8, <4>1
        <4>2. CASE b # a
          <5> DEFINE x == m_sessions[b]
          <5>1. m_sessions'[b] = x /\ x \in Sessions /\ x \in WorldSessions /\ x # old /\ x # s
            BY <3>3, <3>4, <4>2
          <5> HIDE DEF x, old
          <5>2. /\ x \in Entries(d.queue) => d.inQueue[x]
                /\ d.inQueue[x] => x \in Entries(d.queue) \/ (Stopping /\ closed[x])
            BY <3>2, <5>1, OthersFlagged DEF FlagsOK
          <5>3. Stopping /\ closed[x] => Stopping' /\ closed'[x]
            BY <2>2, <3>1, <5>1 DEF Stopping
          <5> QED BY <3>7, <5>1, <5>2, <5>3
        <4> QED BY <4>1, <4>2
      <3> QED BY <3>9, <3>10 DEF FlagsOK, QueueFlag, Queued
    <2> QED BY <2>1, <2>3, <2>4
  <1>2. ASSUME NEW a \in Accounts, RemoveDeadSession(a) PROVE FlagsOK'
    <2> DEFINE s == m_sessions[a]
    <2>1. /\ m_sessions' = [m_sessions EXCEPT ![a] = NoSession]
          /\ UNCHANGED <<closed, addSessQueue, phase>>
      BY <1>2 DEF RemoveDeadSession
    <2>2. PICK d : Removed(QueueState, d, s) /\ SetQueueState(d)
      BY <1>2, DeadShape
    <2>3. \A b \in InWorld' : /\ b # a /\ b \in InWorld /\ m_sessions'[b] = m_sessions[b]
                              /\ m_sessions[b] \in Sessions /\ m_sessions[b] \in WorldSessions
      BY <2>1 DEF Inv, TypeOK, InWorld, WorldSessions
    <2>4. \A b \in InWorld' : m_sessions[b] # s
      BY <2>3 DEF Inv, NoDanglingSession, InWorld
    <2>5. ASSUME NEW x \in Entries(addSessQueue') PROVE ~m_inQueue'[x]
      <3>1. ~m_inQueue[x] /\ x \in Sessions
        BY <2>1 DEF FlagsOK, Inv, TypeOK, NoDanglingSession
      <3> QED BY <1>0, <2>2, <3>1 DEF Removed, SetQueueState
    <2> HIDE DEF s
    <2>6. ASSUME NEW b \in InWorld'
          PROVE  LET x == m_sessions[b]
                 IN  /\ x \in Entries(d.queue) => d.inQueue[x]
                     /\ d.inQueue[x] => x \in Entries(d.queue) \/ (Stopping /\ closed[x])
      BY <2>2, <2>3, <2>4, OthersFlagged DEF FlagsOK
    <2> QED BY <2>1, <2>2, <2>3, <2>5, <2>6
            DEF FlagsOK, QueueFlag, Queued, Stopping, SetQueueState
  <1>3. ASSUME NEW s \in Sessions, NEW a \in Accounts, AddSession(s, a) PROVE FlagsOK'
    <2>1. /\ UNCHANGED <<m_sessions, m_QueuedPlayer, phase>> /\ InWorld' = InWorld
          /\ \A x \in Sessions : x # s => m_inQueue'[x] = m_inQueue[x] /\ closed'[x] = closed[x]
          /\ ~m_inQueue'[s]
      BY <1>3 DEF AddSession, Inv, TypeOK, InWorld
    <2>2. \A b \in InWorld : m_sessions[b] # s /\ m_sessions[b] \in Sessions
      BY <1>3 DEF AddSession, Inv, TypeOK, NoDanglingSession, InWorld
    <2>3. /\ Entries(addSessQueue') = Entries(addSessQueue) \cup {s}
          /\ Entries(addSessQueue) \subseteq Sessions
      <3>1. s \notin Entries(addSessQueue)
        BY <1>3 DEF AddSession, Inv, NoDanglingSession
      <3>2. Entries(addSessQueue) \subseteq Sessions
        BY DEF Inv, TypeOK, NoDanglingSession
      <3> QED BY <1>3, <3>1, <3>2, AppendEntries DEF AddSession, Inv, TypeOK, NoDanglingSession
    <2>4. \A x \in Entries(addSessQueue') : ~m_inQueue'[x]
      BY <2>1, <2>3 DEF FlagsOK
    <2> QED BY <2>1, <2>2, <2>4 DEF FlagsOK, QueueFlag, Queued, Stopping
  <1>4. CASE KickAll
    <2>1. \A b \in InWorld : m_sessions[b] \in Sessions /\ m_sessions[b] \in WorldSessions
      BY DEF Inv, TypeOK, InWorld, WorldSessions
    <2>2. /\ InWorld' = InWorld /\ m_QueuedPlayer' = <<>> /\ Stopping'
          /\ UNCHANGED <<m_sessions, m_inQueue, addSessQueue>>
          /\ \A b \in InWorld : closed'[m_sessions[b]]
      BY <1>4, <2>1 DEF KickAll, InWorld, Stopping
    <2> QED BY <2>2 DEF FlagsOK, QueueFlag, Queued, Entries
  <1>5. CASE DestroyWorld
    <2>1. InWorld' = {} /\ UNCHANGED <<m_inQueue, addSessQueue>>
      BY <1>5 DEF DestroyWorld, InWorld
    <2> QED BY <2>1 DEF FlagsOK, QueueFlag
  <1>6. ASSUME \/ \E s \in Sessions : CloseSocket(s)
               \/ BeginUpdateSessions
               \/ BeginWalk
               \/ \E a \in Accounts : UpdateSession(a)
               \/ EndUpdateSessions
               \/ \E l \in Limits : SetPlayerAmountLimit(l)
               \/ Tick
               \/ UNCHANGED vars
        PROVE  FlagsOK'
    <2>1. UNCHANGED <<m_sessions, m_QueuedPlayer, m_inQueue, addSessQueue>>
      BY <1>6 DEF CloseSocket, BeginUpdateSessions, BeginWalk, UpdateSession,
             EndUpdateSessions, SetPlayerAmountLimit, Tick, vars, session, world
    <2>2. Stopping => Stopping'
      BY <1>6 DEF CloseSocket, BeginUpdateSessions, BeginWalk, UpdateSession, Adding, Updating,
             EndUpdateSessions, SetPlayerAmountLimit, Tick, vars, session, world, Stopping
    <2>3. \A x \in Sessions : closed[x] => closed'[x]
      BY <1>6 DEF CloseSocket, BeginUpdateSessions, BeginWalk, UpdateSession, Inv, TypeOK,
             EndUpdateSessions, SetPlayerAmountLimit, Tick, vars, session, world
    <2>4. InWorld' = InWorld /\ \A b \in InWorld : m_sessions[b] \in Sessions
      BY <2>1 DEF InWorld, Inv, TypeOK
    <2> QED BY <2>1, <2>2, <2>3, <2>4 DEF FlagsOK, QueueFlag, Queued
  <1> QED BY <1>1, <1>2, <1>3, <1>4, <1>5, <1>6 DEF Next, Terminated

(* A waiting session has m_inQueue set, so its opcodes are held back; once   *)
(* it no longer waits the flag is clear, except after KickAll has closed its *)
(* socket.  The flag and the queue are changed in four places of World.cpp.  *)
THEOREM FlagsMatchQueue == Spec => []QueueFlag
  <1>1. Init => FlagsOK
    BY DEF Init, FlagsOK, QueueFlag, Entries, InWorld
  <1>2. Inv /\ FlagsOK /\ [Next]_vars => FlagsOK'
    BY FlagsStep
  <1>3. FlagsOK => QueueFlag
    BY DEF FlagsOK
  <1> QED BY <1>1, <1>2, <1>3, InitInv, NextInv, PTL DEF Spec

-----------------------------------------------------------------------------
(* The order of service                                                      *)

(* First come, first served between a queue q and the next one r, where the  *)
(* sessions in Out may lose their place                                      *)
KeepsOrder(q, r, Out) ==
    /\ \A x, y : Before(q, x, y) /\ x \in Entries(r) => Before(r, x, y) \/ y \in Out
    /\ \A x, y : x \in Entries(q) /\ x \in Entries(r) /\ y \in Entries(r) \ Entries(q)
                    => Before(r, x, y)

LEMMA StepKeepsOrder ==
    ASSUME Inv, [Next]_vars
    PROVE  KeepsOrder(m_QueuedPlayer, m_QueuedPlayer', Sessions \ alive')
  <1> DEFINE Out == Sessions \ alive'
  <1>0. QueueState.queue = m_QueuedPlayer /\ Entries(m_QueuedPlayer) \subseteq Sessions
    BY DEF QueueState, Inv, TypeOK, NoDanglingSession, Entries
  <1>1. CASE AddSession_
    <2>1. PICK s \in Sessions :
              /\ s \notin WorldSessions /\ s \notin Entries(m_QueuedPlayer)
              /\ RefuseSession(s) \/ InstallSession(s)
      BY <1>1, NextNewSession
    <2>2. CASE RefuseSession(s)
      BY <2>2 DEF RefuseSession, KeepsOrder
    <2>3. CASE InstallSession(s)
      <3> DEFINE old == m_sessions[account[s]]
      <3>1. PICK d : /\ Removed(QueueState, d, old)
                     /\ SetQueueState(d) \/ SetQueueState(AddQueuedPlayer(d, s))
        BY <2>1, <2>3, InstalledShape
      <3>2. old \notin alive'
        BY <2>3 DEF InstallSession
      <3> HIDE DEF old
      <3>3. /\ d \in QueueStateType /\ Distinct(d.queue) /\ s \notin Entries(d.queue)
            /\ Entries(d.queue) \subseteq Entries(m_QueuedPlayer)
            /\ \A x, y : Before(m_QueuedPlayer, x, y) /\ x \in Entries(d.queue)
                            => Before(d.queue, x, y) \/ y = old
        BY <1>0, <2>1, <3>1 DEF Removed
      <3>4. \A x, y : Before(m_QueuedPlayer, x, y) => y \in Sessions
        BY <1>0 DEF Before, Entries
      <3>5. CASE SetQueueState(d)
        BY <3>2, <3>3, <3>4, <3>5 DEF SetQueueState, KeepsOrder
      <3>6. CASE SetQueueState(AddQueuedPlayer(d, s))
        <4> DEFINE r == AddQueuedPlayer(d, s)
        <4>1. /\ Entries(r.queue) = Entries(d.queue) \cup {s}
              /\ \A x, y : Before(d.queue, x, y) => Before(r.queue, x, y)
              /\ \A x \in Entries(d.queue) : Before(r.queue, x, s)
          BY <3>3, AppendedShape, AddQueuedPlayerProperties
        <4> HIDE DEF r
        <4>2. m_QueuedPlayer' = r.queue
          BY <3>6 DEF SetQueueState, r
        <4>3. \A x, y : Before(m_QueuedPlayer, x, y) => x \in Entries(m_QueuedPlayer)
          BY DEF Before, Entries
        <4> QED BY <2>1, <3>2, <3>3, <3>4, <4>1, <4>2, <4>3 DEF KeepsOrder
      <3> QED BY <3>1, <3>5, <3>6
    <2> QED BY <2>1, <2>2, <2>3
  <1>2. ASSUME NEW a \in Accounts, RemoveDeadSession(a)
        PROVE  KeepsOrder(m_QueuedPlayer, m_QueuedPlayer', Out)
    <2>1. PICK d : Removed(QueueState, d, m_sessions[a]) /\ SetQueueState(d)
      BY <1>2, DeadShape
    <2>2. m_sessions[a] \notin alive'
      BY <1>2 DEF RemoveDeadSession
    <2>3. /\ Entries(d.queue) \subseteq Entries(m_QueuedPlayer)
          /\ \A x, y : Before(m_QueuedPlayer, x, y) /\ x \in Entries(d.queue)
                          => Before(d.queue, x, y) \/ y = m_sessions[a]
      BY <1>0, <2>1 DEF Removed
    <2>4. \A x, y : Before(m_QueuedPlayer, x, y) => y \in Sessions
      BY <1>0 DEF Before, Entries
    <2> QED BY <2>1, <2>2, <2>3, <2>4 DEF SetQueueState, KeepsOrder
  <1>3. CASE ~AddSession_ /\ \A a \in Accounts : ~RemoveDeadSession(a)
    <2>1. m_QueuedPlayer' = <<>> \/ m_QueuedPlayer' = m_QueuedPlayer
      BY <1>3, QuietSteps
    <2> QED BY <2>1 DEF KeepsOrder, Entries
  <1> QED BY <1>1, <1>2, <1>3

(* Nobody passes a waiting session: those behind it stay behind as long as   *)
(* they exist, and newcomers line up behind it.                              *)
THEOREM OrderOfArrival == Spec => FirstComeFirstServed
  <1> DEFINE
        Served == \A i \in DOMAIN m_QueuedPlayer :
                    LET x      == m_QueuedPlayer[i]
                        Pos(y) == GetQueuePos(m_QueuedPlayer', y)
                        behind == {m_QueuedPlayer[j] : j \in (i + 1)..Len(m_QueuedPlayer)}
                    IN  Pos(x) # 0 =>
                          /\ \A y \in behind : Pos(x) < Pos(y) \/ y \notin alive' \/ closed[y]
                          /\ \A y \in Entries(m_QueuedPlayer') \ Entries(m_QueuedPlayer) :
                               Pos(x) < Pos(y)
  <1>1. ASSUME Inv, [Next]_vars PROVE Served
    <2> DEFINE q == m_QueuedPlayer
               r == m_QueuedPlayer'
               Pos(y) == GetQueuePos(r, y)
    <2>1. q \in Seq(Sessions) /\ Len(q) \in Nat /\ DOMAIN q = 1..Len(q)
      BY <1>1 DEF Inv, TypeOK
    <2>2. r \in Seq(Sessions) /\ Distinct(r)
      BY <1>1, NextInv DEF Inv, TypeOK, NoDanglingSession
    <2>3. KeepsOrder(q, r, Sessions \ alive')
      BY <1>1, StepKeepsOrder
    <2> HIDE DEF q, r
    <2>4. /\ \A x, y : Before(r, x, y) => Pos(x) < Pos(y)
          /\ \A x : Pos(x) # 0 <=> x \in Entries(r)
      BY <2>2, QueuePosDistinct
    <2> HIDE DEF Pos
    <2>5. ASSUME NEW i \in 1..Len(q), Pos(q[i]) # 0
          PROVE  /\ \A j \in (i + 1)..Len(q) : Pos(q[i]) < Pos(q[j]) \/ q[j] \notin alive'
                 /\ \A y \in Entries(r) \ Entries(q) : Pos(q[i]) < Pos(y)
      <3>1. q[i] \in Entries(q) /\ q[i] \in Entries(r)
        BY <2>4, <2>5 DEF Entries
      <3>2. \A j \in (i + 1)..Len(q) : Before(q, q[i], q[j])
        <4> SUFFICES ASSUME NEW j \in (i + 1)..Len(q) PROVE Before(q, q[i], q[j])
          OBVIOUS
        <4>1. j \in 1..Len(q) /\ i < j
          BY <2>1
        <4> QED BY <4>1 DEF Before
      <3> QED BY <2>3, <2>4, <3>1, <3>2 DEF KeepsOrder
    <2> QED BY <2>1, <2>5 DEF q, r, Pos
  <1> HIDE DEF Served
  <1>2. Inv /\ [Next]_vars => [Served]_vars
    BY <1>1
  <1>3. FirstComeFirstServed <=> [][Served]_vars
    BY DEF FirstComeFirstServed, Served
  <1> QED BY <1>2, <1>3, InitInv, NextInv, PTL DEF Spec

-----------------------------------------------------------------------------
(* The player limit                                                          *)

(* The state d after RemoveQueuedPlayer has taken s off the queue of st, and *)
(* perhaps let somebody in                                                   *)
Admits(st, d, total, s) ==
    \/ Entries(d.queue) = Entries(st.queue) \ {s}
    \/ /\ MayAdmit(CountWithout(total - Len(st.queue), s \in Entries(st.queue)))
       /\ \E h \in Entries(st.queue) \ {s} : Entries(d.queue) = Entries(st.queue) \ {s, h}

LEMMA RemovedAdmits ==
    ASSUME NEW st \in QueueStateType, NEW total \in Int, NEW s, Distinct(st.queue)
    PROVE  Admits(st, RemoveQueuedPlayer(st, total, s), total, s)
  <1> DEFINE r    == RemoveQueuedPlayer(st, total, s)
             rest == Rest(st.queue, s)
             pops == Pops(st, total, s)
  <1>1. /\ Entries(r.queue) = Entries(st.queue) \ ({s} \cup (IF pops THEN {Head(rest)} ELSE {}))
        /\ pops => Head(rest) \in Entries(st.queue) \ {s}
    BY RemovedShape
  <1>2. pops => MayAdmit(CountWithout(total - Len(st.queue), s \in Entries(st.queue)))
    BY DEF Pops
  <1> HIDE DEF r, rest, pops
  <1>3. CASE pops
    <2>1. Entries(r.queue) = Entries(st.queue) \ {s, Head(rest)}
      BY <1>1, <1>3
    <2> QED BY <1>1, <1>2, <1>3, <2>1 DEF Admits, r
  <1>4. CASE ~pops
    <2>1. Entries(r.queue) = Entries(st.queue) \ {s}
      BY <1>1, <1>4
    <2> QED BY <2>1 DEF Admits, r
  <1> QED BY <1>3, <1>4

(* The decision AddSession_ takes about the session s it installs            *)
LEMMA InstalledDecision ==
    ASSUME Inv, NEW s \in Sessions, s \notin WorldSessions, InstallSession(s)
    PROVE  LET a     == account[s]
               old   == m_sessions[a]
               N     == Cardinality(InWorld)
               total == Cardinality(InWorld')
           IN  /\ total = IF old # NoSession THEN N ELSE N + 1
               /\ InWorld' = InWorld \cup {a}
               /\ \E d, full, exempt :
                     /\ Removed(QueueState, d, old)
                     /\ \/ Entries(d.queue) = Entries(m_QueuedPlayer) \ {old}
                        \/ old # NoSession /\ Admits(QueueState, d, N, old)
                     /\ ~full => m_playerLimit = 0 \/ total - 1 < m_playerLimit
                     /\ exempt <=> a \in SkipQueue \/ HasRecentlyDisconnected(a)
                     /\ IF full /\ ~exempt THEN SetQueueState(AddQueuedPlayer(d, s))
                                           ELSE SetQueueState(d)
                     /\ pass' = [pass EXCEPT ![s] = IF full /\ exempt THEN Exemption(a)
                                                                      ELSE "queue"]
  <1> DEFINE a       == account[s]
             old     == m_sessions[a]
             N       == Cardinality(InWorld)
             total   == IF old # NoSession THEN N ELSE N + 1
             dropped == IF old # NoSession THEN Unqueue(N, old) ELSE QueueState
             count   == IF dropped.found THEN total ELSE total - 1
             full    == LimitReached(count)
             exempt  == a \in SkipQueue \/ HasRecentlyDisconnected(a)
  <1>1. a \in Accounts /\ IsFiniteSet(InWorld) /\ N \in Nat /\ m_playerLimit \in Nat
    BY CountType, QueueStateOK DEF Inv, TypeOK, GetActiveAndQueuedSessionCount
  <1>2. Cardinality(InWorld') = total /\ InWorld' = InWorld \cup {a}
    <2>1. InWorld' = InWorld \cup {a}
      BY <1>1, ConstantsAssumption DEF InstallSession, Inv, TypeOK, InWorld
    <2>2. a \in InWorld <=> old # NoSession
      BY <1>1 DEF InWorld
    <2> QED BY <1>1, <2>1, <2>2, FS_AddElement
  <1>3. /\ IF full /\ ~exempt THEN SetQueueState(AddQueuedPlayer(dropped, s))
                              ELSE SetQueueState(dropped)
        /\ pass' = [pass EXCEPT ![s] = IF full /\ exempt THEN Exemption(a) ELSE "queue"]
    BY DEF InstallSession, GetActiveAndQueuedSessionCount
  <1>4. /\ Removed(QueueState, dropped, old)
        /\ \/ Entries(dropped.queue) = Entries(m_QueuedPlayer) \ {old}
           \/ old # NoSession /\ Admits(QueueState, dropped, N, old)
    <2>1. CASE old # NoSession
      <3>1. dropped = RemoveQueuedPlayer(QueueState, N, old)
        BY <2>1 DEF Unqueue
      <3> HIDE DEF dropped, N, old
      <3> QED BY <1>1, <2>1, <3>1, QueueStateOK, RemovedOnce, RemovedAdmits
    <2>2. CASE old = NoSession
      <3>1. NoSession \notin Entries(m_QueuedPlayer)
        BY ConstantsAssumption DEF Inv, TypeOK, Entries
      <3>2. dropped = QueueState
        BY <2>2
      <3> HIDE DEF dropped
      <3>3. Removed(QueueState, dropped, old)
        BY <2>2, <3>1, <3>2, QueueStateOK DEF Removed
      <3>4. Entries(dropped.queue) = Entries(m_QueuedPlayer) \ {old}
        BY <2>2, <3>1, <3>2 DEF QueueState
      <3> QED BY <3>3, <3>4
    <2> QED BY <2>1, <2>2
  <1> HIDE DEF dropped, N, old
  <1>5. ~full => m_playerLimit = 0 \/ total - 1 < m_playerLimit
    <2>1. total \in Nat /\ count \in {total - 1, total}
      BY <1>1
    <2> HIDE DEF total, count
    <2> QED BY <1>1, <2>1 DEF LimitReached
  <1> HIDE DEF full, exempt, total
  <1>6. exempt <=> a \in SkipQueue \/ HasRecentlyDisconnected(a)
    BY DEF exempt
  <1>7. \E d, fl, ex :
                     /\ Removed(QueueState, d, old)
                     /\ \/ Entries(d.queue) = Entries(m_QueuedPlayer) \ {old}
                        \/ old # NoSession /\ Admits(QueueState, d, N, old)
                     /\ ~fl => m_playerLimit = 0 \/ total - 1 < m_playerLimit
                     /\ ex <=> a \in SkipQueue \/ HasRecentlyDisconnected(a)
                     /\ IF fl /\ ~ex THEN SetQueueState(AddQueuedPlayer(d, s))
                                     ELSE SetQueueState(d)
                     /\ pass' = [pass EXCEPT ![s] = IF fl /\ ex THEN Exemption(a)
                                                                ELSE "queue"]
    BY <1>3, <1>4, <1>5, <1>6
  <1> QED BY <1>2, <1>7 DEF total, N, old

(* A session that was let in at once finds the queue empty.                  *)
LEMMA AdmittedOverNobody ==
    ASSUME Inv, WorkConserving, AddSession_, NEW a \in Accounts,
           m_sessions'[a] \notin {NoSession, m_sessions[a]},
           GetQueuePos(m_QueuedPlayer', m_sessions'[a]) = 0,
           a \notin SkipQueue, m_disconnects[a] = Never
    PROVE  m_QueuedPlayer' = <<>>
  <1>1. PICK s \in Sessions : s \notin WorldSessions /\ s \notin Entries(m_QueuedPlayer)
                              /\ (RefuseSession(s) \/ InstallSession(s))
    BY NextNewSession
  <1>2. InstallSession(s)
    BY <1>1 DEF RefuseSession
  <1>3. a = account[s] /\ m_sessions'[a] = s
    <2>1. account[s] \in Accounts /\ m_sessions' = [m_sessions EXCEPT ![account[s]] = s]
      BY <1>2 DEF InstallSession, Inv, TypeOK
    <2> QED BY <2>1 DEF Inv, TypeOK
  <1> DEFINE total == Cardinality(InWorld')
             n     == Len(m_QueuedPlayer')
  <1>4. PICK d, full, exempt :
          /\ Removed(QueueState, d, m_sessions[a])
          /\ ~full => m_playerLimit = 0 \/ total - 1 < m_playerLimit
          /\ exempt <=> a \in SkipQueue \/ HasRecentlyDisconnected(a)
          /\ IF full /\ ~exempt THEN SetQueueState(AddQueuedPlayer(d, s))
                                ELSE SetQueueState(d)
    BY <1>1, <1>2, <1>3, InstalledDecision
  <1>5. m_QueuedPlayer' \in Seq(Sessions) /\ n \in Nat /\ total \in Nat /\ TypeOK'
    <2>1. TypeOK'
      BY AddSession_Inv DEF Inv
    <2>2. InWorld' \subseteq Accounts
      BY DEF InWorld
    <2> QED BY <2>1, <2>2, ConstantsAssumption, FS_Subset, FS_CardinalityType DEF TypeOK
  <1>6. s \notin Entries(m_QueuedPlayer')
    BY <1>3, <1>5, QueuePosRange DEF Entries
  <1>7. ~exempt
    BY <1>4 DEF HasRecentlyDisconnected
  <1>8. ~full
    <2>1. s \in Entries(AddQueuedPlayer(d, s).queue)
      <3>1. d \in QueueStateType /\ Distinct(d.queue) /\ s \notin Entries(d.queue)
        BY <1>1, <1>4 DEF Removed, QueueState
      <3> QED BY <3>1, AddQueuedPlayerProperties
    <2> QED BY <1>4, <1>6, <1>7, <2>1 DEF SetQueueState
  <1>9. m_QueuedPlayer' # <<>> => m_playerLimit > 0 /\ total - n >= m_playerLimit
    <2>1. m_playerLimit' = m_playerLimit
      BY <1>2 DEF InstallSession
    <2> QED BY <2>1, InstallSessionWork
            DEF WorkConserving, GetActiveSessionCount, GetActiveAndQueuedSessionCount
  <1>10. m_QueuedPlayer' # <<>> => n # 0
    BY <1>5, EmptySeq
  <1>11. m_playerLimit \in Nat
    BY QueueStateOK
  <1> HIDE DEF total, n
  <1> QED BY <1>4, <1>5, <1>8, <1>9, <1>10, <1>11

(* With a fixed limit nobody is let in while others wait, except privileged  *)
(* accounts and those that have been disconnected themselves: the test of    *)
(* the limit in AddSession_ counts the waiting sessions too.                 *)
THEOREM NobodyOvertakes ==
    ASSUME NEW L, Limits = {L}
    PROVE  Spec => NoOvertaking
  <1> DEFINE
        Fair == \A a \in Accounts :
                  (/\ m_sessions'[a] \notin {NoSession, m_sessions[a]}
                   /\ GetQueuePos(m_QueuedPlayer', m_sessions'[a]) = 0
                   /\ a \notin SkipQueue
                   /\ m_disconnects[a] = Never)
                  => m_QueuedPlayer' = <<>>
  <1>1. ASSUME Inv, WorkConserving, [Next]_vars PROVE Fair
    <2> SUFFICES ASSUME NEW a \in Accounts,
                        m_sessions'[a] \notin {NoSession, m_sessions[a]},
                        GetQueuePos(m_QueuedPlayer', m_sessions'[a]) = 0,
                        a \notin SkipQueue, m_disconnects[a] = Never
                 PROVE  m_QueuedPlayer' = <<>>
      OBVIOUS
    <2>1. AddSession_
      <3>1. m_sessions' # m_sessions /\ m_sessions'[a] # NoSession
        OBVIOUS
      <3>2. ASSUME NEW b \in Accounts, RemoveDeadSession(b) PROVE FALSE
        BY <1>1, <3>2 DEF RemoveDeadSession, Inv, TypeOK
      <3>3. ~DestroyWorld
        BY DEF DestroyWorld
      <3> QED BY <1>1, <3>1, <3>2, <3>3
              DEF Next, AddSession, CloseSocket, BeginUpdateSessions, BeginWalk, UpdateSession,
                  EndUpdateSessions, SetPlayerAmountLimit, KickAll, Tick, Terminated,
                  vars, session, world
    <2> QED BY <1>1, <2>1, AdmittedOverNobody
  <1> HIDE DEF Fair
  <1>2. Inv /\ WorkConserving /\ [Next]_vars => [Fair]_vars
    BY <1>1
  <1>3. NoOvertaking <=> [][Fair]_vars
    BY DEF NoOvertaking, Fair
  <1>4. Spec => []WorkConserving
    BY NoIdleSlot
  <1> QED BY <1>2, <1>3, <1>4, InitInv, NextInv, PTL DEF Spec

(* The sessions that wait are those of as many accounts as the queue is      *)
(* long, so GetActiveSessionCount counts the accounts that do not wait.      *)
LEMMA ActiveCount ==
    ASSUME Inv
    PROVE  /\ IsFiniteSet(Active) /\ Active \subseteq InWorld
           /\ Cardinality(Active) = Cardinality(InWorld) - Len(m_QueuedPlayer)
  <1> DEFINE q == m_QueuedPlayer
             n == Len(q)
             W == {a \in InWorld : m_sessions[a] \in Entries(q)}
             f == [i \in 1..n |-> account[q[i]]]
  <1>1. q \in Seq(Sessions) /\ n \in Nat /\ Distinct(q) /\ Entries(q) \subseteq WorldSessions
    BY DEF Inv, TypeOK, NoDanglingSession
  <1>2. \A i \in 1..n : f[i] \in W /\ m_sessions[f[i]] = q[i]
    <2> SUFFICES ASSUME NEW i \in 1..n PROVE account[q[i]] \in W /\ m_sessions[account[q[i]]] = q[i]
      OBVIOUS
    <2>1. q[i] \in Entries(q)
      BY DEF Entries
    <2>2. PICK a \in InWorld : q[i] = m_sessions[a]
      BY <1>1, <2>1 DEF WorldSessions
    <2>3. account[q[i]] = a
      BY <2>2 DEF Inv, NoDanglingSession
    <2> QED BY <2>1, <2>2, <2>3
  <1>3. \A b \in W : \E i \in 1..n : f[i] = b
    <2> SUFFICES ASSUME NEW b \in W PROVE \E i \in 1..n : account[q[i]] = b
      OBVIOUS
    <2>1. PICK i \in 1..n : q[i] = m_sessions[b]
      BY DEF Entries
    <2> QED BY <2>1 DEF Inv, NoDanglingSession
  <1>4. \A i, j \in 1..n : f[i] = f[j] => i = j
    BY <1>1, <1>2 DEF Distinct
  <1>5. f \in Bijection(1..n, W)
    <2>1. f \in [1..n -> W]
      BY <1>2
    <2> HIDE DEF f, W, n
    <2> QED BY <1>3, <1>4, <2>1 DEF Bijection, Injection, Surjection, IsInjective
  <1>6. Cardinality(W) = n
    <2>1. IsFiniteSet(1..n) /\ Cardinality(1..n) = n
      BY <1>1, FS_Interval
    <2>2. ExistsBijection(1..n, W)
      BY <1>5 DEF ExistsBijection
    <2> HIDE DEF n, W
    <2> QED BY <2>1, <2>2, FS_Bijection
  <1>7. Active = InWorld \ W /\ InWorld \cap W = W
    BY DEF Active, Queued
  <1>8. IsFiniteSet(InWorld)
    BY CountType DEF Inv
  <1> HIDE DEF W, n
  <1>9. IsFiniteSet(InWorld \ W) /\ Cardinality(InWorld \ W) = Cardinality(InWorld) - n
    BY <1>6, <1>7, <1>8, FS_Difference
  <1> QED BY <1>7, <1>9 DEF n

(* The accounts the limit is about: in the world, not waiting, not exempt    *)
Ordinary == {a \in Active : pass[m_sessions[a]] = "queue"}

(* A smaller set, or the active accounts with one exchanged for another      *)
LEMMA Exchange ==
    ASSUME NEW S, IsFiniteSet(S), NEW a \in S, NEW c, NEW T, T \subseteq (S \ {a}) \cup {c}
    PROVE  IsFiniteSet(T) /\ Cardinality(T) \in Nat /\ Cardinality(S) \in Nat
           /\ Cardinality(T) <= Cardinality(S)
  <1> DEFINE U == (S \ {a}) \cup {c}
  <1>1. IsFiniteSet(S \ {a}) /\ Cardinality(S \ {a}) = Cardinality(S) - 1
    BY FS_RemoveElement
  <1>2. IsFiniteSet(U) /\ Cardinality(U) \in {Cardinality(S) - 1, Cardinality(S) - 1 + 1}
    BY <1>1, FS_AddElement
  <1>3. Cardinality(S) \in Nat /\ Cardinality(U) \in Nat
    BY <1>2, FS_CardinalityType
  <1> HIDE DEF U
  <1>4. IsFiniteSet(T) /\ Cardinality(T) <= Cardinality(U)
    BY <1>2, FS_Subset DEF U
  <1>5. Cardinality(T) \in Nat
    BY <1>4, FS_CardinalityType
  <1> QED BY <1>2, <1>3, <1>4, <1>5

(* Somebody waits only if the limit is reached; if the next one may be       *)
(* admitted in place of s, it is reached exactly and s was not waiting.      *)
LEMMA RoomForOne ==
    ASSUME Inv, WorkConserving, m_playerLimit > 0, NEW s, NEW h \in Entries(m_QueuedPlayer),
           MayAdmit(CountWithout(Cardinality(InWorld) - Len(m_QueuedPlayer),
                                 s \in Entries(m_QueuedPlayer)))
    PROVE  /\ Cardinality(Active) = m_playerLimit
           /\ s \notin Entries(m_QueuedPlayer)
  <1> DEFINE A == Cardinality(Active)
             N == Cardinality(InWorld)
             n == Len(m_QueuedPlayer)
             w == s \in Entries(m_QueuedPlayer)
  <1>1. A \in Nat /\ A = N - n /\ m_playerLimit \in Nat /\ w \in BOOLEAN
    BY ActiveCount, QueueStateOK, FS_CardinalityType
  <1>2. m_QueuedPlayer # <<>>
    BY DEF Entries
  <1>3. A >= m_playerLimit
    BY <1>1, <1>2 DEF WorkConserving, GetActiveSessionCount, GetActiveAndQueuedSessionCount
  <1>4. m_playerLimit = 0 \/ CountWithout(A, w) < m_playerLimit
    BY <1>1 DEF MayAdmit
  <1> HIDE DEF A, w
  <1>5. ~w /\ A = m_playerLimit
    BY <1>1, <1>3, <1>4 DEF CountWithout
  <1> QED BY <1>5 DEF A, w

LEMMA InstallLimit ==
    ASSUME Inv, WorkConserving, m_playerLimit > 0, Cardinality(Ordinary) <= m_playerLimit,
           NEW s \in Sessions, s \notin WorldSessions, s \notin Entries(m_QueuedPlayer),
           InstallSession(s), Inv'
    PROVE  Cardinality(Ordinary') <= m_playerLimit
  <1> DEFINE a     == account[s]
             old   == m_sessions[a]
             total == Cardinality(InWorld')
             O     == Ordinary'
             q     == m_QueuedPlayer
  <1>1. PICK d, full, exempt :
          /\ Removed(QueueState, d, old)
          /\ \/ Entries(d.queue) = Entries(q) \ {old}
             \/ old # NoSession /\ Admits(QueueState, d, Cardinality(InWorld), old)
          /\ ~full => m_playerLimit = 0 \/ total - 1 < m_playerLimit
          /\ IF full /\ ~exempt THEN SetQueueState(AddQueuedPlayer(d, s))
                                ELSE SetQueueState(d)
          /\ pass' = [pass EXCEPT ![s] = IF full /\ exempt THEN Exemption(a) ELSE "queue"]
    BY InstalledDecision
  <1>2. /\ m_sessions' = [m_sessions EXCEPT ![a] = s] /\ a \in Accounts
        /\ InWorld' = InWorld \cup {a}
    BY InstalledDecision DEF InstallSession, Inv, TypeOK
  <1>3. /\ d \in QueueStateType /\ Distinct(d.queue)
        /\ Entries(d.queue) \subseteq Entries(q) \ {old} /\ s \notin Entries(d.queue)
    BY <1>1 DEF Removed, QueueState
  <1>4. Entries(AddQueuedPlayer(d, s).queue) = Entries(d.queue) \cup {s}
    BY <1>3, AddQueuedPlayerProperties
  <1>5. /\ Entries(d.queue) \subseteq Entries(m_QueuedPlayer')
        /\ full /\ ~exempt => s \in Entries(m_QueuedPlayer')
    BY <1>1, <1>4 DEF SetQueueState
  <1>6. m_playerLimit \in Nat /\ IsFiniteSet(InWorld') /\ total \in Nat
    <2>1. InWorld' \subseteq Accounts
      BY DEF InWorld
    <2> QED BY <2>1, ConstantsAssumption, QueueStateOK, FS_Subset, FS_CardinalityType
  <1>7. O \subseteq InWorld'
    BY DEF Ordinary, Active
  <1>8. CASE ~full
    <2>1. Cardinality(O) <= total /\ Cardinality(O) \in Nat
      BY <1>6, <1>7, FS_Subset, FS_CardinalityType
    <2> HIDE DEF total, O
    <2>2. total - 1 < m_playerLimit
      BY <1>1, <1>8
    <2> QED BY <1>6, <2>1, <2>2 DEF O
  <1>9. CASE full
    <2>1. a \notin O
      <3>1. Exemption(a) # "queue"
        BY DEF Exemption
      <3>2. m_sessions'[a] = s
        BY <1>2 DEF Inv, TypeOK
      <3>3. exempt => pass'[s] # "queue"
        BY <1>1, <1>9, <3>1 DEF Inv, TypeOK
      <3> QED BY <1>5, <1>9, <3>2, <3>3 DEF Ordinary, Active, Queued
    <2>2. ASSUME NEW b \in O
          PROVE  /\ b \in InWorld /\ b # a /\ m_sessions[b] # old
                 /\ m_sessions[b] \notin Entries(d.queue)
                 /\ m_sessions[b] \notin Entries(q) => b \in Ordinary
      <3>1. b \in InWorld' /\ b # a
        BY <1>7, <2>1
      <3>2. b \in InWorld /\ m_sessions'[b] = m_sessions[b]
        BY <1>2, <3>1 DEF InWorld, Inv, TypeOK
      <3>3. m_sessions[b] # old
        BY <1>2, <3>1, <3>2 DEF Inv, NoDanglingSession, InWorld
      <3>4. m_sessions[b] # s /\ m_sessions[b] \in Sessions
        BY <3>2 DEF WorldSessions, InWorld, Inv, TypeOK
      <3>5. pass'[m_sessions[b]] = pass[m_sessions[b]]
        BY <1>1, <3>4 DEF Inv, TypeOK
      <3>6. m_sessions[b] \notin Entries(m_QueuedPlayer') /\ pass'[m_sessions[b]] = "queue"
        BY <3>2 DEF Ordinary, Active, Queued
      <3> QED BY <1>5, <3>1, <3>2, <3>3, <3>5, <3>6 DEF Ordinary, Active, Queued
    <2>3. CASE Entries(d.queue) = Entries(q) \ {old}
      <3>1. O \subseteq Ordinary
        BY <2>2, <2>3
      <3>2. IsFiniteSet(Ordinary)
        BY ActiveCount, FS_Subset DEF Ordinary
      <3>3. Cardinality(O) <= Cardinality(Ordinary)
        BY <3>1, <3>2, FS_Subset
      <3>4. Cardinality(O) \in Nat /\ Cardinality(Ordinary) \in Nat
        BY <1>6, <1>7, <3>2, FS_Subset, FS_CardinalityType
      <3> QED BY <1>6, <3>3, <3>4
    <2>4. CASE Entries(d.queue) # Entries(q) \ {old}
      <3>1. old # NoSession /\ Admits(QueueState, d, Cardinality(InWorld), old)
        BY <1>1, <2>4
      <3>2. QueueState.queue = q
        BY DEF QueueState
      <3>3. PICK h \in Entries(q) \ {old} : Entries(d.queue) = Entries(q) \ {old, h}
        BY <2>4, <3>1, <3>2 DEF Admits
      <3>4. MayAdmit(CountWithout(Cardinality(InWorld) - Len(q), old \in Entries(q)))
        BY <2>4, <3>1, <3>2 DEF Admits
      <3>5. Cardinality(Active) = m_playerLimit /\ old \notin Entries(q)
        BY <3>3, <3>4, RoomForOne
      <3>6. a \in Active
        BY <1>2, <3>1, <3>5 DEF Active, Queued, InWorld
      <3>7. O \subseteq (Active \ {a}) \cup {account[h]}
        <4> SUFFICES ASSUME NEW b \in O PROVE b \in (Active \ {a}) \cup {account[h]}
          OBVIOUS
        <4>1. b \in InWorld /\ b # a /\ m_sessions[b] \notin Entries(q) \ {h}
          BY <2>2, <3>3
        <4>2. CASE m_sessions[b] = h
          BY <4>1, <4>2 DEF Inv, NoDanglingSession
        <4>3. CASE m_sessions[b] # h
          BY <4>1, <4>3 DEF Active, Queued
        <4> QED BY <4>2, <4>3
      <3>8. IsFiniteSet(Active)
        BY ActiveCount
      <3> HIDE DEF O, a
      <3>9. Cardinality(O) <= Cardinality(Active)
        BY <3>6, <3>7, <3>8, Exchange
      <3> QED BY <3>5, <3>9 DEF O
    <2> QED BY <2>3, <2>4
  <1> QED BY <1>8, <1>9

(* UpdateSessions calls RemoveQueuedPlayer twice; the second call, with the  *)
(* queue already refilled, lets nobody in.                                   *)
LEMMA SecondCallAdmitsNobody ==
    ASSUME Inv, WorkConserving, m_playerLimit > 0, NEW a \in Accounts, RemoveDeadSession(a)
    PROVE  \E d : /\ SetQueueState(d) /\ Removed(QueueState, d, m_sessions[a])
                  /\ Admits(QueueState, d, Cardinality(InWorld), m_sessions[a])
  <1> DEFINE s     == m_sessions[a]
             N     == Cardinality(InWorld)
             n     == Len(m_QueuedPlayer)
             A     == Cardinality(Active)
             once  == RemoveQueuedPlayer(QueueState, N, s)
             twice == RemoveQueuedPlayer(once, N, s)
             k     == Len(once.queue)
             w     == s \in Entries(m_QueuedPlayer)
  <1>1. SetQueueState(twice)
    BY DEF RemoveDeadSession, GetActiveAndQueuedSessionCount
  <1>2. /\ N \in Nat /\ n \in Nat /\ m_playerLimit \in Nat /\ A \in Nat /\ A = N - n
        /\ w \in BOOLEAN
    BY ActiveCount, CountType, QueueStateOK, FS_CardinalityType
    DEF Inv, TypeOK, GetActiveAndQueuedSessionCount
  <1>3. /\ QueueState \in QueueStateType /\ QueueState.queue = m_QueuedPlayer
        /\ Distinct(QueueState.queue)
    BY QueueStateOK
  <1>4. n # 0 => A >= m_playerLimit
    BY <1>2 DEF WorkConserving, GetActiveSessionCount, GetActiveAndQueuedSessionCount
  <1> HIDE DEF N, s
  <1>5. Removed(QueueState, once, s) /\ Admits(QueueState, once, N, s)
    BY <1>2, <1>3, RemovedOnce, RemovedAdmits
  <1>6. LET rest == IF w THEN n - 1 ELSE n
        IN  k = IF MayAdmit(CountWithout(A, w)) /\ rest # 0 THEN rest - 1 ELSE rest
    <2>1. once.found <=> w
      BY <1>2, <1>3, RemoveQueuedPlayerLength
    <2>2. once.found \in BOOLEAN
      BY <1>5 DEF Removed, QueueStateType
    <2>3. once.found = w
      BY <1>2, <2>1, <2>2
    <2> QED BY <1>2, <1>3, <2>3, RemoveQueuedPlayerLength
  <1>7. once \in QueueStateType /\ Distinct(once.queue) /\ s \notin Entries(once.queue)
        /\ Entries(once.queue) \subseteq Entries(m_QueuedPlayer)
    BY <1>3, <1>5 DEF Removed
  <1>8. k \in Nat /\ (w => n # 0) /\ (Entries(once.queue) # {} => k # 0)
    BY <1>2, <1>7 DEF QueueStateType, Entries
  <1> HIDE DEF once
  <1>9. Removed(once, twice, s) /\ Admits(once, twice, N, s)
    BY <1>2, <1>7, RemovedOnce, RemovedAdmits
  <1>10. Removed(QueueState, twice, s)
    BY <1>5, <1>9, RemovedTwice
  <1>11. k # 0 => ~MayAdmit(CountWithout(N - k, FALSE))
    <2> HIDE DEF k, n, A, w
    <2>1. CASE w
      BY <1>2, <1>4, <1>6, <1>8, <2>1 DEF MayAdmit, CountWithout
    <2>2. CASE ~w
      BY <1>2, <1>4, <1>6, <1>8, <2>2 DEF MayAdmit, CountWithout
    <2> QED BY <2>1, <2>2
  <1>12. Entries(twice.queue) = Entries(once.queue)
    <2>1. (s \in Entries(once.queue)) = FALSE
      BY <1>7
    <2>2. CASE Entries(twice.queue) = Entries(once.queue) \ {s}
      BY <1>7, <2>2
    <2>3. CASE Entries(twice.queue) # Entries(once.queue) \ {s}
      <3>1. MayAdmit(CountWithout(N - k, FALSE)) /\ Entries(once.queue) # {}
        BY <1>9, <2>1, <2>3 DEF Admits
      <3> QED BY <1>8, <1>11, <3>1
    <2> QED BY <2>2, <2>3
  <1> HIDE DEF twice
  <1>13. Admits(QueueState, twice, N, s)
    BY <1>5, <1>12 DEF Admits
  <1> QED BY <1>1, <1>10, <1>13 DEF s, N

LEMMA RemoveDeadLimit ==
    ASSUME Inv, WorkConserving, m_playerLimit > 0, Cardinality(Ordinary) <= m_playerLimit,
           NEW a \in Accounts, RemoveDeadSession(a)
    PROVE  Cardinality(Ordinary') <= m_playerLimit
  <1> DEFINE s == m_sessions[a]
             O == Ordinary'
             q == m_QueuedPlayer
  <1>1. PICK d : /\ SetQueueState(d) /\ Removed(QueueState, d, s)
                 /\ Admits(QueueState, d, Cardinality(InWorld), s)
    BY SecondCallAdmitsNobody
  <1>2. /\ m_sessions' = [m_sessions EXCEPT ![a] = NoSession] /\ pass' = pass
        /\ a \in InWorld
    BY DEF RemoveDeadSession, Inv, NoDanglingSession
  <1>3. ASSUME NEW b \in O
        PROVE  /\ b \in InWorld /\ b # a /\ m_sessions[b] # s
               /\ m_sessions[b] \notin Entries(d.queue)
               /\ m_sessions[b] \notin Entries(q) => b \in Ordinary
    <2>1. b \in InWorld' /\ b # a
      BY <1>2 DEF Ordinary, Active, InWorld, Inv, TypeOK
    <2>2. b \in InWorld /\ m_sessions'[b] = m_sessions[b]
      BY <1>2, <2>1 DEF InWorld, Inv, TypeOK
    <2>3. m_sessions[b] # s
      BY <1>2, <2>1, <2>2 DEF Inv, NoDanglingSession
    <2>4. m_sessions[b] \notin Entries(d.queue) /\ pass[m_sessions[b]] = "queue"
      BY <1>1, <1>2, <2>2 DEF Ordinary, Active, Queued, SetQueueState
    <2> QED BY <2>1, <2>2, <2>3, <2>4 DEF Ordinary, Active, Queued
  <1>4. IsFiniteSet(Ordinary) /\ IsFiniteSet(Active) /\ m_playerLimit \in Nat
    BY ActiveCount, QueueStateOK, FS_Subset DEF Ordinary
  <1>5. QueueState.queue = q
    BY DEF QueueState
  <1>6. CASE Entries(d.queue) = Entries(q) \ {s}
    <2>1. O \subseteq Ordinary
      BY <1>3, <1>6
    <2>2. IsFiniteSet(O) /\ Cardinality(O) <= Cardinality(Ordinary)
      BY <1>4, <2>1, FS_Subset
    <2>3. Cardinality(O) \in Nat /\ Cardinality(Ordinary) \in Nat
      BY <1>4, <2>2, FS_CardinalityType
    <2> QED BY <1>4, <2>2, <2>3
  <1>7. CASE Entries(d.queue) # Entries(q) \ {s}
    <2>1. PICK h \in Entries(q) \ {s} : Entries(d.queue) = Entries(q) \ {s, h}
      BY <1>1, <1>5, <1>7 DEF Admits
    <2>2. MayAdmit(CountWithout(Cardinality(InWorld) - Len(q), s \in Entries(q)))
      BY <1>1, <1>5, <1>7 DEF Admits
    <2>3. Cardinality(Active) = m_playerLimit /\ s \notin Entries(q)
      BY <2>1, <2>2, RoomForOne
    <2>4. a \in Active
      BY <1>2, <2>3 DEF Active, Queued
    <2>5. O \subseteq (Active \ {a}) \cup {account[h]}
      <3> SUFFICES ASSUME NEW b \in O PROVE b \in (Active \ {a}) \cup {account[h]}
        OBVIOUS
      <3>1. b \in InWorld /\ b # a /\ m_sessions[b] \notin Entries(q) \ {h}
        BY <1>3, <2>1
      <3>2. CASE m_sessions[b] = h
        BY <3>1, <3>2 DEF Inv, NoDanglingSession
      <3>3. CASE m_sessions[b] # h
        BY <3>1, <3>3 DEF Active, Queued
      <3> QED BY <3>2, <3>3
    <2> HIDE DEF O
    <2>6. Cardinality(O) <= Cardinality(Active)
      BY <1>4, <2>4, <2>5, Exchange
    <2> QED BY <2>3, <2>6 DEF O
  <1> QED BY <1>6, <1>7

(* With a fixed limit, the accounts that are in the world without waiting    *)
(* and without an exemption are never more than the limit: a slot given up   *)
(* by a disconnection or a replaced session is refilled once, not twice,     *)
(* though RemoveQueuedPlayer may be called twice for one session.            *)
THEOREM LimitHolds ==
    ASSUME NEW L, Limits = {L}
    PROVE  Spec => []LimitRespected
  <1> DEFINE J == m_playerLimit > 0 /\ ~Stopping => Cardinality(Ordinary) <= m_playerLimit
  <1>1. Init => J
    <2> SUFFICES ASSUME Init, m_playerLimit > 0 PROVE Cardinality(Ordinary) <= m_playerLimit
      OBVIOUS
    <2>1. Ordinary = {}
      BY DEF Init, Ordinary, Active, InWorld
    <2>2. m_playerLimit \in Nat
      BY ConstantsAssumption DEF Init
    <2> QED BY <2>1, <2>2, FS_EmptySet
  <1>2. ASSUME Inv, WorkConserving, J, [Next]_vars PROVE J'
    <2>1. m_playerLimit' = m_playerLimit /\ (Stopping => Stopping')
      <3>1. m_playerLimit' \in Limits /\ m_playerLimit \in Limits
        BY <1>2, NextInv DEF Inv, TypeOK
      <3>2. Stopping => Stopping'
        BY <1>2 DEF Next, AddSession, CloseSocket, BeginUpdateSessions, AddSession_, BeginWalk,
            UpdateSession, RemoveDeadSession, EndUpdateSessions, SetPlayerAmountLimit, KickAll,
            DestroyWorld, Tick, Terminated, vars, Stopping, Adding, Updating
      <3> QED BY <3>1, <3>2
    <2> SUFFICES ASSUME m_playerLimit > 0, ~Stopping', ~Stopping,
                        Cardinality(Ordinary) <= m_playerLimit
                 PROVE  Cardinality(Ordinary') <= m_playerLimit
      BY <1>2, <2>1
    <2>2. CASE AddSession_
      <3>1. PICK s \in Sessions : s \notin WorldSessions /\ s \notin Entries(m_QueuedPlayer)
                                  /\ (RefuseSession(s) \/ InstallSession(s))
        BY <1>2, <2>2, NextNewSession
      <3>2. CASE RefuseSession(s)
        <4>1. Ordinary' = Ordinary
          BY <3>2 DEF RefuseSession, Ordinary, Active, Queued, InWorld
        <4> QED BY <4>1
      <3>3. CASE InstallSession(s)
        <4>1. Inv'
          BY <1>2, NextInv
        <4> QED BY <1>2, <3>1, <3>3, <4>1, InstallLimit
      <3> QED BY <3>1, <3>2, <3>3
    <2>3. ASSUME NEW a \in Accounts, RemoveDeadSession(a)
          PROVE  Cardinality(Ordinary') <= m_playerLimit
      BY <1>2, <2>3, RemoveDeadLimit
    <2>4. ASSUME NEW s \in Sessions, NEW a \in Accounts, AddSession(s, a)
          PROVE  Cardinality(Ordinary') <= m_playerLimit
      <3>1. \A b \in InWorld : m_sessions[b] # s /\ m_sessions[b] \in Sessions
        BY <1>2, <2>4 DEF AddSession, Inv, TypeOK, NoDanglingSession, InWorld
      <3>2. UNCHANGED <<m_sessions, m_QueuedPlayer>> /\ InWorld' = InWorld
        BY <2>4 DEF AddSession, InWorld
      <3>3. \A b \in InWorld : pass'[m_sessions[b]] = pass[m_sessions[b]]
        BY <1>2, <2>4, <3>1 DEF AddSession, Inv, TypeOK
      <3>4. Ordinary' = Ordinary
        BY <3>2, <3>3 DEF Ordinary, Active, Queued
      <3> QED BY <3>4
    <2>5. CASE KickAll \/ DestroyWorld
      BY <2>5 DEF KickAll, DestroyWorld, Stopping
    <2>6. CASE UNCHANGED <<m_sessions, m_QueuedPlayer, pass>>
      <3>1. Ordinary' = Ordinary
        BY <2>6 DEF Ordinary, Active, Queued, InWorld
      <3> QED BY <3>1
    <2> QED BY <1>2, <2>2, <2>3, <2>4, <2>5, <2>6
            DEF Next, CloseSocket, BeginUpdateSessions, BeginWalk, UpdateSession,
                EndUpdateSessions, SetPlayerAmountLimit, Tick, Terminated, vars, session, world
  <1>3. J => LimitRespected
    BY DEF LimitRespected, Ordinary
  <1>4. Spec => []WorkConserving
    BY NoIdleSlot
  <1> HIDE DEF J
  <1> QED BY <1>1, <1>2, <1>3, <1>4, InitInv, NextInv, PTL DEF Spec
=============================================================================
