----------------------------- MODULE LoginQueue -----------------------------
(***************************************************************************)
(* Admission of client sessions by the World: game/World/World.cpp.        *)
(*                                                                         *)
(* A network thread authenticates a client, allocates a WorldSession and   *)
(* hands it over through addSessQueue.  The world thread drains that queue *)
(* at the start of World::UpdateSessions, admits each session or puts it   *)
(* at the end of m_QueuedPlayer when the player limit is reached, and then *)
(* updates every session, deleting the ones whose socket is gone.  Each    *)
(* deletion may let the head of the waiting queue in.                      *)
(*                                                                         *)
(* Sessions are heap addresses: a deleted one may be allocated again, and  *)
(* the queue holds raw pointers, so a queue entry that outlives its        *)
(* session is a dangling pointer.                                          *)
(***************************************************************************)
EXTENDS Integers, FiniteSets, SequencesExt

CONSTANTS
    Accounts,       \* account ids
    Sessions,       \* addresses of WorldSession objects
    NoSession,      \* the null pointer
    SkipQueue,      \* accounts with RBAC_PERM_SKIP_QUEUE
    Limits,         \* values the player limit may take; 0 is no limit
    Tolerance,      \* CONFIG_INTERVAL_DISCONNECT_TOLERANCE, in seconds
    MaxLogins,      \* bound on the number of logins of a behaviour
    MaxClock        \* bound on the wall clock

ASSUME ConstantsAssumption ==
    /\ NoSession \notin Sessions
    /\ IsFiniteSet(Accounts) /\ Accounts # {}
    /\ SkipQueue \subseteq Accounts
    /\ Limits \subseteq Nat /\ Limits # {}
    /\ Tolerance \in Nat /\ MaxLogins \in Nat /\ MaxClock \in Nat

Never == -1         \* no entry in m_disconnects

VARIABLES
    addSessQueue,   \* sessions handed over by the network threads
    m_sessions,     \* account -> its session in the world
    m_QueuedPlayer, \* the waiting queue, head first
    m_playerLimit,
    m_disconnects,  \* account -> time of its last disconnection
    alive,          \* sessions allocated and not deleted
    account,        \* WorldSession::_accountId
    m_inQueue,      \* WorldSession::m_inQueue
    loading,        \* WorldSession::m_playerLoading
    closed,         \* WorldSocket::IsClosed() of the session's socket
    told,           \* the queue position last sent to the client; 0 is none
    phase,          \* where the world thread is
    pending,        \* accounts UpdateSessions has not visited yet
    logins,         \* logins so far
    now,            \* time(NULL)
    pass            \* history: what let the session past a full server

session == <<alive, account, m_inQueue, loading, closed, told>>
world   == <<addSessQueue, m_sessions, m_QueuedPlayer, m_playerLimit, m_disconnects>>
vars    == <<session, world, phase, pending, logins, now, pass>>

Phases == {"idle", "adding", "updating", "kicked", "lastAdding", "lastUpdating", "stopped"}

Adding   == phase \in {"adding", "lastAdding"}
Updating == phase \in {"updating", "lastUpdating"}
Stopping == phase \in {"kicked", "lastAdding", "lastUpdating", "stopped"}

-----------------------------------------------------------------------------
(* Session counts: World.h *)

InWorld == {a \in Accounts : m_sessions[a] # NoSession}
WorldSessions == {m_sessions[a] : a \in InWorld}
GetActiveAndQueuedSessionCount == Cardinality(InWorld)
GetActiveSessionCount == GetActiveAndQueuedSessionCount - Len(m_QueuedPlayer)

(* 1-based position of the first entry for s, 0 if s is not queued *)
GetQueuePos(q, s) ==
    IF Contains(q, s)
    THEN CHOOSE i \in 1..Len(q) : q[i] = s /\ \A j \in 1..(i - 1) : q[j] # s
    ELSE 0

(* difftime(end, beginning) is end - beginning, so the entry's age enters   *)
(* with a minus sign: an entry in the past always passes the test.          *)
HasRecentlyDisconnected(a) ==
    /\ Tolerance > 0
    /\ m_disconnects[a] # Never
    /\ m_disconnects[a] - now < Tolerance

-----------------------------------------------------------------------------
(* The part of the state the queue functions work on *)
QueueState == [queue |-> m_QueuedPlayer, inQueue |-> m_inQueue, told |-> told,
               found |-> FALSE]

(* Mutant: the player limit may be exceeded by one. *)
MayAdmit_OffByOne(count) == m_playerLimit = 0 \/ count <= m_playerLimit

(* May the head of the queue be accepted with `count' active sessions? *)
MayAdmit(count) == m_playerLimit = 0 \/ count < m_playerLimit

(* Mutant: a leaving active session is still counted. *)
CountWithout_NoDecrement(active, found) == active

(* Active sessions without the one that leaves; `unsigned', so no -1. *)
CountWithout(active, found) == IF ~found /\ active # 0 THEN active - 1 ELSE active

(* Mutant: iter and position are not reset after the head was accepted. *)
FirstToUpdate_NoReset(popped, pos, end) == IF pos # 0 THEN pos ELSE end

(* First queue position whose client is sent its new position *)
FirstToUpdate(popped, pos, end) == IF popped THEN 1 ELSE IF pos # 0 THEN pos ELSE end

(* total is m_sessions.size() at the time of the call. *)
RemoveQueuedPlayer(st, total, s) ==
    LET pos    == GetQueuePos(st.queue, s)
        found  == pos # 0
        rest   == IF found THEN RemoveAt(st.queue, pos) ELSE st.queue
        popped == MayAdmit(CountWithout(total - Len(st.queue), found)) /\ rest # <<>>
        queue  == IF popped THEN Tail(rest) ELSE rest
        first  == FirstToUpdate(popped, pos, Len(queue) + 1)
        Left(x)   == (found /\ x = s) \/ (popped /\ x = Head(rest))
        Resent(x) == \E i \in first..Len(queue) : queue[i] = x
    IN  [queue   |-> queue,
         inQueue |-> [x \in Sessions |-> ~Left(x) /\ st.inQueue[x]],
         told    |-> [x \in Sessions |->
                        CASE Left(x)   -> 0
                          [] Resent(x) -> GetQueuePos(queue, x)
                          [] OTHER     -> st.told[x]],
         found   |-> found]

(* Mutant: the session goes to the front of the queue. *)
AddQueuedPlayer_Front(st, s) ==
    [st EXCEPT !.queue = <<s>> \o @, !.inQueue[s] = TRUE, !.told[s] = 1]

(* Mutant: SetInQueue(true) is forgotten. *)
AddQueuedPlayer_NoFlag(st, s) ==
    [st EXCEPT !.queue = Append(@, s), !.told[s] = Len(st.queue) + 1]

AddQueuedPlayer(st, s) ==
    [queue   |-> Append(st.queue, s),
     inQueue |-> [st.inQueue EXCEPT ![s] = TRUE],
     told    |-> [st.told EXCEPT ![s] = Len(st.queue) + 1],
     found   |-> st.found]

SetQueueState(st) ==
    /\ m_QueuedPlayer' = st.queue
    /\ m_inQueue' = st.inQueue
    /\ told' = st.told

-----------------------------------------------------------------------------
Init ==
    /\ addSessQueue = <<>>
    /\ m_sessions = [a \in Accounts |-> NoSession]
    /\ m_QueuedPlayer = <<>>
    /\ m_playerLimit \in Limits
    /\ m_disconnects = [a \in Accounts |-> Never]
    /\ alive = {}
    /\ account = [s \in Sessions |-> CHOOSE a \in Accounts : TRUE]
    /\ m_inQueue = [s \in Sessions |-> FALSE]
    /\ loading = [s \in Sessions |-> FALSE]
    /\ closed = [s \in Sessions |-> FALSE]
    /\ told = [s \in Sessions |-> 0]
    /\ phase = "idle"
    /\ pending = {}
    /\ logins = 0
    /\ now = 0
    /\ pass = [s \in Sessions |-> "queue"]

(* Network thread: HandleAuthSession has authenticated account a; the       *)
(* constructor initialises the object and World::AddSession queues it.      *)
AddSession(s, a) ==
    /\ s \notin alive
    /\ logins < MaxLogins
    /\ phase # "stopped"
    /\ logins' = logins + 1
    /\ alive' = alive \cup {s}
    /\ account' = [account EXCEPT ![s] = a]
    /\ m_inQueue' = [m_inQueue EXCEPT ![s] = FALSE]
    /\ loading' = [loading EXCEPT ![s] = FALSE]
    /\ closed' = [closed EXCEPT ![s] = FALSE]
    /\ told' = [told EXCEPT ![s] = 0]
    /\ pass' = [pass EXCEPT ![s] = "queue"]
    /\ addSessQueue' = Append(addSessQueue, s)
    /\ UNCHANGED <<m_sessions, m_QueuedPlayer, m_playerLimit, m_disconnects,
                   phase, pending, now>>

(* The client's connection is closed: by the peer (network thread) or by    *)
(* WorldSession::KickPlayer from a command, a ban or KickAllLess.           *)
CloseSocket(s) ==
    /\ s \in alive
    /\ ~closed[s]
    /\ closed' = [closed EXCEPT ![s] = TRUE]
    /\ UNCHANGED <<alive, account, m_inQueue, loading, told, world, phase,
                   pending, logins, now, pass>>

(* World thread: UpdateSessions begins with the queue of new sessions. *)
BeginUpdateSessions ==
    /\ phase \in {"idle", "kicked"}
    /\ phase' = IF phase = "idle" THEN "adding" ELSE "lastAdding"
    /\ UNCHANGED <<session, world, pending, logins, now, pass>>

(* AddSession_, first part: an older session of the account is still        *)
(* loading its character, so the new session is kicked and deleted.         *)
RefuseSession(s) ==
    /\ alive' = alive \ {s}
    /\ closed' = [closed EXCEPT ![s] = TRUE]
    /\ UNCHANGED <<account, m_inQueue, loading, told, m_sessions, m_QueuedPlayer,
                   m_playerLimit, m_disconnects, pass>>

(* Which exemption lets an account past the limit; a disconnection counts   *)
(* as recent for Tolerance seconds.                                         *)
Exemption(a) ==
    CASE a \in SkipQueue -> "skip"
      [] a \notin SkipQueue /\ now - m_disconnects[a] < Tolerance -> "recent"
      [] OTHER -> "expired"

(* Mutant: the replaced session stays in the queue. *)
Unqueue_Forgotten(total, old) == QueueState

Unqueue(total, old) == RemoveQueuedPlayer(QueueState, total, old)

(* Mutant: the limit is compared for equality. *)
LimitReached_Equal(count) == m_playerLimit > 0 /\ count = m_playerLimit

(* Is there no room for one more next to `count' sessions, waiting ones      *)
(* included?                                                                 *)
LimitReached(count) == m_playerLimit > 0 /\ count >= m_playerLimit

(* AddSession_, second part: the older session, if any, is kicked, taken    *)
(* off the queue and deleted; s takes its place and is admitted or queued.  *)
InstallSession(s) ==
    LET a      == account[s]
        old    == m_sessions[a]
        hadOld == old # NoSession
        before == GetActiveAndQueuedSessionCount
        total  == IF hadOld THEN before ELSE before + 1
    IN  /\ m_sessions' = [m_sessions EXCEPT ![a] = s]
        /\ alive' = alive \ {old}
        /\ closed' = [x \in Sessions |-> x = old \/ closed[x]]
        /\ \E dropped \in {IF hadOld THEN Unqueue(before, old) ELSE QueueState} :
             LET count  == IF dropped.found THEN total ELSE total - 1
                 full   == LimitReached(count)
                 exempt == a \in SkipQueue \/ HasRecentlyDisconnected(a)
             IN  /\ SetQueueState(IF full /\ ~exempt THEN AddQueuedPlayer(dropped, s)
                                                     ELSE dropped)
                 /\ pass' = [pass EXCEPT ![s] = IF full /\ exempt THEN Exemption(a)
                                                                  ELSE "queue"]
        /\ UNCHANGED <<account, loading, m_playerLimit, m_disconnects>>

(* May the older session of the account be replaced? *)
RemoveSession(old) == ~(old # NoSession /\ loading[old])

AddSession_ ==
    /\ Adding
    /\ addSessQueue # <<>>
    /\ addSessQueue' = Tail(addSessQueue)
    /\ LET s   == Head(addSessQueue)
           old == m_sessions[account[s]]
       IN  IF RemoveSession(old) THEN InstallSession(s) ELSE RefuseSession(s)
    /\ UNCHANGED <<phase, pending, logins, now>>

(* Mutant: sessions waiting in the queue are not updated. *)
SessionsToUpdate_NotQueued == {a \in InWorld : ~m_inQueue[m_sessions[a]]}

SessionsToUpdate == InWorld

(* addSessQueue.next() has returned false: the walk over m_sessions begins. *)
BeginWalk ==
    /\ Adding
    /\ addSessQueue = <<>>
    /\ phase' = IF phase = "adding" THEN "updating" ELSE "lastUpdating"
    /\ pending' = SessionsToUpdate
    /\ UNCHANGED <<session, world, logins, now, pass>>

(* WorldSession::Update returns true.  A session that has passed the queue  *)
(* may have processed CMSG_PLAYER_LOGIN or the callback of its query; the   *)
(* opcode is ignored while m_inQueue.                                       *)
UpdateSession(a) ==
    LET s == m_sessions[a] IN
    /\ Updating
    /\ a \in pending
    /\ ~closed[s]
    /\ pending' = pending \ {a}
    /\ \E b \in IF m_inQueue[s] THEN {loading[s]} ELSE BOOLEAN :
            loading' = [loading EXCEPT ![s] = b]
    /\ UNCHANGED <<alive, account, m_inQueue, closed, told, world, phase,
                   logins, now, pass>>

DisconnectTime == now

(* WorldSession::Update returns false because the socket is closed, before  *)
(* or during the call: the session is dropped from the queue (two calls, as *)
(* in the code), from the map, and deleted.                                 *)
RemoveDeadSession(a) ==
    LET s     == m_sessions[a]
        total == GetActiveAndQueuedSessionCount
    IN  /\ Updating
        /\ a \in pending
        /\ closed[s]
        /\ pending' = pending \ {a}
        /\ \E once \in {RemoveQueuedPlayer(QueueState, total, s)} :
             /\ m_disconnects' = IF ~once.found /\ Tolerance > 0
                                 THEN [m_disconnects EXCEPT ![a] = DisconnectTime]
                                 ELSE m_disconnects
             /\ \E twice \in {RemoveQueuedPlayer(once, total, s)} : SetQueueState(twice)
        /\ m_sessions' = [m_sessions EXCEPT ![a] = NoSession]
        /\ alive' = alive \ {s}
        /\ UNCHANGED <<account, loading, closed, addSessQueue, m_playerLimit,
                       phase, logins, now, pass>>

EndUpdateSessions ==
    /\ Updating
    /\ pending = {}
    /\ phase' = IF phase = "updating" THEN "idle" ELSE "stopped"
    /\ UNCHANGED <<session, world, pending, logins, now, pass>>

(* .server plimit, from the console between two updates or from a chat      *)
(* handler inside one.                                                      *)
SetPlayerAmountLimit(l) ==
    /\ phase \in {"idle", "updating"}
    /\ l # m_playerLimit
    /\ m_playerLimit' = l
    /\ UNCHANGED <<session, addSessQueue, m_sessions, m_QueuedPlayer, m_disconnects,
                   phase, pending, logins, now, pass>>

(* The world loop has ended: WorldRunnable::run kicks everyone and then     *)
(* calls UpdateSessions once more.  The m_inQueue flags are not reset.      *)
KickAll ==
    /\ phase = "idle"
    /\ phase' = "kicked"
    /\ m_QueuedPlayer' = <<>>
    /\ closed' = [s \in Sessions |-> closed[s] \/ s \in WorldSessions]
    /\ UNCHANGED <<alive, account, m_inQueue, loading, told, addSessQueue, m_sessions,
                   m_playerLimit, m_disconnects, pending, logins, now, pass>>

(* World::~World: what is left in m_sessions is deleted without looking at  *)
(* the queue, which goes with the World object; sessions still in           *)
(* addSessQueue are leaked.                                                 *)
DestroyWorld ==
    /\ phase = "stopped"
    /\ InWorld # {}
    /\ alive' = alive \ WorldSessions
    /\ m_sessions' = [a \in Accounts |-> NoSession]
    /\ m_QueuedPlayer' = <<>>
    /\ UNCHANGED <<account, m_inQueue, loading, closed, told, addSessQueue,
                   m_playerLimit, m_disconnects, phase, pending,
                   logins, now, pass>>

Tick ==
    /\ now < MaxClock
    /\ now' = now + 1
    /\ UNCHANGED <<session, world, phase, pending, logins, pass>>

Terminated == phase = "stopped" /\ InWorld = {} /\ UNCHANGED vars

Next ==
    \/ \E s \in Sessions, a \in Accounts : AddSession(s, a)
    \/ \E s \in Sessions : CloseSocket(s)
    \/ BeginUpdateSessions
    \/ AddSession_
    \/ BeginWalk
    \/ \E a \in Accounts : UpdateSession(a)
    \/ \E a \in Accounts : RemoveDeadSession(a)
    \/ EndUpdateSessions
    \/ \E l \in Limits : SetPlayerAmountLimit(l)
    \/ KickAll
    \/ DestroyWorld
    \/ Tick
    \/ Terminated

WorldThread ==
    \/ BeginUpdateSessions
    \/ AddSession_
    \/ BeginWalk
    \/ \E a \in Accounts : UpdateSession(a) \/ RemoveDeadSession(a)
    \/ EndUpdateSessions
    \/ DestroyWorld

Spec == Init /\ [][Next]_vars

FairSpec == Spec /\ WF_vars(WorldThread)
-----------------------------------------------------------------------------
(* Properties *)

Entries(q)  == {q[i] : i \in 1..Len(q)}
Distinct(q) == \A i, j \in 1..Len(q) : q[i] = q[j] => i = j

Queued(s) == s \in Entries(m_QueuedPlayer)
Active    == {a \in InWorld : ~Queued(m_sessions[a])}

(* Every variable has its type; disconnection times are never in the future. *)
TypeOK ==
    /\ addSessQueue \in Seq(Sessions)
    /\ m_sessions \in [Accounts -> Sessions \cup {NoSession}]
    /\ m_QueuedPlayer \in Seq(Sessions)
    /\ m_playerLimit \in Limits
    /\ m_disconnects \in [Accounts -> {Never} \cup 0..now]
    /\ alive \subseteq Sessions
    /\ account \in [Sessions -> Accounts]
    /\ m_inQueue \in [Sessions -> BOOLEAN]
    /\ loading \in [Sessions -> BOOLEAN]
    /\ closed \in [Sessions -> BOOLEAN]
    /\ told \in [Sessions -> Nat]
    /\ phase \in Phases
    /\ pending \subseteq Accounts
    /\ logins \in Nat
    /\ now \in Nat
    /\ pass \in [Sessions -> {"queue", "skip", "recent", "expired"}]

(* No dangling pointer: a session object is reachable through exactly one of *)
(* addSessQueue and m_sessions (under its own account), it is then still     *)
(* allocated, and the waiting queue points only to sessions in m_sessions,   *)
(* each at most once (World.cpp AddSession_, UpdateSessions).                *)
NoDanglingSession ==
    /\ Distinct(addSessQueue)
    /\ Distinct(m_QueuedPlayer)
    /\ Entries(addSessQueue) \subseteq alive \ WorldSessions
    /\ Entries(m_QueuedPlayer) \subseteq WorldSessions
    /\ \A a \in InWorld : m_sessions[a] \in alive /\ account[m_sessions[a]] = a
    /\ pending \subseteq InWorld

(* A session that waits has m_inQueue set, so its STATUS_AUTHED opcodes are  *)
(* ignored; one that does not wait has it clear, unless KickAll dropped the  *)
(* queue, and then its socket is closed.                                     *)
QueueFlag ==
    \A a \in InWorld :
        LET s == m_sessions[a] IN
        /\ Queued(s) => m_inQueue[s]
        /\ m_inQueue[s] => Queued(s) \/ (Stopping /\ closed[s])

(* The last position sent to a waiting client is its position in the queue, *)
(* whatever left, was replaced or was accepted before it.                    *)
PositionsAccurate ==
    \A i \in DOMAIN m_QueuedPlayer : told[m_QueuedPlayer[i]] = i

(* Nobody waits while there is room: with an unchanged player limit the      *)
(* queue is empty unless the limit is reached.                               *)
WorkConserving ==
    m_QueuedPlayer # <<>> => m_playerLimit > 0 /\ GetActiveSessionCount >= m_playerLimit

(* With an unchanged limit, the active sessions that were admitted without   *)
(* an exemption never exceed it.                                             *)
LimitRespected ==
    (m_playerLimit > 0 /\ ~Stopping) =>
        Cardinality({a \in Active : pass[m_sessions[a]] = "queue"}) <= m_playerLimit

(* worldserver.conf.dist: "Maximum number of players in the world", where an *)
(* account is let in past it only if privileged or recently disconnected.    *)
DocumentedLimit ==
    (m_playerLimit > 0 /\ ~Stopping) =>
        Cardinality({a \in Active : pass[m_sessions[a]] \in {"queue", "expired"}})
            <= m_playerLimit

(* The queue is served first come, first served: while a session waits,      *)
(* those behind it stay behind it unless they leave the world, and newcomers *)
(* line up behind it.                                                        *)
FirstComeFirstServed ==
    [][\A i \in DOMAIN m_QueuedPlayer :
         LET x      == m_QueuedPlayer[i]
             Pos(y) == GetQueuePos(m_QueuedPlayer', y)
             behind == {m_QueuedPlayer[j] : j \in (i + 1)..Len(m_QueuedPlayer)}
         IN  Pos(x) # 0 =>
               /\ \A y \in behind : Pos(x) < Pos(y) \/ y \notin alive' \/ closed[y]
               /\ \A y \in Entries(m_QueuedPlayer') \ Entries(m_QueuedPlayer) : Pos(x) < Pos(y)]_vars

(* With an unchanged limit a newcomer is never admitted while others wait,   *)
(* unless its account is privileged or has itself been disconnected.         *)
NoOvertaking ==
    [][\A a \in Accounts :
         (/\ m_sessions'[a] \notin {NoSession, m_sessions[a]}
          /\ GetQueuePos(m_QueuedPlayer', m_sessions'[a]) = 0
          /\ a \notin SkipQueue
          /\ m_disconnects[a] = Never)
         => m_QueuedPlayer' = <<>>]_vars

(* Once its socket is closed a session leaves the world, queued or not.      *)
ClosedSessionsLeave ==
    \A s \in Sessions : (s \in WorldSessions /\ closed[s]) ~> s \notin WorldSessions
=============================================================================
