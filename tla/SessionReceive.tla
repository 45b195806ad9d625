--------------------------- MODULE SessionReceive ---------------------------
(***************************************************************************)
(* The packets of one client, from the network thread to the handlers:     *)
(* WorldSocket::ProcessIncoming, CloseSocket and handle_close              *)
(* (game/Server/WorldSocket.cpp), WorldSession::Update with its two packet *)
(* filters, LogoutPlayer (game/Server/WorldSession.cpp) and the login of a *)
(* character (game/Handlers/CharacterHandler.cpp).                         *)
(*                                                                         *)
(* Update is called by the world thread (UpdateSessions) and then, if the  *)
(* player is in a map, by the thread that updates the map; the map update  *)
(* barrier keeps the two apart.  A step is one packet.  The network thread *)
(* runs beside both.  Times are left out: a logout timer may have run out, *)
(* or a connection have been idle for too long, at any call of Update.     *)
(***************************************************************************)
EXTENDS Integers, Sequences

(* The opcodes the model tells apart: opcodeTable's status and processing.  *)
(* GUILD_QUERY stands for those that need no character and are sent in the  *)
(* game all the same, WARDEN_DATA is the only thread-safe one of them.      *)
Opcodes == [
    CHAR_ENUM     |-> [status |-> "AUTHED",   processing |-> "THREADUNSAFE"],
    PLAYER_LOGIN  |-> [status |-> "AUTHED",   processing |-> "THREADUNSAFE"],
    GUILD_QUERY   |-> [status |-> "AUTHED",   processing |-> "THREADUNSAFE"],
    WARDEN_DATA   |-> [status |-> "AUTHED",   processing |-> "THREADSAFE"],
    MESSAGECHAT   |-> [status |-> "LOGGEDIN", processing |-> "THREADUNSAFE"],
    LOGOUT_REQUEST |-> [status |-> "LOGGEDIN", processing |-> "THREADUNSAFE"],
    MOVE          |-> [status |-> "LOGGEDIN", processing |-> "THREADSAFE"],
    TIME_SYNC     |-> [status |-> "LOGGEDIN", processing |-> "INPLACE"],
    LOGOUT_CANCEL |-> [status |-> "RECENTLY", processing |-> "THREADUNSAFE"],
    WORLDPORT_ACK |-> [status |-> "TRANSFER", processing |-> "THREADUNSAFE"]]

Status(p) == Opcodes[p.opcode].status

VARIABLES
    closing,        \* WorldSocket::closing_
    m_Session,      \* WorldSocket::m_Session # NULL
    net,            \* network thread: see NetStates
    incoming,       \* packet ProcessIncoming is at
    alive,          \* the WorldSession is allocated
    queued,         \* ... and is in addSessQueue, not yet in m_sessions
    recvQueue,      \* WorldSession::_recvQueue
    player,         \* _player: see Players
    character,      \* the client's login that _player or loginQuery stems from; or 0
    loading,        \* m_playerLoading
    loginQuery,     \* _charLoginCallback: see Queries
    recentlyLogout, \* m_playerRecentlyLogout
    enumAllowed,    \* AntiDOS: is CMSG_CHAR_ENUM allowed?
    logoutTimer,    \* _logoutTime # 0
    updater,        \* who is in Update: see Updaters
    firstDelayed,   \* id of firstDelayedPacket; 0 is NULL
    client,         \* what the client shows: see Screens
    logins,         \* PLAYER_LOGINs the client has sent
    logouts,        \* SMSG_LOGOUT_COMPLETEs on their way to the client
    received,       \* packets so far; the next one's id - 1
    call,           \* history: the last call of a handler
    handled,        \* history: ids of packets whose handler was called
    handledGame,    \* history: those of them that are not AUTHED
    passed          \* history: ids of packets that another one got in front of

socketVars  == <<closing, m_Session, net, incoming>>
playerVars  == <<player, character, loading, loginQuery, recentlyLogout, enumAllowed, logoutTimer>>
updateVars  == <<updater, firstDelayed>>
clientVars  == <<client, logins, logouts, received>>
traceVars   == <<call, handled, handledGame, passed>>
sessionVars == <<socketVars, alive, queued, recvQueue, playerVars, updateVars, clientVars, traceVars>>

NetStates == {"idle", "incoming", "closing", "gone"}
Players   == {"none", "world", "transfer"}
Queries   == {"none", "pending", "ready"}
Updaters  == {"none", "world", "worldEnd", "map"}
Screens   == {"connecting", "characters", "game"}
Packets   == [id : Nat, opcode : DOMAIN Opcodes, login : Nat]
Calls     == [id : Nat, opcode : DOMAIN Opcodes, login : Nat, character : Nat,
              by : Updaters, player : Players]
NoPacket  == [id |-> 0, opcode |-> "MOVE", login |-> 0]
NoCall    == [id |-> 0, opcode |-> "MOVE", login |-> 0, character |-> 0,
              by |-> "map", player |-> "world"]

SessionTypeOK ==
    /\ closing \in BOOLEAN /\ m_Session \in BOOLEAN /\ net \in NetStates
    /\ incoming \in Packets
    /\ alive \in BOOLEAN /\ queued \in BOOLEAN /\ recvQueue \in Seq(Packets)
    /\ player \in Players /\ character \in 0..logins
    /\ loading \in BOOLEAN /\ loginQuery \in Queries
    /\ recentlyLogout \in BOOLEAN /\ enumAllowed \in BOOLEAN /\ logoutTimer \in BOOLEAN
    /\ updater \in Updaters /\ firstDelayed \in 0..received
    /\ client \in Screens /\ logins \in Nat /\ logouts \in Nat
    /\ received \in Nat /\ call \in Calls
    /\ handled \subseteq 1..received /\ handledGame \subseteq handled
    /\ passed \subseteq 1..received

(* A client that is not authenticated yet, at its character list, or in the *)
(* game already.                                                            *)
SessionInit ==
    /\ closing = FALSE /\ net = "idle" /\ incoming = NoPacket
    /\ queued = FALSE /\ recvQueue = <<>>
    /\ \/ player = "none" /\ character = 0 /\ client \in {"connecting", "characters"} /\ logins = 0
       \/ player = "world" /\ character = 1 /\ client = "game" /\ logins = 1
    /\ alive = (client # "connecting") /\ m_Session = alive
    /\ loading = FALSE /\ loginQuery = "none"
    /\ recentlyLogout = FALSE /\ enumAllowed = TRUE /\ logoutTimer = FALSE
    /\ updater = "none" /\ firstDelayed = 0 /\ logouts = 0 /\ received = 0
    /\ call = NoCall /\ handled = {} /\ handledGame = {} /\ passed = {}

-----------------------------------------------------------------------------
(* The client (external): a well-behaved one.  It sends packets about its   *)
(* character from the moment it asks for the login to the moment it is told *)
(* of the logout, and logs in from its character list only.  It sends       *)
(* nothing before AddSession_ has answered it.                              *)

MaySend(opcode) ==
    /\ alive /\ ~queued
    /\ CASE opcode = "CHAR_ENUM"     -> client # "game"
         [] opcode = "PLAYER_LOGIN"  -> client = "characters"
         [] opcode = "WARDEN_DATA"   -> TRUE
         [] opcode = "LOGOUT_CANCEL" -> logins > 0
         [] OTHER -> client = "game"

(* Its character list is sent at the end of a call of Update. *)
ClientSeesCharacters ==
    /\ client = "connecting" /\ alive /\ ~queued /\ updater = "none"
    /\ client' = "characters"
    /\ UNCHANGED <<socketVars, alive, queued, recvQueue, playerVars, updateVars, logins, logouts,
                   received, traceVars>>

ClientSeesLogout ==
    /\ logouts > 0
    /\ logouts' = logouts - 1 /\ client' = "characters"
    /\ UNCHANGED <<socketVars, alive, queued, recvQueue, playerVars, updateVars, logins, received,
                   traceVars>>

-----------------------------------------------------------------------------
(* The network thread *)

(* CMSG_AUTH_SESSION: a new session is handed over to the world thread. *)
HandleAuthSession ==
    /\ net = "idle" /\ ~closing /\ ~m_Session
    /\ m_Session' = TRUE /\ alive' = TRUE /\ queued' = TRUE
    /\ UNCHANGED <<closing, net, incoming, recvQueue, playerVars, updateVars, clientVars, traceVars>>

(* handle_input has a whole packet: ProcessIncoming looks at closing_.  Its *)
(* unlocked use of m_Session for the trace log (WorldSocket.cpp:676) is     *)
(* left out.                                                                *)
ReceivePacket(opcode) ==
    /\ net = "idle" /\ ~closing /\ MaySend(opcode)
    /\ received' = received + 1
    /\ logins' = IF opcode = "PLAYER_LOGIN" THEN logins + 1 ELSE logins
    /\ client' = IF opcode = "PLAYER_LOGIN" THEN "game" ELSE client
    /\ incoming' = [id |-> received', opcode |-> opcode, login |-> logins']
    /\ net' = "incoming"
    /\ UNCHANGED <<closing, m_Session, alive, queued, recvQueue, playerVars, updateVars, logouts,
                   traceVars>>

(* Packets this call of Update has still to put back: a packet that arrives *)
(* now will be in front of them.                                            *)
StillToPutBack ==
    {recvQueue[i].id : i \in {i \in 1..Len(recvQueue) :
        /\ firstDelayed # 0 /\ Status(recvQueue[i]) = "LOGGEDIN"
        /\ \A j \in 1..i : recvQueue[j].id # firstDelayed}}

(* ... and goes on under m_SessionLock. *)
QueuePacket ==
    /\ net = "incoming" /\ m_Session
    /\ recvQueue' = Append(recvQueue, incoming)
    /\ passed' = passed \cup StillToPutBack
    /\ net' = "idle" /\ incoming' = NoPacket
    /\ UNCHANGED <<closing, m_Session, alive, queued, playerVars, updateVars, clientVars, call,
                   handled, handledGame>>

(* Kicked in between: ProcessIncoming returns -1 and the reactor closes. *)
RefusePacket ==
    /\ net = "incoming" /\ ~m_Session
    /\ closing' = TRUE /\ net' = "closing" /\ incoming' = NoPacket
    /\ UNCHANGED <<m_Session, alive, queued, recvQueue, playerVars, updateVars, clientVars, traceVars>>

(* handle_close, first critical section: the peer has gone, or closing_ is  *)
(* set and handle_input or Update returns -1.                               *)
HandleClose ==
    /\ net = "idle"
    /\ closing' = TRUE /\ net' = "closing"
    /\ UNCHANGED <<m_Session, incoming, alive, queued, recvQueue, playerVars, updateVars, clientVars,
                   traceVars>>

(* handle_close, second critical section. *)
HandleCloseSession ==
    /\ net = "closing"
    /\ m_Session' = FALSE /\ net' = "gone"
    /\ UNCHANGED <<closing, incoming, alive, queued, recvQueue, playerVars, updateVars, clientVars,
                   traceVars>>

(* Mutant: the socket keeps its pointer to the session. *)
CloseSocket_KeepsSession == closing' = TRUE /\ UNCHANGED m_Session

(* WorldSocket::CloseSocket, called by the thread that is in Update. *)
CloseSocket ==
    closing' = TRUE /\ m_Session' = IF closing THEN m_Session ELSE FALSE

KeepSocket == UNCHANGED <<closing, m_Session>>

(* The login query holder has been executed by a database worker. *)
LoginQueryDone ==
    /\ loginQuery = "pending"
    /\ loginQuery' = "ready"
    /\ UNCHANGED <<socketVars, alive, queued, recvQueue, player, character, loading, recentlyLogout,
                   enumAllowed, logoutTimer, updateVars, clientVars, traceVars>>

-----------------------------------------------------------------------------
(* Packet filters *)

(* Mutant: thread-safe packets are left to the map, in whatever state the   *)
(* player is.                                                               *)
WorldSessionFilter_UnsafeOnly(p) == Opcodes[p.opcode].processing # "THREADSAFE"

WorldSessionFilter(p) ==
    Opcodes[p.opcode].processing \in {"INPLACE", "THREADUNSAFE"} \/ player # "world"

(* Mutant: the map thread takes whatever comes. *)
MapSessionFilter_All(p) == TRUE

MapSessionFilter(p) ==
    \/ Opcodes[p.opcode].processing = "INPLACE"
    \/ Opcodes[p.opcode].processing = "THREADSAFE" /\ player = "world"

Filter(p) == IF updater = "map" THEN MapSessionFilter(p) ELSE WorldSessionFilter(p)

-----------------------------------------------------------------------------
(* WorldSession::Update, one packet at a time *)

(* Mutant: the loop does not look for the first delayed packet. *)
BeforeDelayed_Unchecked(p) == TRUE

BeforeDelayed(p) == p.id # firstDelayed

(* The condition of the loop: is there a packet for this call of Update? *)
HasNext ==
    /\ ~closing /\ recvQueue # <<>>
    /\ BeforeDelayed(Head(recvQueue)) /\ Filter(Head(recvQueue))

InLoop == updater \in {"world", "map"}

(* Mutant: the loop ends with the first packet that is put back. *)
DelayPacket_Break(p) ==
    /\ recvQueue' = Append(Tail(recvQueue), p)
    /\ firstDelayed' = Head(recvQueue').id
    /\ UNCHANGED updater

DelayPacket(p) ==
    /\ recvQueue' = Append(Tail(recvQueue), p)
    /\ firstDelayed' = IF firstDelayed = 0 THEN p.id ELSE firstDelayed
    /\ UNCHANGED updater

(* STATUS_LOGGEDIN before the login has come through: later. *)
PutBack ==
    LET p == Head(recvQueue) IN
    /\ InLoop /\ HasNext
    /\ Status(p) = "LOGGEDIN" /\ player = "none" /\ ~recentlyLogout
    /\ DelayPacket(p)
    /\ UNCHANGED <<socketVars, alive, queued, playerVars, clientVars, traceVars>>

(* Packets of a state the session is not, or no longer, in. *)
Unexpected(p) ==
    CASE Status(p) = "LOGGEDIN" -> player = "transfer" \/ (player = "none" /\ recentlyLogout)
      [] Status(p) = "RECENTLY" -> player = "none" /\ ~recentlyLogout
      [] Status(p) = "TRANSFER" -> player # "transfer"
      [] Status(p) = "AUTHED"   -> FALSE

Expected(p) ==
    CASE Status(p) = "LOGGEDIN" -> player = "world"
      [] Status(p) = "RECENTLY" -> player # "none" \/ recentlyLogout
      [] Status(p) = "TRANSFER" -> player = "transfer"
      [] Status(p) = "AUTHED"   -> TRUE

IgnorePacket ==
    /\ InLoop /\ HasNext /\ Unexpected(Head(recvQueue))
    /\ recvQueue' = Tail(recvQueue)
    /\ UNCHANGED <<socketVars, alive, queued, playerVars, updateVars, clientVars, traceVars>>

(* AntiDOS: CHAR_ENUM is allowed once until the list may have changed.      *)
(* Unless the policy is only to log it, the client is kicked.               *)
RefuseOpcode ==
    /\ InLoop /\ HasNext /\ Head(recvQueue).opcode = "CHAR_ENUM" /\ ~enumAllowed
    /\ recvQueue' = Tail(recvQueue)
    /\ CloseSocket
    /\ UNCHANGED <<net, incoming, alive, queued, playerVars, updateVars, clientVars, traceVars>>

(* Mutant: m_playerRecentlyLogout is not set. *)
LogoutPlayer_NotRecent ==
    /\ player' = "none" /\ character' = 0 /\ logoutTimer' = FALSE
    /\ enumAllowed' = TRUE /\ logouts' = logouts + 1
    /\ UNCHANGED <<loading, loginQuery, recentlyLogout>>

(* Finishes a far teleport, saves and removes the player, and tells the     *)
(* client.                                                                  *)
LogoutPlayer ==
    /\ player' = "none" /\ character' = 0 /\ logoutTimer' = FALSE
    /\ recentlyLogout' = TRUE /\ enumAllowed' = TRUE
    /\ logouts' = logouts + 1
    /\ UNCHANGED <<loading, loginQuery>>

Stay == UNCHANGED <<playerVars, logouts>>

MoveTo(where) ==
    /\ player' = where
    /\ UNCHANGED <<character, loading, loginQuery, recentlyLogout, enumAllowed, logoutTimer, logouts>>

SetLogoutTimer(on) ==
    /\ logoutTimer' = on
    /\ UNCHANGED <<player, character, loading, loginQuery, recentlyLogout, enumAllowed, logouts>>

(* Many handlers, here the one of a chat command, may end in a far teleport *)
(* (Player::TeleportTo).                                                    *)
MayTeleportFar == \E where \in {"world", "transfer"} : MoveTo(where)

(* Refused, at once, or after twenty seconds. *)
HandleLogoutRequest == LogoutPlayer \/ \E on \in BOOLEAN : SetLogoutTimer(on)

HandleLogoutCancel == IF player = "none" THEN Stay ELSE SetLogoutTimer(FALSE)

(* To the destination, or home by another far teleport, or out of the game  *)
(* if the destination is invalid.                                           *)
HandleMoveWorldportAck == LogoutPlayer \/ \E where \in {"world", "transfer"} : MoveTo(where)

HandleCharEnum ==
    /\ recentlyLogout' = FALSE /\ enumAllowed' = FALSE
    /\ UNCHANGED <<player, character, loading, loginQuery, logoutTimer, logouts>>

LoginRefused == loading \/ player # "none"

(* The holder is delayed, or cannot be set up; a login that is refused has  *)
(* no effect.                                                               *)
HandlePlayerLogin(login) ==
    \/ LoginRefused /\ Stay
    \/ /\ ~LoginRefused
       /\ loading' = TRUE /\ loginQuery' = "pending" /\ character' = login
       /\ UNCHANGED <<player, recentlyLogout, enumAllowed, logoutTimer, logouts>>
    \/ ~LoginRefused /\ Stay

Handler(p) ==
    CASE p.opcode = "CHAR_ENUM"      -> HandleCharEnum
      [] p.opcode = "PLAYER_LOGIN"   -> HandlePlayerLogin(p.login)
      [] p.opcode = "MESSAGECHAT"    -> MayTeleportFar
      [] p.opcode = "LOGOUT_REQUEST" -> HandleLogoutRequest
      [] p.opcode = "LOGOUT_CANCEL"  -> HandleLogoutCancel
      [] p.opcode = "WORLDPORT_ACK"  -> HandleMoveWorldportAck
      [] OTHER                     -> Stay

RecordCall(p) ==
    /\ call' = [id |-> p.id, opcode |-> p.opcode, login |-> p.login,
                character |-> character, by |-> updater, player |-> player]
    /\ handled' = handled \cup {p.id}
    /\ handledGame' = IF Status(p) = "AUTHED" THEN handledGame ELSE handledGame \cup {p.id}
    /\ UNCHANGED passed

CallHandler ==
    LET p == Head(recvQueue) IN
    /\ InLoop /\ HasNext /\ Expected(p)
    /\ recvQueue' = Tail(recvQueue)
    /\ Handler(p) /\ RecordCall(p)
    /\ UNCHANGED <<socketVars, alive, queued, updateVars, client, logins, received>>

(* PLAYER_LOGIN with a character of another account: m_playerLoading stays. *)
KickAtLogin ==
    /\ InLoop /\ HasNext /\ Head(recvQueue).opcode = "PLAYER_LOGIN" /\ ~LoginRefused
    /\ recvQueue' = Tail(recvQueue)
    /\ loading' = TRUE /\ CloseSocket /\ RecordCall(Head(recvQueue))
    /\ UNCHANGED <<net, incoming, alive, queued, player, character, loginQuery, recentlyLogout,
                   enumAllowed, logoutTimer, updateVars, clientVars>>

(* WARDEN_DATA with a wrong answer: Penalty. *)
KickByWarden ==
    /\ InLoop /\ HasNext /\ Head(recvQueue).opcode = "WARDEN_DATA"
    /\ recvQueue' = Tail(recvQueue)
    /\ CloseSocket /\ RecordCall(Head(recvQueue))
    /\ UNCHANGED <<net, incoming, alive, queued, playerVars, updateVars, clientVars>>

-----------------------------------------------------------------------------
(* WorldSession::Update, before and after the loop *)

(* IsConnectionIdle, or not.  The world thread has emptied addSessQueue     *)
(* before; a map's thread has a session that is not in it.                  *)
BeginUpdate(who) ==
    /\ updater = "none" /\ alive
    /\ updater' = who /\ firstDelayed' = 0
    /\ queued' = FALSE
    /\ CloseSocket \/ KeepSocket
    /\ UNCHANGED <<net, incoming, alive, recvQueue, playerVars, clientVars, traceVars>>

(* HandlePlayerLogin: the character is in the world, or, its map refusing   *)
(* it, on its way to another one.                                           *)
LoadCharacter ==
    /\ player' \in {"world", "transfer"}
    /\ loading' = FALSE /\ loginQuery' = "none"
    /\ KeepSocket /\ UNCHANGED <<character, recentlyLogout, enumAllowed, logoutTimer>>

LoadFails ==
    /\ CloseSocket
    /\ character' = 0 /\ loading' = FALSE /\ loginQuery' = "none"
    /\ UNCHANGED <<player, recentlyLogout, enumAllowed, logoutTimer>>

ProcessQueryCallbacks ==
    /\ updater = "world" /\ ~HasNext
    /\ updater' = "worldEnd" /\ firstDelayed' = 0
    /\ IF loginQuery = "ready" THEN LoadCharacter \/ LoadFails
                               ELSE KeepSocket /\ UNCHANGED playerVars
    /\ UNCHANGED <<net, incoming, alive, queued, recvQueue, clientVars, traceVars>>

(* Update returns false because the socket is closed: UpdateSessions        *)
(* deletes the session, whose destructor logs the player out and empties    *)
(* the queue.                                                               *)
DeleteSession ==
    /\ alive' = FALSE /\ recvQueue' = <<>>
    /\ player' = "none" /\ character' = 0 /\ loading' = FALSE /\ loginQuery' = "none"
    /\ recentlyLogout' = FALSE /\ enumAllowed' = TRUE /\ logoutTimer' = FALSE
    /\ UNCHANGED logouts

EndUpdate ==
    /\ updater = "worldEnd"
    /\ updater' = "none" /\ UNCHANGED firstDelayed
    /\ \/ closing /\ DeleteSession
       \/ /\ ~closing
          /\ Stay \/ (logoutTimer /\ ~loading /\ LogoutPlayer)
          /\ UNCHANGED <<alive, recvQueue>>
    /\ UNCHANGED <<socketVars, queued, client, logins, received, traceVars>>

(* Callbacks run here as well, but not the one of the login: there is a     *)
(* player.  The rest of Map::Update may send it to another map.             *)
EndMapUpdate ==
    /\ updater = "map" /\ ~HasNext
    /\ updater' = "none" /\ firstDelayed' = 0
    /\ \E where \in {"world", "transfer"} : MoveTo(where)
    /\ UNCHANGED <<socketVars, alive, queued, recvQueue, client, logins, received, traceVars>>

(* What the network thread does without being asked by the client. *)
NetworkStep == QueuePacket \/ RefusePacket \/ HandleCloseSession

UpdateStep ==
    \/ PutBack \/ IgnorePacket \/ RefuseOpcode \/ CallHandler
    \/ KickAtLogin \/ KickByWarden
    \/ ProcessQueryCallbacks \/ EndUpdate \/ EndMapUpdate
=============================================================================
