----------------------------- MODULE WorldLoop ------------------------------
(***************************************************************************)
(* The world thread (WorldRunnable::run, World::Update and KickAll), which *)
(* drives the session of SessionReceive and serves the commands of         *)
(* Consoles, and the main thread, which waits for the others to end        *)
(* (Master::Run).                                                          *)
(*                                                                         *)
(* A tick is: the shutdown timer, UpdateSessions, the maps, the commands.  *)
(* What the world outside does in a behaviour is bounded by its scenario.  *)
(***************************************************************************)
EXTENDS SessionReceive, Consoles

CONSTANTS
    Scenarios,      \* see ScenarioType
    MaxPackets,     \* bound on the packets the client sends
    MaxElapsed      \* bound on the seconds between two ticks

VARIABLES
    scenario,       \* chosen at the start
    world,          \* where the world thread is: see WorldStates
    master,         \* what Master::Run waits for, or "returned"
    kicked          \* history: KickAll has found the session in m_sessions

vars == <<sessionVars, consoleVars, scenario, world, master, kicked>>

ScenarioType ==
    [screens : SUBSET Screens, packets : 0..MaxPackets, opcodes : SUBSET DOMAIN Opcodes,
     commands : [Terminals -> SUBSET Commands], given : [Terminals -> Nat],
     signals : SUBSET ExitCodes]

ASSUME LoopAssumption == MaxPackets \in Nat /\ MaxElapsed \in Nat

ASSUME ScenarioAssumption == \A s \in Scenarios : s \in ScenarioType

WorldStates == {"time", "sessions", "session", "maps", "map", "cli", "loop",
                "kick", "last", "lastSession", "network", "ended"}

(* Type invariant; the shutdown timer never passes below zero. *)
TypeOK ==
    /\ SessionTypeOK /\ ConsoleTypeOK
    /\ scenario \in Scenarios /\ world \in WorldStates
    /\ master \in {"world", "ra", "soap", "databases", "returned"} /\ kicked \in BOOLEAN

Init ==
    /\ SessionInit /\ ConsoleInit
    /\ scenario \in Scenarios /\ client \in scenario.screens
    /\ (cli = "read") = (scenario.given["cli"] > 0)
    /\ (raThread = "accept") = (scenario.given["ra"] > 0)
    /\ (soap = "test") = (scenario.given["soap"] > 0)
    /\ world = "time" /\ master = "world" /\ kicked = FALSE

-----------------------------------------------------------------------------
(* The world thread *)

GoTo(from, to) == world = from /\ world' = to

(* Is there a session in m_sessions? *)
InSessions == alive /\ ~queued

UpdateGameTime ==
    /\ GoTo("time", "sessions")
    /\ \E elapsed \in 0..MaxElapsed : UpdateShutdownTimer(elapsed, InSessions)
    /\ UNCHANGED <<sessionVars, worldVars, cli, raVars, soapVars, sent, crashed>>

(* addSessQueue is emptied into m_sessions, and the session updated. *)
UpdateSessions ==
    /\ \/ GoTo("sessions", "session") /\ BeginUpdate("world")
       \/ GoTo("sessions", "maps") /\ ~alive /\ UNCHANGED sessionVars
       \/ GoTo("session", "maps") /\ updater = "none" /\ UNCHANGED sessionVars
    /\ UNCHANGED consoleVars

(* The session is updated by its player's map, if it is in one. *)
UpdateMaps ==
    /\ \/ GoTo("maps", "map") /\ player = "world" /\ BeginUpdate("map")
       \/ GoTo("maps", "cli") /\ player # "world" /\ UNCHANGED sessionVars
       \/ GoTo("map", "cli") /\ updater = "none" /\ UNCHANGED sessionVars
    /\ UNCHANGED consoleVars

UpdateSession == UpdateStep /\ UNCHANGED <<consoleVars, world>>

Commanding ==
    /\ world = "cli" /\ ProcessCliCommands(InSessions)
    /\ UNCHANGED <<sessionVars, world>>

EndTick ==
    /\ GoTo("cli", "loop") /\ phase = "none" /\ cliCmdQueue = <<>>
    /\ UNCHANGED <<sessionVars, consoleVars>>

(* The condition of WorldRunnable's loop. *)
Loop ==
    /\ GoTo("loop", IF m_stopEvent THEN "kick" ELSE "time")
    /\ UNCHANGED <<sessionVars, consoleVars>>

(* Mutant: nobody is kicked. *)
KickAll_Nobody ==
    GoTo("kick", "last") /\ kicked' = InSessions /\ UNCHANGED <<sessionVars, consoleVars>>

(* Sessions in addSessQueue are left alone. *)
KickAll ==
    /\ GoTo("kick", "last")
    /\ IF InSessions THEN CloseSocket ELSE KeepSocket
    /\ kicked' = InSessions
    /\ UNCHANGED <<net, incoming, alive, queued, recvQueue, playerVars, updateVars, clientVars,
                   traceVars, consoleVars>>

(* UpdateSessions(1), which empties addSessQueue once more. *)
LastUpdate ==
    /\ \/ GoTo("last", "lastSession") /\ BeginUpdate("world")
       \/ GoTo("last", "network") /\ ~alive /\ UNCHANGED sessionVars
       \/ GoTo("lastSession", "network") /\ updater = "none" /\ UNCHANGED sessionVars
    /\ UNCHANGED consoleVars

(* The network thread ends between two events. *)
StopNetwork ==
    /\ GoTo("network", "ended") /\ net \in {"idle", "gone"}
    /\ net' = "gone"
    /\ UNCHANGED <<closing, m_Session, incoming, alive, queued, recvQueue, playerVars, updateVars,
                   clientVars, traceVars, consoleVars>>

WorldThread ==
    /\ \/ /\ \/ UpdateGameTime \/ UpdateSessions \/ UpdateMaps \/ UpdateSession
             \/ Commanding \/ EndTick \/ Loop
             \/ LastUpdate \/ StopNetwork
          /\ UNCHANGED kicked
       \/ KickAll
    /\ UNCHANGED <<scenario, master>>

-----------------------------------------------------------------------------
(* The other threads *)

WaitFor(from, to) == master = from /\ master' = to

(* The joins of Master::Run, and _StopDB. *)
MasterThread ==
    /\ \/ WaitFor("world", "ra") /\ world = "ended"
       \/ WaitFor("ra", "soap") /\ raThread = "exited"
       \/ WaitFor("soap", "databases") /\ soap = "exited"
       \/ WaitFor("databases", "returned")
    /\ UNCHANGED <<sessionVars, consoleVars, scenario, world, kicked>>

ClientStep ==
    /\ \/ received < scenario.packets /\ \E o \in scenario.opcodes : ReceivePacket(o)
       \/ HandleAuthSession
       \/ ClientSeesCharacters
       \/ ClientSeesLogout
       \/ HandleClose
    /\ UNCHANGED <<consoleVars, scenario, world, master, kicked>>

NetworkThread == NetworkStep /\ UNCHANGED <<consoleVars, scenario, world, master, kicked>>

DatabaseThread == LoginQueryDone /\ UNCHANGED <<consoleVars, scenario, world, master, kicked>>

(* People and programs at the consoles; a remote one also has to answer     *)
(* authenticate and to read what it is sent.                                *)
Operator ==
    /\ \/ \E t \in Terminals : /\ sent[t] < scenario.given[t]
                               /\ \E c \in scenario.commands[t] :
                                     CliCommand(c) \/ RaCommand(c) \/ SoapCommand(c)
       \/ CliEof \/ RaAccept \/ RaLogin \/ RaSent \/ RaQuit \/ SoapNothing
       \/ ~m_stopEvent /\ \E code \in scenario.signals : HandleSignal(code)
    /\ UNCHANGED <<sessionVars, scenario, world, master, kicked>>

Alone == UNCHANGED <<sessionVars, scenario, world, master, kicked>>

RaThread == RaThreadExit /\ Alone

RaSocketThread == RaStep /\ Alone

SoapThread == SoapStep /\ Alone

Next ==
    /\ ~crashed
    /\ \/ WorldThread \/ MasterThread
       \/ ClientStep \/ NetworkThread \/ DatabaseThread
       \/ Operator \/ RaThread \/ RaSocketThread \/ SoapThread

(* Every thread that can go on does.  Nothing is asked of the client, of    *)
(* the operators and of their connections, not even that a remote peer      *)
(* reads what it is sent, except that soap_accept has a timeout.            *)
Fairness ==
    /\ WF_vars(~crashed /\ WorldThread) /\ WF_vars(~crashed /\ MasterThread)
    /\ WF_vars(~crashed /\ NetworkThread) /\ WF_vars(~crashed /\ DatabaseThread)
    /\ WF_vars(~crashed /\ RaThread) /\ WF_vars(~crashed /\ RaSocketThread)
    /\ WF_vars(~crashed /\ SoapThread) /\ WF_vars(~crashed /\ SoapNothing /\ Alone)

Spec == Init /\ [][Next]_vars /\ Fairness

-----------------------------------------------------------------------------
(* Properties of the session *)

(* A socket that can still deliver packets has no pointer to a session that *)
(* UpdateSessions deleted: CloseSocket and handle_close clear m_Session     *)
(* before, or in, the critical section that lets the session go.            *)
SessionPointer == m_Session /\ net # "closing" => alive

Ids == {recvQueue[i].id : i \in DOMAIN recvQueue}

(* Handlers are called in the order in which the client sent the packets,   *)
(* put back or not, but for two cases.  A packet that needs no character    *)
(* (AUTHED) may overtake those that wait for one, never the other way       *)
(* round; and a packet that arrives while Update puts others back gets in   *)
(* front of those that this call has still to put back.                     *)
InOrder ==
    [][handled' # handled =>
          \/ call'.id \in passed
          \/ \A i \in IF Opcodes[call'.opcode].status = "AUTHED" THEN handled ELSE handledGame :
                i < call'.id]_vars

(* A packet about a character is handled for that character, never for the  *)
(* one the client logs in after it: m_playerRecentlyLogout stands until     *)
(* everything sent before the logout has been read.                         *)
OwnCharacter ==
    Opcodes[call.opcode].status \in {"LOGGEDIN", "TRANSFER"} => call.login = call.character

(* A map's thread calls no handler that is not thread-safe, and none for a  *)
(* player that is not in the map; the world thread calls no thread-safe one *)
(* for a player whom a map may be updating.                                 *)
HandlersInTheirThread ==
    LET safe == Opcodes[call.opcode].processing IN
    IF call.by = "map" THEN safe # "THREADUNSAFE" /\ call.player = "world"
    ELSE safe = "THREADSAFE" => call.player # "world"

(* No player survives the world thread, and no session that KickAll has     *)
(* seen: one last UpdateSessions is enough to log out everybody.  A session *)
(* handed over after the last tick's drain of addSessQueue is not kicked    *)
(* and outlives the world thread, but has no player.                        *)
EveryoneLoggedOut ==
    world = "ended" => player = "none" /\ (kicked => ~alive /\ recvQueue = <<>>)

-----------------------------------------------------------------------------
(* Properties of the consoles and the shutdown *)

(* The world thread uses a destroyed remote access socket in one case only: *)
(* the next command set _commandExecuting before commandFinished reset it   *)
(* for the last one.                                                        *)
NoFreedSocket == crashed => overlapped

(* The timer, or a command, stops the world for the request in force: with  *)
(* its exit code, without sessions if it is an idle shutdown, and not at    *)
(* all if it was cancelled.                                                 *)
StopHonoursRequest ==
    [][stoppedBy # "request" /\ stoppedBy' = "request" =>
          /\ inForce' # NoRequest /\ m_ExitCode' = inForce'.code
          /\ inForce'.idle => ~InSessions]_vars

(* commandFinished waits for room in a queue that is not read: the thread   *)
(* of the socket waits for its peer, or has left process_command.           *)
RaStuck ==
    phase = "finish" /\ executing.from = "ra" /\ RaQueueFull /\ ra \in {"sending", "closing"}

(* A SOAP command was queued after the last ProcessCliCommands. *)
SoapStuck == world = "ended" /\ soap = "waiting" /\ pendingCommands = 0

(* Once stopped the server ends, unless the world thread is stuck for ever  *)
(* with a remote access socket (that of a peer that has stopped reading, or *)
(* one whose thread has left) or the SOAP thread with a command nobody      *)
(* executes.                                                                *)
ShutdownCompletes ==
    \/ <>[](RaStuck \/ SoapStuck \/ crashed)
    \/ m_stopEvent ~> master = "returned"

(* A tick ends, unless it is stuck for ever with a remote access socket:    *)
(* WorldSession::Update does not read for ever the packets it puts back     *)
(* itself.  It has no limit of packets in a call: the client, and those who *)
(* give commands, have to pause.                                            *)
WorldTickEnds ==
    \/ <>[](RaStuck \/ crashed)
    \/ world = "sessions" ~> world = "loop"

(* The login query holder could not be set up: HandlePlayerLoginOpcode has  *)
(* returned without a word, and the client plays on.                        *)
LoginGivenUp ==
    /\ client = "game" /\ player = "none" /\ ~loading /\ ~recentlyLogout
    /\ incoming.opcode # "PLAYER_LOGIN"
    /\ \A i \in DOMAIN recvQueue : recvQueue[i].opcode # "PLAYER_LOGIN"

(* Every packet that was queued is read in the end, or deleted with its     *)
(* session, whether its handler is safe for the maps' threads or not,       *)
(* whoever updates the session and wherever the player is, unless the login *)
(* it waits for was given up for good or the world has ended.               *)
PacketsServed ==
    \/ <>[](LoginGivenUp \/ RaStuck \/ crashed \/ world = "ended")
    \/ \A i \in 1..MaxPackets : i \in Ids ~> i \notin Ids
=============================================================================
