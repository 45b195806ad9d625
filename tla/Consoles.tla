------------------------------ MODULE Consoles ------------------------------
(***************************************************************************)
(* The consoles of the world server and the shutdown they can ask for:     *)
(* the CLI thread (worldserver/CommandLine/CliRunnable.cpp), one remote    *)
(* access socket with its own thread (worldserver/RemoteAccess/            *)
(* RASocket.cpp), the SOAP thread (worldserver/TCSoap/TCSoap.cpp), the     *)
(* command queue that the world thread serves at the end of every tick     *)
(* (World::ProcessCliCommands), and World::ShutdownServ, ShutdownCancel,   *)
(* StopNow and the shutdown timer (game/World/World.cpp).                  *)
(*                                                                         *)
(* Texts are left out.  A command is what it does and how many lines it    *)
(* prints; the bytes in the message queue of the remote access socket are  *)
(* counted in lines.                                                       *)
(***************************************************************************)
EXTENDS Integers, Sequences

CONSTANTS
    HighWater,      \* lines that fill the queue of the remote access socket
    MaxLines,       \* bound on the lines a command prints
    MaxTime         \* bound on the seconds a shutdown is announced ahead

ASSUME ConsoleAssumption == HighWater \in Nat \ {0} /\ MaxLines \in Nat /\ MaxTime \in Nat \ {0}

VARIABLES
    m_stopEvent,
    m_ExitCode,
    m_ShutdownTimer,
    m_ShutdownMask, \* is SHUTDOWN_MASK_IDLE set?
    cliCmdQueue,
    executing,      \* the command the world thread executes
    phase,          \* where it is in ProcessCliCommands: see Phases
    cli,            \* CLI thread: "read" or "exited"
    ra,             \* thread of the remote access socket: see RaStates
    raQueue,        \* its message queue
    commandExecuting,   \* RASocket::_commandExecuting
    raThread,       \* RARunnable::run: "accept" or "exited"
    soap,           \* SOAP thread: see SoapStates
    pendingCommands,    \* SOAPCommand::pendingCommands
    sent,           \* commands given on each console
    inForce,        \* history: the shutdown request in force
    stoppedBy,      \* history: what set m_stopEvent: see Stops
    overlapped,     \* history: a command began before the last one's reset
    crashed         \* a destroyed socket has been used

stopVars    == <<m_stopEvent, m_ExitCode, m_ShutdownTimer, m_ShutdownMask, inForce, stoppedBy>>
worldVars   == <<cliCmdQueue, executing, phase>>
raVars      == <<ra, raQueue, commandExecuting, raThread, overlapped>>
soapVars    == <<soap, pendingCommands>>
consoleVars == <<stopVars, worldVars, cli, raVars, soapVars, sent, crashed>>

Terminals  == {"cli", "ra", "soap"}
Kinds      == {"info", "shutdown", "idle", "restart", "cancel", "exit"}
Commands   == [from : Terminals, kind : Kinds, time : 0..MaxTime, lines : 0..MaxLines]
NoCommand  == [from |-> "cli", kind |-> "info", time |-> 0, lines |-> 0]
Phases     == {"none", "parse", "finish", "reset"}
RaStates   == {"none", "login", "prompt", "waiting", "sending", "closing", "freed"}
SoapStates == {"test", "accept", "waiting", "exited"}
Stops      == {"none", "request", "now"}
ExitCodes  == {"SHUTDOWN", "RESTART"}
Requests   == [idle : BOOLEAN, code : ExitCodes]
NoRequest  == [idle |-> FALSE, code |-> "NONE"]

ConsoleTypeOK ==
    /\ m_stopEvent \in BOOLEAN /\ m_ExitCode \in ExitCodes
    /\ m_ShutdownTimer \in 0..MaxTime /\ m_ShutdownMask \in BOOLEAN
    /\ cliCmdQueue \in Seq(Commands) /\ executing \in Commands /\ phase \in Phases
    /\ cli \in {"read", "exited"} /\ ra \in RaStates /\ raQueue \in Seq({"line", "break"})
    /\ commandExecuting \in BOOLEAN /\ raThread \in {"accept", "exited"}
    /\ soap \in SoapStates /\ pendingCommands \in 0..1 /\ sent \in [Terminals -> Nat]
    /\ inForce \in Requests \cup {NoRequest} /\ stoppedBy \in Stops
    /\ overlapped \in BOOLEAN /\ crashed \in BOOLEAN

(* Each console may be disabled: Console.Enable, Ra.Enable, SOAP.Enabled. *)
ConsoleInit ==
    /\ m_stopEvent = FALSE /\ m_ExitCode = "SHUTDOWN"
    /\ m_ShutdownTimer = 0 /\ m_ShutdownMask = FALSE
    /\ cliCmdQueue = <<>> /\ executing = NoCommand /\ phase = "none"
    /\ cli \in {"read", "exited"} /\ ra = "none" /\ raQueue = <<>>
    /\ commandExecuting = FALSE /\ raThread \in {"accept", "exited"}
    /\ soap \in {"test", "exited"} /\ pendingCommands = 0 /\ sent = [t \in Terminals |-> 0]
    /\ inForce = NoRequest /\ stoppedBy = "none"
    /\ overlapped = FALSE /\ crashed = FALSE

-----------------------------------------------------------------------------
(* Stopping the world *)

StopNow(code) ==
    /\ m_stopEvent' = TRUE /\ m_ExitCode' = code /\ stoppedBy' = "now"
    /\ UNCHANGED <<m_ShutdownTimer, m_ShutdownMask, inForce>>

(* m_stopEvent is set for the request in force. *)
StopAsRequested == m_stopEvent' = TRUE /\ stoppedBy' = "request"

RunOn == UNCHANGED <<m_stopEvent, stoppedBy>>

ShutdownServ(time, idle, code, sessions) ==
    IF m_stopEvent THEN UNCHANGED stopVars
    ELSE /\ m_ExitCode' = code /\ m_ShutdownMask' = idle
         /\ inForce' = [idle |-> idle, code |-> code]
         /\ IF time = 0 /\ ~(idle /\ sessions)
            THEN StopAsRequested /\ UNCHANGED m_ShutdownTimer
            ELSE m_ShutdownTimer' = (IF time = 0 THEN 1 ELSE time) /\ RunOn

(* Mutant: the timer runs on. *)
ShutdownCancel_KeepsTimer ==
    IF m_ShutdownTimer = 0 \/ m_stopEvent THEN UNCHANGED stopVars
    ELSE /\ m_ShutdownMask' = FALSE /\ m_ExitCode' = "SHUTDOWN" /\ inForce' = NoRequest
         /\ UNCHANGED m_ShutdownTimer /\ RunOn

ShutdownCancel ==
    IF m_ShutdownTimer = 0 \/ m_stopEvent THEN UNCHANGED stopVars
    ELSE /\ m_ShutdownTimer' = 0 /\ m_ShutdownMask' = FALSE
         /\ m_ExitCode' = "SHUTDOWN" /\ inForce' = NoRequest
         /\ RunOn

(* Mutant: the timer is due when it is exactly over. *)
TimerDue_Exactly(elapsed) == m_ShutdownTimer = elapsed

TimerDue(elapsed) == m_ShutdownTimer <= elapsed

(* World::_UpdateGameTime.  An idle shutdown that is due waits for the last *)
(* session, second by second.                                               *)
UpdateShutdownTimer(elapsed, sessions) ==
    /\ \/ /\ m_stopEvent \/ m_ShutdownTimer = 0 \/ elapsed = 0
          /\ RunOn /\ UNCHANGED m_ShutdownTimer
       \/ /\ ~m_stopEvent /\ m_ShutdownTimer > 0 /\ elapsed > 0
          /\ IF ~TimerDue(elapsed) THEN m_ShutdownTimer' = m_ShutdownTimer - elapsed /\ RunOn
             ELSE IF m_ShutdownMask /\ sessions THEN m_ShutdownTimer' = 1 /\ RunOn
             ELSE StopAsRequested /\ UNCHANGED m_ShutdownTimer
    /\ UNCHANGED <<m_ExitCode, m_ShutdownMask, inForce>>

(* SIGINT and SIGTERM, handled in the main thread. *)
HandleSignal(code) ==
    /\ StopNow(code)
    /\ UNCHANGED <<worldVars, cli, raVars, soapVars, sent, crashed>>

-----------------------------------------------------------------------------
(* The threads that give commands *)

QueueCliCommand(c) ==
    /\ cliCmdQueue' = Append(cliCmdQueue, c)
    /\ sent' = [sent EXCEPT ![c.from] = @ + 1]

CliCommand(c) ==
    /\ cli = "read" /\ c.from = "cli"
    /\ QueueCliCommand(c)
    /\ cli' = IF m_stopEvent THEN "exited" ELSE "read"
    /\ UNCHANGED <<stopVars, executing, phase, raVars, soapVars, crashed>>

(* End of file on the standard input. *)
CliEof ==
    /\ cli = "read"
    /\ StopNow("SHUTDOWN") /\ cli' = "exited"
    /\ UNCHANGED <<worldVars, raVars, soapVars, sent, crashed>>

RaAccept ==
    /\ raThread = "accept" /\ ra = "none"
    /\ ra' = "login"
    /\ UNCHANGED <<stopVars, worldVars, cli, raQueue, commandExecuting, raThread, overlapped,
                   soapVars, sent, crashed>>

(* authenticate: known, or not. *)
RaLogin ==
    /\ ra = "login" /\ ra' \in {"prompt", "closing"}
    /\ UNCHANGED <<stopVars, worldVars, cli, raQueue, commandExecuting, raThread, overlapped,
                   soapVars, sent, crashed>>

(* process_command, up to getq. *)
RaCommand(c) ==
    /\ ra = "prompt" /\ c.from = "ra"
    /\ commandExecuting' = TRUE
    /\ overlapped' = (overlapped \/ phase = "reset")
    /\ QueueCliCommand(c)
    /\ ra' = "waiting"
    /\ UNCHANGED <<stopVars, executing, phase, cli, raQueue, raThread, soapVars, crashed>>

(* "quit", or the peer is gone: svc returns and ACE calls handle_close. *)
RaQuit ==
    /\ ra = "prompt" /\ ra' = "closing"
    /\ UNCHANGED <<stopVars, worldVars, cli, raQueue, commandExecuting, raThread, overlapped,
                   soapVars, sent, crashed>>

(* process_command: getq, and send unless it is the end of the output. *)
RaGetq ==
    /\ ra = "waiting" /\ raQueue # <<>>
    /\ raQueue' = Tail(raQueue)
    /\ ra' = IF Head(raQueue) = "break" THEN "prompt" ELSE "sending"
    /\ UNCHANGED <<stopVars, worldVars, cli, commandExecuting, raThread, overlapped, soapVars,
                   sent, crashed>>

(* send returns when the peer has read enough, or is gone: the socket is a  *)
(* blocking one, and a peer that just stops reading keeps it waiting.       *)
RaSent ==
    /\ ra = "sending" /\ ra' \in {"waiting", "closing"}
    /\ UNCHANGED <<stopVars, worldVars, cli, raQueue, commandExecuting, raThread, overlapped,
                   soapVars, sent, crashed>>

(* Mutant: handle_close does not wait for commandFinished. *)
MayDestroy_AtOnce == TRUE

MayDestroy == ~commandExecuting

(* handle_close after svc has returned. *)
RaHandleClose ==
    /\ ra = "closing" /\ MayDestroy
    /\ ra' = "freed" /\ raQueue' = <<>>
    /\ UNCHANGED <<stopVars, worldVars, cli, commandExecuting, raThread, overlapped, soapVars,
                   sent, crashed>>

RaThreadExit ==
    /\ raThread = "accept" /\ m_stopEvent
    /\ raThread' = "exited"
    /\ UNCHANGED <<stopVars, worldVars, cli, ra, raQueue, commandExecuting, overlapped, soapVars,
                   sent, crashed>>

(* Mutant: the SOAP thread serves on. *)
SoapMayExit_Never == FALSE

SoapMayExit == m_stopEvent

(* TCSoapRunnable::run, the condition of its loop. *)
SoapTest ==
    /\ soap = "test"
    /\ soap' = IF SoapMayExit THEN "exited" ELSE "accept"
    /\ UNCHANGED <<stopVars, worldVars, cli, raVars, pendingCommands, sent, crashed>>

(* soap_accept ran into its timeout, or the request was not authorized. *)
SoapNothing ==
    /\ soap = "accept" /\ soap' = "test"
    /\ UNCHANGED <<stopVars, worldVars, cli, raVars, pendingCommands, sent, crashed>>

(* ns1__executeCommand, up to acquire. *)
SoapCommand(c) ==
    /\ soap = "accept" /\ c.from = "soap"
    /\ QueueCliCommand(c)
    /\ soap' = "waiting"
    /\ UNCHANGED <<stopVars, executing, phase, cli, raVars, pendingCommands, crashed>>

SoapReply ==
    /\ soap = "waiting" /\ pendingCommands > 0
    /\ pendingCommands' = pendingCommands - 1 /\ soap' = "test"
    /\ UNCHANGED <<stopVars, worldVars, cli, raVars, sent, crashed>>

-----------------------------------------------------------------------------
(* The world thread: ProcessCliCommands *)

Lines(q) == Len(SelectSeq(q, LAMBDA m : m = "line"))

(* ACE (external): putq fails, or waits, while the queue is full. *)
RaQueueFull == Lines(raQueue) >= HighWater

NextCommand ==
    /\ phase = "none" /\ cliCmdQueue # <<>>
    /\ executing' = Head(cliCmdQueue) /\ cliCmdQueue' = Tail(cliCmdQueue)
    /\ phase' = "parse"
    /\ UNCHANGED <<stopVars, cli, raVars, soapVars, sent, crashed>>

(* A line of output.  RASocket::zprint does not wait: the line is lost if   *)
(* the queue is full.                                                       *)
Zprint ==
    /\ phase = "parse" /\ executing.lines > 0
    /\ executing' = [executing EXCEPT !.lines = @ - 1]
    /\ IF executing.from # "ra" THEN UNCHANGED <<raQueue, crashed>>
       ELSE IF ra = "freed" THEN crashed' = TRUE /\ UNCHANGED raQueue
       ELSE /\ raQueue' = IF RaQueueFull THEN raQueue ELSE Append(raQueue, "line")
            /\ UNCHANGED crashed
    /\ UNCHANGED <<stopVars, cliCmdQueue, phase, cli, ra, commandExecuting, raThread, overlapped,
                   soapVars, sent>>

(* The handlers of cs_server.cpp. *)
Execute(c, sessions) ==
    CASE c.kind = "shutdown" -> ShutdownServ(c.time, FALSE, "SHUTDOWN", sessions)
      [] c.kind = "idle"     -> ShutdownServ(c.time, TRUE, "SHUTDOWN", sessions)
      [] c.kind = "restart"  -> ShutdownServ(c.time, FALSE, "RESTART", sessions)
      [] c.kind = "cancel"   -> ShutdownCancel
      [] c.kind = "exit"     -> StopNow("SHUTDOWN")
      [] c.kind = "info"     -> UNCHANGED stopVars

ParseCommands(sessions) ==
    /\ phase = "parse" /\ executing.lines = 0
    /\ Execute(executing, sessions)
    /\ phase' = "finish"
    /\ UNCHANGED <<cliCmdQueue, executing, cli, raVars, soapVars, sent, crashed>>

(* commandFinished of the CLI prints a prompt, SOAPCommand's wakes the SOAP *)
(* thread.                                                                  *)
CommandFinished ==
    /\ phase = "finish" /\ executing.from # "ra"
    /\ pendingCommands' = IF executing.from = "soap" THEN pendingCommands + 1 ELSE pendingCommands
    /\ phase' = "none" /\ executing' = NoCommand
    /\ UNCHANGED <<stopVars, cliCmdQueue, cli, raVars, soap, sent, crashed>>

(* RASocket::commandFinished: putq without a timeout ... *)
RaCommandFinished ==
    /\ phase = "finish" /\ executing.from = "ra" /\ ra # "freed" /\ ~RaQueueFull
    /\ raQueue' = Append(raQueue, "break") /\ phase' = "reset"
    /\ UNCHANGED <<stopVars, cliCmdQueue, executing, cli, ra, commandExecuting, raThread,
                   overlapped, soapVars, sent, crashed>>

(* ... and then the reset. *)
RaCommandReset ==
    /\ phase = "reset" /\ ra # "freed"
    /\ commandExecuting' = FALSE /\ phase' = "none" /\ executing' = NoCommand
    /\ UNCHANGED <<stopVars, cliCmdQueue, cli, ra, raQueue, raThread, overlapped, soapVars,
                   sent, crashed>>

(* The socket has been destroyed under the command. *)
RaCommandFreed ==
    /\ phase \in {"finish", "reset"} /\ executing.from = "ra" /\ ra = "freed"
    /\ crashed' = TRUE
    /\ UNCHANGED <<stopVars, worldVars, cli, raVars, soapVars, sent>>

ProcessCliCommands(sessions) ==
    \/ NextCommand \/ Zprint \/ ParseCommands(sessions)
    \/ CommandFinished \/ RaCommandFinished \/ RaCommandReset \/ RaCommandFreed

(* Steps that the threads take by themselves. *)
RaStep == RaGetq \/ RaHandleClose

SoapStep == SoapTest \/ SoapReply

=============================================================================
