--------------------------- MODULE ConsoleProofs ----------------------------
(***************************************************************************)
(* Theorems about the consoles and the shutdown of WorldLoop, for any      *)
(* scenario, any number of commands and of lines and any high water mark.  *)
(***************************************************************************)
EXTENDS WorldLoop, TLAPS

QueuedFrom(t) == {i \in 1..Len(cliCmdQueue) : cliCmdQueue[i].from = t}
Executing(t)  == phase # "none" /\ executing.from = t
InPlay(t)     == QueuedFrom(t) # {} \/ Executing(t)

(* A console that waits for the answer to its command has given only one. *)
OneInPlay(t) ==
    /\ \A i, j \in QueuedFrom(t) : i = j
    /\ Executing(t) => QueuedFrom(t) = {}

SoapOK ==
    /\ OneInPlay("soap")
    /\ InPlay("soap") => soap = "waiting" /\ pendingCommands = 0
    /\ pendingCommands = 1 => soap = "waiting"

Broken == \E i \in 1..Len(raQueue) : raQueue[i] = "break"

(* commandFinished has told the socket's thread the end of the output. *)
Answered == QueuedFrom("ra") = {} /\ (Executing("ra") => phase = "reset")

(* Unless two commands overlap, the flag covers a command of the remote     *)
(* access socket from its start to the reset, and the message that ends its *)
(* output is the last one in the socket's queue.                            *)
RaOK ==
    ~overlapped =>
        /\ OneInPlay("ra")
        /\ InPlay("ra") => commandExecuting
        /\ \A i \in 1..Len(raQueue) : raQueue[i] = "break" => i = Len(raQueue)
        /\ Broken => Answered
        /\ ra \in {"none", "login", "prompt"} => Answered /\ ~Broken
        /\ ra = "freed" => ~commandExecuting
        /\ ~crashed

(* A timer that runs belongs to the request in force. *)
StopOK ==
    m_ShutdownTimer > 0 /\ ~m_stopEvent =>
        /\ inForce # NoRequest
        /\ m_ExitCode = inForce.code /\ m_ShutdownMask = inForce.idle

ConsoleInv ==
    /\ ConsoleTypeOK /\ scenario \in Scenarios
    /\ SoapOK /\ RaOK /\ StopOK
    /\ phase = "reset" => executing.from = "ra"

(* The steps of the other components leave the consoles alone. *)
ConsoleStep ==
    \/ /\ \E elapsed \in 0..MaxElapsed : UpdateShutdownTimer(elapsed, InSessions)
       /\ UNCHANGED <<worldVars, cli, raVars, soapVars, sent, crashed>>
    \/ ProcessCliCommands(InSessions)
    \/ \E c \in Commands : CliCommand(c) \/ RaCommand(c) \/ SoapCommand(c)
    \/ \E code \in ExitCodes : HandleSignal(code)
    \/ CliEof \/ RaAccept \/ RaLogin \/ RaSent \/ RaQuit \/ SoapNothing
    \/ RaThreadExit \/ RaStep \/ SoapStep
    \/ UNCHANGED consoleVars

LEMMA StepOfConsoles ==
    ASSUME scenario \in Scenarios, [Next]_vars
    PROVE  ConsoleStep /\ scenario' = scenario
  <1>1. scenario' = scenario
    BY DEF Next, vars, WorldThread, MasterThread, ClientStep, NetworkThread, DatabaseThread, Operator,
           RaThread, RaSocketThread, SoapThread, Alone
  <1> SUFFICES ConsoleStep
    BY <1>1
  <1>2. CASE UNCHANGED vars
    BY <1>2 DEF vars, ConsoleStep
  <1>3. CASE WorldThread
    <2>1. CASE UpdateGameTime
      BY <2>1 DEF UpdateGameTime, ConsoleStep
    <2>2. CASE Commanding
      BY <2>2 DEF Commanding, ConsoleStep
    <2>3. CASE \/ UpdateSessions \/ UpdateMaps \/ UpdateSession \/ EndTick \/ Loop
               \/ KickAll \/ LastUpdate \/ StopNetwork
      <3>1. UNCHANGED consoleVars
        BY <2>3 DEF UpdateSessions, UpdateMaps, UpdateSession, EndTick, Loop, KickAll, LastUpdate,
                    StopNetwork
      <3> QED BY <3>1 DEF ConsoleStep
    <2> QED BY <1>3, <2>1, <2>2, <2>3 DEF WorldThread
  <1>4. CASE MasterThread \/ ClientStep \/ NetworkThread \/ DatabaseThread
    BY <1>4 DEF MasterThread, ClientStep, NetworkThread, DatabaseThread, ConsoleStep
  <1>5. CASE RaThread \/ RaSocketThread \/ SoapThread
    BY <1>5 DEF RaThread, RaSocketThread, SoapThread, ConsoleStep
  <1>6. CASE Operator
    <2>1. scenario \in ScenarioType
      BY ScenarioAssumption
    <2>2. scenario.signals \subseteq ExitCodes /\ \A t \in Terminals : scenario.commands[t] \subseteq Commands
      BY <2>1 DEF ScenarioType
    <2> QED BY <1>6, <2>2 DEF Operator, ConsoleStep
  <1> QED BY <1>2, <1>3, <1>4, <1>5, <1>6 DEF Next

-----------------------------------------------------------------------------
(* The command queue *)

LEMMA QueueFacts ==
    ASSUME ConsoleTypeOK
    PROVE  /\ Len(cliCmdQueue) \in Nat
           /\ \A i \in 1..Len(cliCmdQueue) : cliCmdQueue[i] \in Commands
           /\ \A c \in Commands :
                 /\ Append(cliCmdQueue, c) \in Seq(Commands)
                 /\ Len(Append(cliCmdQueue, c)) = Len(cliCmdQueue) + 1
                 /\ Append(cliCmdQueue, c)[Len(cliCmdQueue) + 1] = c
                 /\ \A i \in 1..Len(cliCmdQueue) : Append(cliCmdQueue, c)[i] = cliCmdQueue[i]
           /\ cliCmdQueue # <<>> =>
                 /\ Len(cliCmdQueue) > 0 /\ Head(cliCmdQueue) = cliCmdQueue[1]
                 /\ Head(cliCmdQueue) \in Commands
                 /\ Tail(cliCmdQueue) \in Seq(Commands)
                 /\ Len(Tail(cliCmdQueue)) = Len(cliCmdQueue) - 1
                 /\ \A i \in 1..(Len(cliCmdQueue) - 1) : Tail(cliCmdQueue)[i] = cliCmdQueue[i + 1]
  <1> DEFINE S == Commands
  <1> HIDE DEF S
  <1>1. cliCmdQueue \in Seq(S)
    BY DEF ConsoleTypeOK, S
  <1>2. Len(cliCmdQueue) \in Nat /\ \A i \in 1..Len(cliCmdQueue) : cliCmdQueue[i] \in S
    BY <1>1
  <1>3. \A c \in S :
                 /\ Append(cliCmdQueue, c) \in Seq(S)
                 /\ Len(Append(cliCmdQueue, c)) = Len(cliCmdQueue) + 1
                 /\ Append(cliCmdQueue, c)[Len(cliCmdQueue) + 1] = c
                 /\ \A i \in 1..Len(cliCmdQueue) : Append(cliCmdQueue, c)[i] = cliCmdQueue[i]
    BY <1>1
  <1>4. cliCmdQueue # <<>> =>
                 /\ Len(cliCmdQueue) > 0 /\ Head(cliCmdQueue) = cliCmdQueue[1]
                 /\ Head(cliCmdQueue) \in S
                 /\ Tail(cliCmdQueue) \in Seq(S)
                 /\ Len(Tail(cliCmdQueue)) = Len(cliCmdQueue) - 1
                 /\ \A i \in 1..(Len(cliCmdQueue) - 1) : Tail(cliCmdQueue)[i] = cliCmdQueue[i + 1]
    BY <1>1
  <1> QED BY <1>2, <1>3, <1>4 DEF S

(* A console gives a command. *)
LEMMA CommandGiven ==
    ASSUME ConsoleTypeOK, NEW c \in Commands, QueueCliCommand(c),
           executing' = executing, phase' = phase
    PROVE  /\ cliCmdQueue' \in Seq(Commands) /\ sent' \in [Terminals -> Nat]
           /\ ~InPlay(c.from) => OneInPlay(c.from)'
           /\ \A t : Executing(t)' <=> Executing(t)
           /\ \A t : t # c.from => QueuedFrom(t)' = QueuedFrom(t)
  <1> DEFINE n == Len(cliCmdQueue)
  <1>1. /\ n \in Nat /\ cliCmdQueue' \in Seq(Commands) /\ Len(cliCmdQueue') = n + 1
        /\ cliCmdQueue'[n + 1] = c
        /\ \A i \in 1..n : cliCmdQueue'[i] = cliCmdQueue[i]
    BY QueueFacts DEF QueueCliCommand
  <1>2. 1..(n + 1) = 1..n \cup {n + 1} /\ n + 1 \notin 1..n
    BY <1>1
  <1>3. \A t : QueuedFrom(t)' = {i \in 1..(n + 1) : cliCmdQueue'[i].from = t}
    BY <1>1 DEF QueuedFrom
  <1>4. \A t : QueuedFrom(t) = {i \in 1..n : cliCmdQueue[i].from = t}
    BY DEF QueuedFrom
  <1> HIDE DEF n
  <1>5. \A t : t # c.from => QueuedFrom(t)' = QueuedFrom(t)
    BY <1>1, <1>2, <1>3, <1>4
  <1>6. QueuedFrom(c.from)' = QueuedFrom(c.from) \cup {n + 1}
    BY <1>1, <1>2, <1>3, <1>4
  <1>7. \A t : Executing(t)' <=> Executing(t)
    BY DEF Executing
  <1>8. ~InPlay(c.from) => OneInPlay(c.from)'
    BY <1>6, <1>7 DEF InPlay, OneInPlay
  <1>9. sent' \in [Terminals -> Nat]
    BY DEF QueueCliCommand, ConsoleTypeOK, Commands
  <1> QED BY <1>1, <1>5, <1>7, <1>8, <1>9

(* The world thread takes the next command. *)
LEMMA CommandTaken ==
    ASSUME ConsoleTypeOK, NextCommand
    PROVE  /\ cliCmdQueue' \in Seq(Commands) /\ executing' \in Commands
           /\ \A t : OneInPlay(t) => OneInPlay(t)'
           /\ \A t : InPlay(t)' <=> InPlay(t)
           /\ \A t : QueuedFrom(t) = {} => QueuedFrom(t)' = {} /\ ~Executing(t)'
  <1> DEFINE n == Len(cliCmdQueue)
  <1>1. /\ n \in Nat /\ n > 0 /\ cliCmdQueue' \in Seq(Commands) /\ Len(cliCmdQueue') = n - 1
        /\ executing' = cliCmdQueue[1] /\ executing' \in Commands
        /\ \A i \in 1..(n - 1) : cliCmdQueue'[i] = cliCmdQueue[i + 1]
        /\ phase = "none" /\ phase' = "parse"
    BY QueueFacts DEF NextCommand
  <1>2. \A t : QueuedFrom(t)' = {i \in 1..(n - 1) : cliCmdQueue[i + 1].from = t}
    BY <1>1 DEF QueuedFrom
  <1>3. \A t : QueuedFrom(t) = {i \in 1..n : cliCmdQueue[i].from = t}
    BY DEF QueuedFrom
  <1>4. /\ \A i \in 1..(n - 1) : i + 1 \in 1..n /\ i + 1 # 1
        /\ \A i \in 1..n : i # 1 => i - 1 \in 1..(n - 1) /\ (i - 1) + 1 = i
        /\ 1 \in 1..n
    BY <1>1
  <1>5. \A t : Executing(t)' <=> cliCmdQueue[1].from = t
    BY <1>1 DEF Executing
  <1>6. \A t : ~Executing(t)
    BY <1>1 DEF Executing
  <1> HIDE DEF n
  <1>7. \A t : \A i \in QueuedFrom(t)' : i + 1 \in QueuedFrom(t)
    BY <1>2, <1>3, <1>4
  <1>8. \A t : \A i \in QueuedFrom(t) : i # 1 => i - 1 \in QueuedFrom(t)'
    BY <1>2, <1>3, <1>4
  <1>9. \A t : Executing(t)' <=> 1 \in QueuedFrom(t)
    BY <1>3, <1>4, <1>5
  <1>10. ASSUME NEW t PROVE InPlay(t)' <=> InPlay(t)
    BY <1>6, <1>7, <1>8, <1>9 DEF InPlay
  <1>11. ASSUME NEW t, OneInPlay(t) PROVE OneInPlay(t)'
    <2>1. ASSUME NEW i \in QueuedFrom(t)', NEW j \in QueuedFrom(t)' PROVE i = j
      <3>1. i + 1 = j + 1 /\ i \in Nat /\ j \in Nat
        BY <1>1, <1>2, <1>7, <1>11 DEF OneInPlay
      <3> QED BY <3>1
    <2>2. ASSUME 1 \in QueuedFrom(t), NEW i \in QueuedFrom(t)' PROVE FALSE
      <3>1. i + 1 = 1 /\ i \in 1..(n - 1)
        BY <1>2, <1>7, <1>11, <2>2 DEF OneInPlay
      <3> QED BY <1>4, <3>1
    <2> QED BY <1>9, <2>1, <2>2 DEF OneInPlay
  <1>12. ASSUME NEW t, QueuedFrom(t) = {} PROVE QueuedFrom(t)' = {} /\ ~Executing(t)'
    BY <1>7, <1>9, <1>12
  <1> QED BY <1>1, <1>10, <1>11, <1>12

LEMMA SamePlay ==
    ASSUME UNCHANGED <<cliCmdQueue, executing, phase>>
    PROVE  /\ \A t : QueuedFrom(t)' = QueuedFrom(t) /\ (Executing(t)' <=> Executing(t))
           /\ \A t : (InPlay(t)' <=> InPlay(t)) /\ (OneInPlay(t)' <=> OneInPlay(t))
           /\ Answered' <=> Answered
  BY DEF QueuedFrom, Executing, InPlay, OneInPlay, Answered

-----------------------------------------------------------------------------
(* The shutdown request *)

StopTypes ==
    /\ m_stopEvent \in BOOLEAN /\ m_ExitCode \in ExitCodes
    /\ m_ShutdownTimer \in 0..MaxTime /\ m_ShutdownMask \in BOOLEAN
    /\ inForce \in Requests \cup {NoRequest} /\ stoppedBy \in Stops

(* m_stopEvent is set for a request only if it is the one in force. *)
Honoured ==
    stoppedBy # "request" /\ stoppedBy' = "request" =>
        /\ inForce' # NoRequest /\ m_ExitCode' = inForce'.code
        /\ inForce'.idle => ~InSessions

LEMMA StopNowOK ==
    ASSUME ConsoleTypeOK, NEW code \in ExitCodes, StopNow(code)
    PROVE  StopTypes' /\ StopOK' /\ Honoured
  BY DEF ConsoleTypeOK, StopNow, StopTypes, StopOK, Honoured, Stops

LEMMA SameStopOK ==
    ASSUME ConsoleTypeOK, StopOK, UNCHANGED stopVars
    PROVE  StopTypes' /\ StopOK' /\ Honoured
  BY DEF ConsoleTypeOK, StopTypes, StopOK, stopVars, Honoured

LEMMA RequestFacts ==
    ASSUME NEW idle \in BOOLEAN, NEW code \in ExitCodes
    PROVE  LET r == [idle |-> idle, code |-> code]
           IN  r \in Requests /\ r # NoRequest /\ r.idle = idle /\ r.code = code
  BY DEF Requests, NoRequest, ExitCodes

LEMMA ShutdownServOK ==
    ASSUME ConsoleTypeOK, StopOK, NEW time \in 0..MaxTime, NEW idle \in BOOLEAN, NEW code \in ExitCodes,
           ShutdownServ(time, idle, code, InSessions)
    PROVE  StopTypes' /\ StopOK' /\ Honoured
  <1>1. CASE m_stopEvent
    BY <1>1, SameStopOK DEF ShutdownServ
  <1>2. CASE ~m_stopEvent
    <2> DEFINE r == [idle |-> idle, code |-> code]
    <2>1. r \in Requests /\ r # NoRequest /\ r.idle = idle /\ r.code = code
      BY RequestFacts
    <2>2. inForce' = r /\ m_ExitCode' = code /\ m_ShutdownMask' = idle
      BY <1>2 DEF ShutdownServ
    <2> HIDE DEF r
    <2>3. CASE time = 0 /\ ~(idle /\ InSessions)
      <3>1. m_stopEvent' = TRUE /\ stoppedBy' = "request" /\ m_ShutdownTimer' = m_ShutdownTimer
        BY <1>2, <2>3 DEF ShutdownServ, StopAsRequested
      <3> QED BY <2>1, <2>2, <2>3, <3>1 DEF StopTypes, StopOK, ConsoleTypeOK, Stops, Honoured
    <2>4. CASE ~(time = 0 /\ ~(idle /\ InSessions))
      <3>1. /\ m_stopEvent' = m_stopEvent /\ stoppedBy' = stoppedBy
            /\ m_ShutdownTimer' = (IF time = 0 THEN 1 ELSE time)
        BY <1>2, <2>4 DEF ShutdownServ, RunOn
      <3>2. m_ShutdownTimer' \in 0..MaxTime
        BY <3>1, ConsoleAssumption
      <3> QED BY <2>1, <2>2, <3>1, <3>2 DEF StopTypes, StopOK, ConsoleTypeOK, Honoured
    <2> QED BY <2>3, <2>4
  <1> QED BY <1>1, <1>2

LEMMA ShutdownCancelOK ==
    ASSUME ConsoleTypeOK, StopOK, ShutdownCancel
    PROVE  StopTypes' /\ StopOK' /\ Honoured
  <1>1. CASE m_ShutdownTimer = 0 \/ m_stopEvent
    BY <1>1, SameStopOK DEF ShutdownCancel
  <1>2. CASE ~(m_ShutdownTimer = 0 \/ m_stopEvent)
    <2>1. /\ m_ShutdownTimer' = 0 /\ m_ShutdownMask' = FALSE
          /\ m_ExitCode' = "SHUTDOWN" /\ inForce' = NoRequest
          /\ m_stopEvent' = m_stopEvent /\ stoppedBy' = stoppedBy
      BY <1>2 DEF ShutdownCancel, RunOn
    <2>2. StopTypes'
      <3>1. m_stopEvent' \in BOOLEAN /\ m_ShutdownMask' \in BOOLEAN
        BY <2>1 DEF ConsoleTypeOK
      <3>2. m_ShutdownTimer' \in 0..MaxTime /\ m_ExitCode' \in ExitCodes
        BY <2>1, ConsoleAssumption DEF ExitCodes
      <3>3. inForce' \in Requests \cup {NoRequest} /\ stoppedBy' \in Stops
        BY <2>1 DEF ConsoleTypeOK
      <3> QED BY <3>1, <3>2, <3>3 DEF StopTypes
    <2>3. StopOK' /\ Honoured
      BY <2>1 DEF StopOK, Honoured
    <2> QED BY <2>2, <2>3
  <1> QED BY <1>1, <1>2

LEMMA TimerOK ==
    ASSUME ConsoleTypeOK, StopOK, NEW elapsed \in 0..MaxElapsed,
           UpdateShutdownTimer(elapsed, InSessions)
    PROVE  StopTypes' /\ StopOK' /\ Honoured
  <1>1. UNCHANGED <<m_ExitCode, m_ShutdownMask, inForce>>
    BY DEF UpdateShutdownTimer
  <1>2. CASE m_stopEvent \/ m_ShutdownTimer = 0 \/ elapsed = 0
    <2>1. m_stopEvent' = m_stopEvent /\ stoppedBy' = stoppedBy /\ m_ShutdownTimer' = m_ShutdownTimer
      BY <1>2 DEF UpdateShutdownTimer, RunOn, ConsoleTypeOK
    <2> QED BY <1>1, <2>1 DEF StopTypes, StopOK, ConsoleTypeOK, Honoured
  <1>3. CASE ~m_stopEvent /\ m_ShutdownTimer > 0 /\ elapsed > 0
    <2>1. CASE TimerDue(elapsed) /\ ~(m_ShutdownMask /\ InSessions)
      <3>1. m_stopEvent' = TRUE /\ stoppedBy' = "request" /\ m_ShutdownTimer' = m_ShutdownTimer
        BY <1>3, <2>1 DEF UpdateShutdownTimer, StopAsRequested
      <3> QED BY <1>1, <1>3, <2>1, <3>1 DEF StopTypes, StopOK, ConsoleTypeOK, Stops, Honoured
    <2>2. CASE ~(TimerDue(elapsed) /\ ~(m_ShutdownMask /\ InSessions))
      <3>1. m_stopEvent' = m_stopEvent /\ stoppedBy' = stoppedBy
        BY <1>3, <2>2 DEF UpdateShutdownTimer, RunOn
      <3>2. m_ShutdownTimer' = 1 \/ (m_ShutdownTimer' = m_ShutdownTimer - elapsed /\ ~TimerDue(elapsed))
        BY <1>3, <2>2 DEF UpdateShutdownTimer
      <3>3. m_ShutdownTimer' \in 0..MaxTime
        BY <1>3, <3>2, ConsoleAssumption DEF TimerDue, ConsoleTypeOK
      <3> QED BY <1>1, <1>3, <3>1, <3>3 DEF StopTypes, StopOK, ConsoleTypeOK, Honoured
    <2> QED BY <2>1, <2>2
  <1> QED BY <1>2, <1>3 DEF ConsoleTypeOK

(* Whatever a console asks for *)
LEMMA ExecuteOK ==
    ASSUME ConsoleTypeOK, StopOK, Execute(executing, InSessions)
    PROVE  StopTypes' /\ StopOK' /\ Honoured
  <1>1. executing.kind \in Kinds /\ executing.time \in 0..MaxTime
    BY DEF ConsoleTypeOK, Commands
  <1>2. "SHUTDOWN" \in ExitCodes /\ "RESTART" \in ExitCodes
    BY DEF ExitCodes
  <1>3. CASE executing.kind = "shutdown"
    BY <1>1, <1>2, <1>3, ShutdownServOK DEF Execute
  <1>4. CASE executing.kind = "idle"
    BY <1>1, <1>2, <1>4, ShutdownServOK DEF Execute
  <1>5. CASE executing.kind = "restart"
    BY <1>1, <1>2, <1>5, ShutdownServOK DEF Execute
  <1>6. CASE executing.kind = "cancel"
    BY <1>6, ShutdownCancelOK DEF Execute
  <1>7. CASE executing.kind = "exit"
    BY <1>2, <1>7, StopNowOK DEF Execute
  <1>8. CASE executing.kind = "info"
    BY <1>8, SameStopOK DEF Execute
  <1> QED BY <1>1, <1>3, <1>4, <1>5, <1>6, <1>7, <1>8 DEF Kinds

(* Every step of the consoles *)
LEMMA StopStep ==
    ASSUME ConsoleInv, ConsoleStep
    PROVE  StopTypes' /\ StopOK' /\ Honoured
  <1>1. ConsoleTypeOK /\ StopOK
    BY DEF ConsoleInv
  <1>2. CASE \E elapsed \in 0..MaxElapsed : UpdateShutdownTimer(elapsed, InSessions)
    BY <1>1, <1>2, TimerOK
  <1>3. CASE \E code \in ExitCodes : HandleSignal(code)
    BY <1>1, <1>3, StopNowOK DEF HandleSignal
  <1>4. CASE CliEof
    BY <1>1, <1>4, StopNowOK DEF CliEof, ExitCodes
  <1>5. CASE ParseCommands(InSessions)
    BY <1>1, <1>5, ExecuteOK DEF ParseCommands
  <1>6. CASE UNCHANGED stopVars
    BY <1>1, <1>6, SameStopOK
  <1>7. CASE \/ \E c \in Commands : CliCommand(c) \/ RaCommand(c) \/ SoapCommand(c)
             \/ NextCommand \/ Zprint \/ CommandFinished \/ RaCommandFinished \/ RaCommandReset
             \/ RaCommandFreed
             \/ RaAccept \/ RaLogin \/ RaSent \/ RaQuit \/ SoapNothing
             \/ RaThreadExit \/ RaStep \/ SoapStep
    <2>1. UNCHANGED stopVars
      BY <1>7 DEF CliCommand, RaCommand, SoapCommand, NextCommand, Zprint, CommandFinished,
                  RaCommandFinished, RaCommandReset, RaCommandFreed, RaAccept, RaQuit, SoapNothing,
                  RaThreadExit, RaStep, RaLogin, RaSent, RaGetq, RaHandleClose, SoapStep, SoapTest,
                  SoapReply
    <2> QED BY <1>6, <2>1
  <1>8. CASE UNCHANGED consoleVars
    BY <1>6, <1>8 DEF consoleVars
  <1> QED BY <1>2, <1>3, <1>4, <1>5, <1>7, <1>8 DEF ConsoleStep, ProcessCliCommands

-----------------------------------------------------------------------------
(* The commands and who waits for them *)

CommandTypes ==
    /\ cliCmdQueue \in Seq(Commands) /\ executing \in Commands /\ phase \in Phases
    /\ cli \in {"read", "exited"} /\ ra \in RaStates /\ raQueue \in Seq({"line", "break"})
    /\ commandExecuting \in BOOLEAN /\ raThread \in {"accept", "exited"}
    /\ soap \in SoapStates /\ pendingCommands \in 0..1 /\ sent \in [Terminals -> Nat]
    /\ overlapped \in BOOLEAN /\ crashed \in BOOLEAN

CommandsOK ==
    CommandTypes /\ SoapOK /\ RaOK /\ (phase = "reset" => executing.from = "ra")

LEMMA TypesSplit == ConsoleTypeOK <=> StopTypes /\ CommandTypes
  BY DEF ConsoleTypeOK, StopTypes, CommandTypes

LEMMA ProcessingNothing ==
    ASSUME CommandsOK, UNCHANGED <<worldVars, raVars, soapVars, sent, crashed>>,
           cli' \in {"read", "exited"}
    PROVE  CommandsOK'
  <1>1. UNCHANGED <<cliCmdQueue, executing, phase, ra, raQueue, commandExecuting, raThread,
                    overlapped, soap, pendingCommands, sent, crashed>>
    BY DEF worldVars, raVars, soapVars
  <1>2. CommandTypes'
    BY <1>1 DEF CommandsOK, CommandTypes
  <1>3. SoapOK' /\ RaOK'
    BY <1>1, SamePlay DEF CommandsOK, SoapOK, RaOK, Broken
  <1> QED BY <1>1, <1>2, <1>3 DEF CommandsOK

(* A console gives a command: the remote access socket and SOAP only when   *)
(* their last one has been answered.                                        *)
LEMMA GivingKeepsCommands ==
    ASSUME CommandsOK, ConsoleTypeOK, NEW c \in Commands,
           CliCommand(c) \/ RaCommand(c) \/ SoapCommand(c)
    PROVE  CommandsOK'
  <1>1. /\ QueueCliCommand(c) /\ executing' = executing /\ phase' = phase /\ raQueue' = raQueue
        /\ pendingCommands' = pendingCommands /\ raThread' = raThread /\ crashed' = crashed
    BY DEF CliCommand, RaCommand, SoapCommand, raVars, soapVars
  <1>2. /\ cliCmdQueue' \in Seq(Commands) /\ sent' \in [Terminals -> Nat]
        /\ ~InPlay(c.from) => OneInPlay(c.from)'
        /\ \A t : Executing(t)' <=> Executing(t)
        /\ \A t : t # c.from => QueuedFrom(t)' = QueuedFrom(t)
    BY <1>1, CommandGiven
  <1>3. \A t : t # c.from => (OneInPlay(t)' <=> OneInPlay(t)) /\ (InPlay(t)' <=> InPlay(t))
    BY <1>2 DEF OneInPlay, InPlay
  <1>4. Broken' <=> Broken
    BY <1>1 DEF Broken
  <1>5. c.from # "ra" => (Answered' <=> Answered)
    BY <1>1, <1>2 DEF Answered
  <1>6. CASE CliCommand(c)
    <2>1. /\ c.from = "cli" /\ cli' \in {"read", "exited"} /\ ra' = ra /\ soap' = soap
          /\ commandExecuting' = commandExecuting /\ overlapped' = overlapped
      BY <1>6 DEF CliCommand, raVars, soapVars
    <2>2. CommandTypes'
      BY <1>1, <1>2, <2>1 DEF CommandsOK, CommandTypes
    <2>3. SoapOK'
      BY <1>1, <1>3, <2>1 DEF CommandsOK, SoapOK
    <2>4. RaOK'
      BY <1>1, <1>3, <1>4, <1>5, <2>1 DEF CommandsOK, RaOK
    <2> QED BY <1>1, <2>2, <2>3, <2>4 DEF CommandsOK
  <1>7. CASE RaCommand(c)
    <2>1. /\ c.from = "ra" /\ ra = "prompt" /\ ra' = "waiting" /\ commandExecuting' = TRUE
          /\ overlapped' = (overlapped \/ phase = "reset") /\ soap' = soap /\ cli' = cli
      BY <1>7 DEF RaCommand, soapVars
    <2>2. CommandTypes'
      <3>1. overlapped' \in BOOLEAN /\ commandExecuting' \in BOOLEAN
        BY <2>1 DEF CommandsOK, CommandTypes
      <3>2. ra' \in RaStates
        BY <2>1 DEF RaStates
      <3> QED BY <1>1, <1>2, <2>1, <3>1, <3>2 DEF CommandsOK, CommandTypes
    <2>3. SoapOK'
      BY <1>1, <1>3, <2>1 DEF CommandsOK, SoapOK
    <2>4. RaOK'
      <3> SUFFICES ASSUME ~overlapped' PROVE RaOK'
        BY DEF RaOK
      <3>1. ~overlapped /\ phase # "reset"
        BY <2>1
      <3>2. Answered /\ ~Broken /\ ~crashed
        BY <2>1, <3>1 DEF CommandsOK, RaOK
      <3>3. ~InPlay("ra")
        BY <3>1, <3>2 DEF Answered, InPlay
      <3>4. OneInPlay("ra")'
        BY <1>2, <2>1, <3>3
      <3>5. /\ \A i \in 1..Len(raQueue') : raQueue'[i] = "break" => i = Len(raQueue')
            /\ ~Broken' /\ ra' = "waiting" /\ commandExecuting' /\ ~crashed'
        BY <1>1, <1>4, <2>1, <3>1, <3>2 DEF CommandsOK, RaOK
      <3> QED BY <3>4, <3>5 DEF RaOK
    <2> QED BY <1>1, <2>2, <2>3, <2>4 DEF CommandsOK
  <1>8. CASE SoapCommand(c)
    <2>1. /\ c.from = "soap" /\ soap = "accept" /\ soap' = "waiting" /\ ra' = ra /\ cli' = cli
          /\ commandExecuting' = commandExecuting /\ overlapped' = overlapped
      BY <1>8 DEF SoapCommand, raVars
    <2>2. CommandTypes'
      <3>1. soap' \in SoapStates
        BY <2>1 DEF SoapStates
      <3> QED BY <1>1, <1>2, <2>1, <3>1 DEF CommandsOK, CommandTypes
    <2>3. SoapOK'
      <3>1. ~InPlay("soap") /\ pendingCommands # 1 /\ pendingCommands \in 0..1
        BY <2>1 DEF CommandsOK, SoapOK, CommandTypes
      <3>2. pendingCommands = 0
        BY <3>1
      <3> QED BY <1>1, <1>2, <2>1, <3>1, <3>2 DEF SoapOK
    <2>4. RaOK'
      BY <1>1, <1>3, <1>4, <1>5, <2>1 DEF CommandsOK, RaOK
    <2> QED BY <1>1, <2>2, <2>3, <2>4 DEF CommandsOK
  <1> QED BY <1>6, <1>7, <1>8

(* The threads of the remote access socket *)
LEMMA RaKeepsCommands ==
    ASSUME CommandsOK, RaAccept \/ RaLogin \/ RaSent \/ RaQuit \/ RaThreadExit \/ RaStep
    PROVE  CommandsOK'
  <1>1. UNCHANGED <<cliCmdQueue, executing, phase, cli, soap, pendingCommands, sent, commandExecuting,
                    overlapped, crashed>>
    BY DEF RaAccept, RaQuit, RaThreadExit, RaStep, RaLogin, RaSent, RaGetq, RaHandleClose, worldVars,
           soapVars
  <1>2. SoapOK'
    BY <1>1, SamePlay DEF CommandsOK, SoapOK
  <1>3. CASE RaAccept \/ RaQuit \/ RaThreadExit \/ RaLogin \/ RaSent
    <2>1. /\ raQueue' = raQueue
          /\ ra' \in RaStates /\ raThread' \in {"accept", "exited"}
          /\ ra' = "freed" => ra = "freed"
          /\ ra' \in {"none", "login", "prompt"} => ra \in {"none", "login", "prompt"}
      BY <1>3 DEF RaAccept, RaQuit, RaThreadExit, RaLogin, RaSent, RaStates, CommandsOK, CommandTypes
    <2>2. CommandTypes'
      BY <1>1, <2>1 DEF CommandsOK, CommandTypes
    <2>3. RaOK'
      BY <1>1, <2>1, SamePlay DEF CommandsOK, RaOK, Broken
    <2> QED BY <1>1, <1>2, <2>2, <2>3 DEF CommandsOK
  <1>4. CASE RaGetq
    <2> DEFINE n == Len(raQueue)
    <2>1. /\ n \in Nat /\ n > 0 /\ Head(raQueue) = raQueue[1] /\ Len(raQueue') = n - 1
          /\ raQueue' \in Seq({"line", "break"})
          /\ \A i \in 1..(n - 1) : raQueue'[i] = raQueue[i + 1]
          /\ ra' = IF raQueue[1] = "break" THEN "prompt" ELSE "sending"
          /\ raThread' = raThread
      BY <1>4 DEF RaGetq, CommandsOK, CommandTypes
    <2>2. CommandTypes'
      <3>1. ra' \in RaStates
        BY <2>1 DEF RaStates
      <3> QED BY <1>1, <2>1, <3>1 DEF CommandsOK, CommandTypes
    <2>3. RaOK'
      <3> SUFFICES ASSUME ~overlapped PROVE RaOK'
        BY <1>1 DEF RaOK
      <3>1. /\ OneInPlay("ra") /\ (InPlay("ra") => commandExecuting) /\ ~crashed
            /\ \A i \in 1..n : raQueue[i] = "break" => i = n
            /\ Broken => Answered
        BY DEF CommandsOK, RaOK
      <3>2. \A i \in 1..(n - 1) : raQueue'[i] = "break" => i = n - 1
        <4>1. \A i \in 1..(n - 1) : i + 1 \in 1..n
          BY <2>1
        <4>2. \A i \in 1..(n - 1) : raQueue'[i] = "break" => i + 1 = n
          BY <2>1, <3>1, <4>1
        <4> QED BY <2>1, <4>2
      <3>3. Broken' => Broken
        <4>1. \A i \in 1..(n - 1) : i + 1 \in 1..n
          BY <2>1
        <4> QED BY <2>1, <4>1 DEF Broken
      <3>4. CASE raQueue[1] = "break"
        <4>1. n = 1 /\ Broken
          BY <2>1, <3>1, <3>4 DEF Broken
        <4>2. ~Broken' /\ ra' = "prompt"
          BY <2>1, <3>4, <4>1 DEF Broken
        <4> QED BY <1>1, <2>1, <3>1, <3>2, <4>1, <4>2, SamePlay DEF RaOK
      <3>5. CASE raQueue[1] # "break"
        <4>1. ra' = "sending"
          BY <2>1, <3>5
        <4> QED BY <1>1, <2>1, <3>1, <3>2, <3>3, <4>1, SamePlay DEF RaOK
      <3> QED BY <3>4, <3>5
    <2> QED BY <1>1, <1>2, <2>2, <2>3 DEF CommandsOK
  <1>5. CASE RaHandleClose
    <2>1. ra' = "freed" /\ raQueue' = <<>> /\ ~commandExecuting /\ raThread' = raThread
      BY <1>5 DEF RaHandleClose, MayDestroy
    <2>2. CommandTypes'
      <3>1. ra' \in RaStates /\ raQueue' \in Seq({"line", "break"})
        BY <2>1 DEF RaStates
      <3> QED BY <1>1, <2>1, <3>1 DEF CommandsOK, CommandTypes
    <2>3. RaOK'
      <3>1. Len(raQueue') = 0
        BY <2>1
      <3> QED BY <1>1, <2>1, <3>1, SamePlay DEF CommandsOK, RaOK, Broken
    <2> QED BY <1>1, <1>2, <2>2, <2>3 DEF CommandsOK
  <1> QED BY <1>3, <1>4, <1>5 DEF RaStep

LEMMA SoapKeepsCommands ==
    ASSUME CommandsOK, SoapNothing \/ SoapStep
    PROVE  CommandsOK'
  <1>1. UNCHANGED <<cliCmdQueue, executing, phase, cli, ra, raQueue, raThread, sent, commandExecuting,
                    overlapped, crashed>>
    BY DEF SoapNothing, SoapStep, SoapTest, SoapReply, worldVars, raVars
  <1>2. RaOK'
    BY <1>1, SamePlay DEF CommandsOK, RaOK, Broken
  <1>3. pendingCommands \in 0..1
    BY DEF CommandsOK, CommandTypes
  <1>4. CASE SoapNothing \/ SoapTest
    <2>1. /\ soap # "waiting" /\ soap' \in SoapStates /\ pendingCommands' = pendingCommands
      BY <1>4 DEF SoapNothing, SoapTest, SoapStates
    <2>2. CommandTypes'
      BY <1>1, <2>1 DEF CommandsOK, CommandTypes
    <2>3. SoapOK'
      BY <1>1, <2>1, SamePlay DEF CommandsOK, SoapOK
    <2> QED BY <1>1, <1>2, <2>2, <2>3 DEF CommandsOK
  <1>5. CASE SoapReply
    <2>1. soap' = "test" /\ soap' \in SoapStates /\ pendingCommands = 1 /\ pendingCommands' = 0
      BY <1>3, <1>5 DEF SoapReply, SoapStates
    <2>2. CommandTypes'
      BY <1>1, <2>1 DEF CommandsOK, CommandTypes
    <2>3. SoapOK'
      BY <1>1, <2>1, SamePlay DEF CommandsOK, SoapOK
    <2> QED BY <1>1, <1>2, <2>2, <2>3 DEF CommandsOK
  <1> QED BY <1>4, <1>5 DEF SoapStep

LEMMA LineFacts ==
    ASSUME CommandTypes, NEW x \in {"line", "break"}
    PROVE  LET q == Append(raQueue, x) IN
           /\ Len(raQueue) \in Nat /\ q \in Seq({"line", "break"}) /\ Len(q) = Len(raQueue) + 1
           /\ q[Len(raQueue) + 1] = x
           /\ \A i \in 1..Len(raQueue) : q[i] = raQueue[i]
           /\ 1..(Len(raQueue) + 1) = 1..Len(raQueue) \cup {Len(raQueue) + 1}
  BY DEF CommandTypes

(* ProcessCliCommands up to commandFinished *)
LEMMA ExecutingKeepsCommands ==
    ASSUME CommandsOK, ConsoleTypeOK, NextCommand \/ Zprint \/ ParseCommands(InSessions)
    PROVE  CommandsOK'
  <1>1. UNCHANGED <<cli, ra, raThread, soap, pendingCommands, sent, commandExecuting, overlapped>>
    BY DEF NextCommand, Zprint, ParseCommands, raVars, soapVars
  <1>2. CASE NextCommand
    <2>1. /\ phase = "none" /\ phase' = "parse" /\ raQueue' = raQueue /\ crashed' = crashed
      BY <1>2 DEF NextCommand, raVars
    <2>2. CommandTypes'
      BY <1>1, <1>2, <2>1, CommandTaken DEF CommandsOK, CommandTypes, Phases
    <2>3. SoapOK'
      BY <1>1, <1>2, CommandTaken DEF CommandsOK, SoapOK
    <2>4. RaOK'
      <3>1. Broken' <=> Broken
        BY <2>1 DEF Broken
      <3>2. Answered => Answered'
        BY <1>2, CommandTaken DEF Answered
      <3> QED BY <1>1, <1>2, <2>1, <3>1, <3>2, CommandTaken DEF CommandsOK, RaOK
    <2> QED BY <2>1, <2>2, <2>3, <2>4 DEF CommandsOK
  <1>3. CASE Zprint
    <2>1. /\ phase = "parse" /\ phase' = "parse" /\ cliCmdQueue' = cliCmdQueue
          /\ executing.lines > 0 /\ executing' = [executing EXCEPT !.lines = @ - 1]
      BY <1>3 DEF Zprint
    <2>2. executing' \in Commands /\ executing'.from = executing.from
      <3>1. executing \in [from : Terminals, kind : Kinds, time : 0..MaxTime, lines : 0..MaxLines]
        BY DEF ConsoleTypeOK, Commands
      <3>2. executing.lines - 1 \in 0..MaxLines
        BY <2>1, <3>1, ConsoleAssumption
      <3> QED BY <2>1, <3>1, <3>2 DEF Commands
    <2>3. /\ \A t : QueuedFrom(t)' = QueuedFrom(t) /\ (Executing(t)' <=> Executing(t))
      BY <2>1, <2>2 DEF QueuedFrom, Executing
    <2>4. /\ \A t : (InPlay(t)' <=> InPlay(t)) /\ (OneInPlay(t)' <=> OneInPlay(t))
          /\ Answered' <=> Answered
      BY <2>1, <2>3 DEF InPlay, OneInPlay, Answered
    <2>5. SoapOK'
      BY <1>1, <2>4 DEF CommandsOK, SoapOK
    <2>6. CASE raQueue' = raQueue /\ crashed' = crashed
      <3>1. CommandTypes'
        BY <1>1, <2>1, <2>2, <2>6 DEF CommandsOK, CommandTypes
      <3>2. RaOK'
        BY <1>1, <2>4, <2>6 DEF CommandsOK, RaOK, Broken
      <3> QED BY <2>1, <2>5, <3>1, <3>2 DEF CommandsOK
    <2>7. CASE executing.from = "ra" /\ ra = "freed" /\ crashed' = TRUE /\ raQueue' = raQueue
      <3>1. CommandTypes'
        BY <1>1, <2>1, <2>2, <2>7 DEF CommandsOK, CommandTypes
      <3>2. overlapped
        BY <2>1, <2>7 DEF CommandsOK, RaOK, InPlay, Executing
      <3> QED BY <1>1, <2>1, <2>5, <3>1, <3>2 DEF CommandsOK, RaOK
    <2>8. CASE executing.from = "ra" /\ raQueue' = Append(raQueue, "line") /\ crashed' = crashed
      <3>1. /\ Len(raQueue) \in Nat /\ raQueue' \in Seq({"line", "break"})
            /\ Len(raQueue') = Len(raQueue) + 1 /\ raQueue'[Len(raQueue) + 1] = "line"
            /\ \A i \in 1..Len(raQueue) : raQueue'[i] = raQueue[i]
            /\ 1..(Len(raQueue) + 1) = 1..Len(raQueue) \cup {Len(raQueue) + 1}
        BY <2>8, LineFacts DEF CommandsOK
      <3>2. CommandTypes'
        BY <1>1, <2>1, <2>2, <2>8, <3>1 DEF CommandsOK, CommandTypes
      <3>3. RaOK'
        <4>1. ~Answered
          BY <2>1, <2>8 DEF Answered, Executing
        <4>2. ~overlapped => ~Broken'
          <5>1. ~overlapped => ~Broken
            BY <4>1 DEF CommandsOK, RaOK
          <5> QED BY <3>1, <5>1 DEF Broken
        <4> QED BY <1>1, <2>4, <2>8, <4>1, <4>2 DEF CommandsOK, RaOK, Broken
      <3> QED BY <2>1, <2>5, <3>2, <3>3 DEF CommandsOK
    <2>9. \/ raQueue' = raQueue /\ crashed' = crashed
          \/ executing.from = "ra" /\ ra = "freed" /\ crashed' = TRUE /\ raQueue' = raQueue
          \/ executing.from = "ra" /\ raQueue' = Append(raQueue, "line") /\ crashed' = crashed
      BY <1>3 DEF Zprint
    <2> QED BY <2>6, <2>7, <2>8, <2>9
  <1>4. CASE ParseCommands(InSessions)
    <2>1. /\ phase = "parse" /\ phase' = "finish" /\ cliCmdQueue' = cliCmdQueue
          /\ executing' = executing /\ raQueue' = raQueue /\ crashed' = crashed
      BY <1>4 DEF ParseCommands, raVars
    <2>2. \A t : QueuedFrom(t)' = QueuedFrom(t) /\ (Executing(t)' <=> Executing(t))
      BY <2>1 DEF QueuedFrom, Executing
    <2>3. /\ \A t : (InPlay(t)' <=> InPlay(t)) /\ (OneInPlay(t)' <=> OneInPlay(t))
          /\ Answered' <=> Answered
      BY <2>1, <2>2 DEF InPlay, OneInPlay, Answered
    <2>4. CommandTypes'
      BY <1>1, <2>1 DEF CommandsOK, CommandTypes, Phases
    <2>5. SoapOK' /\ RaOK'
      BY <1>1, <2>1, <2>3 DEF CommandsOK, SoapOK, RaOK, Broken
    <2> QED BY <2>1, <2>4, <2>5 DEF CommandsOK
  <1> QED BY <1>2, <1>3, <1>4

LEMMA NoCommandType == NoCommand \in Commands
  BY ConsoleAssumption DEF NoCommand, Commands, Terminals, Kinds

(* commandFinished *)
LEMMA FinishingKeepsCommands ==
    ASSUME CommandsOK, CommandFinished \/ RaCommandFinished \/ RaCommandReset \/ RaCommandFreed
    PROVE  CommandsOK'
  <1>1. UNCHANGED <<cliCmdQueue, cli, ra, raThread, soap, sent, overlapped>>
    BY DEF CommandFinished, RaCommandFinished, RaCommandReset, RaCommandFreed, worldVars, raVars, soapVars
  <1>2. \A t : QueuedFrom(t)' = QueuedFrom(t)
    BY <1>1 DEF QueuedFrom
  <1>3. CASE CommandFinished
    <2>1. /\ phase = "finish" /\ phase' = "none" /\ executing.from # "ra" /\ executing' = NoCommand
          /\ raQueue' = raQueue /\ crashed' = crashed /\ commandExecuting' = commandExecuting
          /\ pendingCommands' = IF executing.from = "soap" THEN pendingCommands + 1 ELSE pendingCommands
      BY <1>3 DEF CommandFinished, raVars
    <2>2. \A t : ~Executing(t)' /\ (InPlay(t)' => InPlay(t)) /\ (OneInPlay(t) => OneInPlay(t)')
      BY <1>2, <2>1 DEF Executing, InPlay, OneInPlay
    <2>3. pendingCommands \in 0..1 /\ SoapOK /\ RaOK /\ CommandTypes
      BY DEF CommandsOK, CommandTypes
    <2>4. CASE executing.from = "soap"
      <3>1. Executing("soap")
        BY <2>1, <2>4 DEF Executing
      <3>2. /\ pendingCommands = 0 /\ soap = "waiting" /\ QueuedFrom("soap") = {}
        BY <2>3, <3>1 DEF SoapOK, InPlay, OneInPlay
      <3>3. pendingCommands' = 1 /\ ~InPlay("soap")'
        BY <1>2, <2>1, <2>2, <2>4, <3>2 DEF InPlay
      <3> QED BY <1>1, <2>2, <2>3, <3>2, <3>3, <2>1, <1>2, NoCommandType
              DEF CommandsOK, SoapOK, RaOK, CommandTypes, Phases, Answered, Broken
    <2>5. CASE executing.from # "soap"
      <3>1. SoapOK'
        BY <1>1, <2>1, <2>2, <2>3, <2>5 DEF SoapOK
      <3>2. RaOK'
        BY <1>1, <1>2, <2>1, <2>2, <2>3 DEF RaOK, Answered, Broken
      <3>3. CommandTypes'
        BY <1>1, <2>1, <2>3, <2>5, NoCommandType DEF CommandTypes, Phases
      <3> QED BY <2>1, <3>1, <3>2, <3>3 DEF CommandsOK
    <2> QED BY <2>4, <2>5
  <1>4. CASE RaCommandFinished
    <2>1. /\ phase = "finish" /\ phase' = "reset" /\ executing.from = "ra" /\ executing' = executing
          /\ raQueue' = Append(raQueue, "break") /\ crashed' = crashed
          /\ commandExecuting' = commandExecuting /\ pendingCommands' = pendingCommands
      BY <1>4 DEF RaCommandFinished, soapVars
    <2>2. \A t : Executing(t)' <=> Executing(t)
      BY <2>1 DEF Executing
    <2>3. \A t : (InPlay(t)' <=> InPlay(t)) /\ (OneInPlay(t)' <=> OneInPlay(t))
      BY <1>2, <2>2 DEF InPlay, OneInPlay
    <2>4. /\ Len(raQueue) \in Nat /\ raQueue' \in Seq({"line", "break"})
          /\ Len(raQueue') = Len(raQueue) + 1
          /\ \A i \in 1..Len(raQueue) : raQueue'[i] = raQueue[i]
          /\ 1..(Len(raQueue) + 1) = 1..Len(raQueue) \cup {Len(raQueue) + 1}
      BY <2>1, LineFacts DEF CommandsOK
    <2>5. CommandTypes'
      BY <1>1, <2>1, <2>4 DEF CommandsOK, CommandTypes, Phases
    <2>6. SoapOK'
      BY <1>1, <2>1, <2>3 DEF CommandsOK, SoapOK
    <2>7. RaOK'
      <3> SUFFICES ASSUME ~overlapped PROVE RaOK'
        BY <1>1 DEF RaOK
      <3>1. Executing("ra") /\ ~Answered
        BY <2>1 DEF Executing, Answered
      <3>2. ~Broken /\ ra \notin {"none", "login", "prompt"} /\ OneInPlay("ra") /\ commandExecuting
            /\ ra # "freed" /\ ~crashed
        BY <3>1 DEF CommandsOK, RaOK, InPlay
      <3>3. Answered'
        BY <1>2, <2>1, <3>1, <3>2 DEF Answered, OneInPlay
      <3>4. \A i \in 1..Len(raQueue') : raQueue'[i] = "break" => i = Len(raQueue')
        BY <2>4, <3>2 DEF Broken
      <3> QED BY <1>1, <2>1, <2>3, <3>2, <3>3, <3>4 DEF RaOK
    <2> QED BY <2>1, <2>5, <2>6, <2>7 DEF CommandsOK
  <1>5. CASE RaCommandReset
    <2>1. /\ phase = "reset" /\ phase' = "none" /\ executing' = NoCommand /\ ra # "freed"
          /\ raQueue' = raQueue /\ crashed' = crashed
          /\ commandExecuting' = FALSE /\ pendingCommands' = pendingCommands
      BY <1>5 DEF RaCommandReset, soapVars
    <2>2. \A t : ~Executing(t)' /\ (InPlay(t)' => InPlay(t)) /\ (OneInPlay(t) => OneInPlay(t)')
      BY <1>2, <2>1 DEF Executing, InPlay, OneInPlay
    <2>3. CommandTypes'
      BY <1>1, <2>1, NoCommandType DEF CommandsOK, CommandTypes, Phases
    <2>4. SoapOK'
      BY <1>1, <2>1, <2>2 DEF CommandsOK, SoapOK
    <2>5. RaOK'
      <3> SUFFICES ASSUME ~overlapped PROVE RaOK'
        BY <1>1 DEF RaOK
      <3>1. Executing("ra") /\ OneInPlay("ra") /\ ~crashed
        BY <2>1 DEF Executing, CommandsOK, RaOK
      <3>2. ~InPlay("ra")' /\ Answered'
        BY <1>2, <2>2, <3>1 DEF InPlay, OneInPlay, Answered
      <3> QED BY <1>1, <2>1, <2>2, <3>1, <3>2 DEF CommandsOK, RaOK, Broken
    <2> QED BY <2>1, <2>3, <2>4, <2>5 DEF CommandsOK
  <1>6. CASE RaCommandFreed
    <2>1. /\ phase # "none" /\ executing.from = "ra" /\ ra = "freed" /\ crashed' = TRUE
          /\ phase' = phase /\ executing' = executing
          /\ raQueue' = raQueue /\ commandExecuting' = commandExecuting
          /\ pendingCommands' = pendingCommands
      BY <1>6 DEF RaCommandFreed, worldVars, raVars, soapVars
    <2>2. overlapped
      BY <2>1 DEF CommandsOK, RaOK, InPlay, Executing
    <2>3. CommandTypes'
      BY <1>1, <2>1 DEF CommandsOK, CommandTypes
    <2>4. SoapOK'
      BY <1>1, <2>1, SamePlay DEF CommandsOK, SoapOK
    <2> QED BY <1>1, <2>1, <2>2, <2>3, <2>4 DEF CommandsOK, RaOK
  <1> QED BY <1>3, <1>4, <1>5, <1>6

LEMMA CommandStep ==
    ASSUME ConsoleInv, ConsoleStep
    PROVE  CommandsOK'
  <1>1. CommandsOK /\ ConsoleTypeOK
    BY TypesSplit DEF ConsoleInv, CommandsOK
  <1>2. CASE \/ /\ \E elapsed \in 0..MaxElapsed : UpdateShutdownTimer(elapsed, InSessions)
                /\ UNCHANGED <<worldVars, cli, raVars, soapVars, sent, crashed>>
             \/ \E code \in ExitCodes : HandleSignal(code)
             \/ CliEof \/ UNCHANGED consoleVars
    <2>1. UNCHANGED <<worldVars, raVars, soapVars, sent, crashed>> /\ cli' \in {cli, "exited"}
      BY <1>2 DEF HandleSignal, CliEof, consoleVars
    <2>2. cli' \in {"read", "exited"}
      BY <1>1, <2>1 DEF ConsoleTypeOK
    <2> QED BY <1>1, <2>1, <2>2, ProcessingNothing
  <1>3. CASE \E c \in Commands : CliCommand(c) \/ RaCommand(c) \/ SoapCommand(c)
    BY <1>1, <1>3, GivingKeepsCommands
  <1>4. CASE RaAccept \/ RaLogin \/ RaSent \/ RaQuit \/ RaThreadExit \/ RaStep
    BY <1>1, <1>4, RaKeepsCommands
  <1>5. CASE SoapNothing \/ SoapStep
    BY <1>1, <1>5, SoapKeepsCommands
  <1>6. CASE ProcessCliCommands(InSessions)
    BY <1>1, <1>6, ExecutingKeepsCommands, FinishingKeepsCommands DEF ProcessCliCommands
  <1> QED BY <1>2, <1>3, <1>4, <1>5, <1>6 DEF ConsoleStep

-----------------------------------------------------------------------------
(* Every behaviour *)

LEMMA InitConsoles == Init => ConsoleInv
  <1> SUFFICES ASSUME Init PROVE ConsoleInv
    OBVIOUS
  <1>1. ConsoleInit /\ scenario \in Scenarios
    BY DEF Init
  <1>2. StopTypes /\ StopOK
    <2>1. /\ m_stopEvent = FALSE /\ m_ExitCode = "SHUTDOWN" /\ m_ShutdownTimer = 0
          /\ m_ShutdownMask = FALSE /\ inForce = NoRequest /\ stoppedBy = "none"
      BY <1>1 DEF ConsoleInit
    <2>2. m_stopEvent \in BOOLEAN /\ m_ShutdownMask \in BOOLEAN
      BY <2>1
    <2>3. inForce \in Requests \cup {NoRequest}
      BY <2>1
    <2> QED BY <2>1, <2>2, <2>3, ConsoleAssumption DEF StopTypes, StopOK, ExitCodes, Stops
  <1>3. /\ cliCmdQueue = <<>> /\ executing = NoCommand /\ phase = "none" /\ ra = "none" /\ raQueue = <<>>
        /\ commandExecuting = FALSE /\ pendingCommands = 0 /\ overlapped = FALSE /\ crashed = FALSE
        /\ soap \in {"test", "exited"} /\ cli \in {"read", "exited"} /\ raThread \in {"accept", "exited"}
        /\ sent = [t \in Terminals |-> 0]
    BY <1>1 DEF ConsoleInit
  <1>4. CommandTypes
    <2>1. cliCmdQueue \in Seq(Commands) /\ raQueue \in Seq({"line", "break"}) /\ executing \in Commands
      BY <1>3, NoCommandType
    <2>2. phase \in Phases /\ ra \in RaStates /\ soap \in SoapStates /\ sent \in [Terminals -> Nat]
          /\ pendingCommands \in 0..1
      BY <1>3 DEF Phases, RaStates, SoapStates
    <2> QED BY <1>3, <2>1, <2>2 DEF CommandTypes
  <1>5. /\ \A t : QueuedFrom(t) = {} /\ ~Executing(t)
        /\ Len(raQueue) = 0
    BY <1>3 DEF QueuedFrom, Executing
  <1>6. SoapOK
    BY <1>3, <1>5 DEF SoapOK, InPlay, OneInPlay
  <1>7. RaOK
    BY <1>3, <1>5 DEF RaOK, InPlay, OneInPlay, Answered, Broken
  <1> QED BY <1>1, <1>2, <1>3, <1>4, <1>6, <1>7, TypesSplit DEF ConsoleInv

LEMMA NextConsoles == ConsoleInv /\ [Next]_vars => ConsoleInv' /\ Honoured
  <1> SUFFICES ASSUME ConsoleInv, [Next]_vars PROVE ConsoleInv' /\ Honoured
    OBVIOUS
  <1>1. ConsoleStep /\ scenario' = scenario /\ scenario \in Scenarios
    BY StepOfConsoles DEF ConsoleInv
  <1>2. StopTypes' /\ StopOK' /\ Honoured
    BY <1>1, StopStep
  <1>3. CommandTypes' /\ SoapOK' /\ RaOK' /\ (phase' = "reset" => executing'.from = "ra")
    BY <1>1, CommandStep DEF CommandsOK
  <1>4. ConsoleTypeOK'
    BY <1>2, <1>3 DEF ConsoleTypeOK, StopTypes, CommandTypes
  <1> QED BY <1>1, <1>2, <1>3, <1>4 DEF ConsoleInv

(* However many commands the consoles give, and wherever the remote access  *)
(* client closes its connection, the world thread uses a destroyed socket   *)
(* only if a command set _commandExecuting between commandFinished's last   *)
(* message and its reset.                                                   *)
THEOREM SocketOutlivesCommand == Spec => []NoFreedSocket
  <1>1. ConsoleInv => NoFreedSocket
    BY DEF ConsoleInv, RaOK, NoFreedSocket, ConsoleTypeOK
  <1> QED BY InitConsoles, NextConsoles, <1>1, PTL DEF Spec

(* The world is stopped for a shutdown request only while it is in force,   *)
(* with its exit code, and for an idle one only without sessions, in any    *)
(* sequence of shutdown, restart, cancel and exit commands and signals.     *)
THEOREM StopsAsAsked == Spec => StopHonoursRequest
  <1>1. ConsoleInv /\ [Next]_vars =>
          [stoppedBy # "request" /\ stoppedBy' = "request" =>
              /\ inForce' # NoRequest /\ m_ExitCode' = inForce'.code
              /\ inForce'.idle => ~InSessions]_vars
    BY NextConsoles DEF Honoured
  <1> QED BY InitConsoles, NextConsoles, <1>1, PTL DEF Spec, StopHonoursRequest
=============================================================================
