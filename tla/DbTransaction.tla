--------------------------- MODULE DbTransaction ---------------------------
(***************************************************************************)
(* Execution of queued transactions on one MySQL connection:               *)
(* TransactionTask::Execute (shared/Database/Transaction.cpp) over         *)
(* MySQLConnection::ExecuteTransaction, Execute and _HandleMySQLErrno      *)
(* (shared/Database/MySQLConnection.cpp).                                  *)
(*                                                                         *)
(* ExecuteTransaction sends START TRANSACTION, the statements and COMMIT,  *)
(* or ROLLBACK after a statement that failed.  Every command goes through  *)
(* Execute, which on a lost connection reconnects and sends the same       *)
(* command again.  One step is one command (mysql_query or                 *)
(* mysql_stmt_execute) or one attempt to reconnect.                        *)
(*                                                                         *)
(* The database server is external: a session either runs in autocommit    *)
(* mode, where a statement takes effect at once, or inside a transaction,  *)
(* whose effects are lost with the session and on a deadlock.              *)
(***************************************************************************)
EXTENDS Integers, Sequences, SequencesExt

CONSTANTS
    Size,           \* Size[t]: number of statements of transaction t
    LoopBreaker,    \* reruns of a deadlocked transaction
    Faults,         \* what may go wrong with a command
    Reconnects,     \* what may come of MySQLConnection::Open
    MaxFaults       \* bound on faults and failed reconnections together

ASSUME DbAssumption ==
    /\ Size \in Seq(Nat)
    /\ LoopBreaker \in Nat /\ MaxFaults \in Nat
    /\ Faults \subseteq {"deadlock", "skip", "fatal", "lost", "replyLost"}
    /\ Reconnects \subseteq {"ok", "refused", "prepareFailed"}

VARIABLES
    handle,         \* m_Mysql # NULL
    m_prepareError, \* a statement could not be prepared; never reset
    errno,          \* mysql_errno(m_Mysql)
    inTransaction,  \* server: the session has an open transaction
    uncommitted,    \* server: its statements so far
    committed,      \* server: the statements that took effect
    task,           \* transaction the worker is at; 0 before the first
    phase,          \* where the worker is, see Phases
    cmd,            \* command Execute is sending
    pos,            \* statement the iterator of ExecuteTransaction is at
    attempt,        \* calls of ExecuteTransaction for this task but the first
    result,         \* history: what Execute returned for each transaction
    deadlocks,      \* history: deadlocks each transaction met
    repliesLost,    \* history: a command took effect but its reply was lost
    disturbed,      \* history: <<transaction, command>> that met a new session,
                    \* or that is no statement and was refused
    faults          \* faults so far

connection == <<handle, m_prepareError, errno>>
server     == <<inTransaction, uncommitted, committed>>
worker     == <<task, phase, cmd, pos, attempt, result>>
history    == <<deadlocks, repliesLost, disturbed, faults>>
vars       == <<connection, server, worker, history>>

Transactions == DOMAIN Size
Phases   == {"idle", "query", "reconnect", "aborted"}
Commands == {"START TRANSACTION", "statement", "ROLLBACK", "COMMIT"}
Errnos   == {"none", "lost", "deadlock", "skip"}
Results  == {"none", "true", "false"}

(* Type invariant; a transaction is never rerun more than LoopBreaker times. *)
TypeOK ==
    /\ handle \in BOOLEAN /\ m_prepareError \in BOOLEAN /\ errno \in Errnos
    /\ inTransaction \in BOOLEAN
    /\ uncommitted \in Seq(Transactions \X Nat)
    /\ committed \in Seq(Transactions \X Nat)
    /\ task \in 0..Len(Size) /\ phase \in Phases /\ cmd \in Commands
    /\ pos \in Nat /\ attempt \in 0..LoopBreaker
    /\ result \in [Transactions -> Results]
    /\ deadlocks \in [Transactions -> Nat]
    /\ repliesLost \in BOOLEAN /\ disturbed \subseteq Transactions \X Commands
    /\ faults \in 0..MaxFaults

Init ==
    /\ handle = TRUE /\ m_prepareError = FALSE /\ errno = "none"
    /\ inTransaction = FALSE /\ uncommitted = <<>> /\ committed = <<>>
    /\ task = 0 /\ phase = "idle" /\ cmd = "COMMIT" /\ pos = 0 /\ attempt = 0
    /\ result = [t \in Transactions |-> "none"]
    /\ deadlocks = [t \in Transactions |-> 0]
    /\ repliesLost = FALSE /\ disturbed = {} /\ faults = 0

-----------------------------------------------------------------------------
(* The MySQL server (external) *)

(* The session executes the command. START TRANSACTION commits what a       *)
(* previous transaction left open.                                          *)
ServerExecutes(c) ==
    CASE c = "START TRANSACTION" ->
            /\ committed' = committed \o uncommitted
            /\ inTransaction' = TRUE /\ uncommitted' = <<>>
      [] c = "statement" /\ inTransaction ->
            /\ uncommitted' = Append(uncommitted, <<task, pos>>)
            /\ UNCHANGED <<inTransaction, committed>>
      [] c = "statement" /\ ~inTransaction ->
            /\ committed' = Append(committed, <<task, pos>>)
            /\ UNCHANGED <<inTransaction, uncommitted>>
      [] c = "COMMIT" ->
            /\ committed' = committed \o uncommitted
            /\ inTransaction' = FALSE /\ uncommitted' = <<>>
      [] c = "ROLLBACK" ->
            /\ inTransaction' = FALSE /\ uncommitted' = <<>>
            /\ UNCHANGED committed

(* The server ends the transaction: the session is gone, or a deadlock. *)
ServerDropsTransaction ==
    /\ inTransaction' = FALSE /\ uncommitted' = <<>>
    /\ UNCHANGED committed

(* The session executes the command and is gone before it can answer. *)
ServerExecutesAndDies(c) ==
    /\ inTransaction' = FALSE /\ uncommitted' = <<>>
    /\ committed' =
        CASE c \in {"COMMIT", "START TRANSACTION"} -> committed \o uncommitted
          [] c = "statement" /\ ~inTransaction -> Append(committed, <<task, pos>>)
          [] OTHER -> committed

-----------------------------------------------------------------------------
(* ExecuteTransaction and its callers, as control flow between commands *)

Goto(c, p) == phase' = "query" /\ cmd' = c /\ pos' = p

Finish(r) ==
    /\ phase' = "idle" /\ result' = [result EXCEPT ![task] = r]
    /\ UNCHANGED <<task, cmd, pos, attempt>>

ExecuteTransaction == Goto("START TRANSACTION", 0)

(* GetLastError() == 1213 decides about the first rerun; the following ones *)
(* depend only on the result of ExecuteTransaction.  e is mysql_errno after *)
(* the last command, the ROLLBACK.                                          *)
Rerun(e) == attempt > 0 \/ e = "deadlock"

TransactionFailed_Unbounded(e) ==
    attempt' = attempt + 1 /\ ExecuteTransaction /\ UNCHANGED <<task, result>>

TransactionFailed(e) ==
    IF Rerun(e) /\ attempt < LoopBreaker
    THEN attempt' = attempt + 1 /\ ExecuteTransaction /\ UNCHANGED <<task, result>>
    ELSE Finish("false")

(* What Execute(stmt) returning r leads to. *)
NextStatement ==
    /\ IF pos < Size[task] THEN Goto("statement", pos + 1) ELSE Goto("COMMIT", pos)
    /\ UNCHANGED <<task, attempt, result>>

Rollback == Goto("ROLLBACK", pos) /\ UNCHANGED <<task, attempt, result>>

AfterStatement_SkipsFailed(r) == NextStatement

AfterStatement_NoRollback(r) == IF r THEN NextStatement ELSE TransactionFailed("skip")

AfterStatement(r) == IF r THEN NextStatement ELSE Rollback

(* Execute(cmd) returns r. The results of START TRANSACTION, COMMIT and     *)
(* ROLLBACK are ignored.                                                    *)
ExecuteReturns(r, e) ==
    CASE cmd = "START TRANSACTION" -> Goto("statement", 1) /\ UNCHANGED <<task, attempt, result>>
      [] cmd = "statement" -> AfterStatement(r)
      [] cmd = "COMMIT"    -> Finish("true")
      [] cmd = "ROLLBACK"  -> TransactionFailed(e)

(* DatabaseWorker::svc dequeues the next task. *)
Dequeue ==
    /\ phase = "idle" /\ task < Len(Size)
    /\ task' = task + 1 /\ attempt' = 0
    /\ IF Size[task'] = 0      \* ExecuteTransaction returns at once
       THEN /\ result' = [result EXCEPT ![task'] = "false"]
            /\ UNCHANGED <<phase, cmd, pos>>
       ELSE ExecuteTransaction /\ UNCHANGED result
    /\ UNCHANGED <<connection, server, history>>

-----------------------------------------------------------------------------
(* MySQLConnection::Execute *)

(* m_Mysql is NULL after a failed reconnection: nothing is sent. *)
QueryWithoutConnection ==
    /\ phase = "query" /\ ~handle
    /\ ExecuteReturns(FALSE, errno)
    /\ UNCHANGED <<connection, server, history>>

QuerySucceeds ==
    /\ phase = "query" /\ handle
    /\ ServerExecutes(cmd)
    /\ errno' = "none"
    /\ ExecuteReturns(TRUE, "none")
    /\ UNCHANGED <<handle, m_prepareError, history>>

Fault(f) == f \in Faults /\ faults < MaxFaults /\ faults' = faults + 1

(* The server refuses a command other than a statement: nothing in          *)
(* ExecuteTransaction looks at its result.                                  *)
Refused == disturbed' = disturbed \cup {c \in {<<task, cmd>>} : cmd # "statement"}

(* ER_LOCK_DEADLOCK, met by a statement or reported for the COMMIT:         *)
(* _HandleMySQLErrno returns false.                                         *)
QueryDeadlocks ==
    /\ phase = "query" /\ handle /\ cmd \in {"statement", "COMMIT"} /\ Fault("deadlock")
    /\ ServerDropsTransaction /\ Refused
    /\ errno' = "deadlock"
    /\ deadlocks' = [deadlocks EXCEPT ![task] = @ + 1]
    /\ ExecuteReturns(FALSE, "deadlock")
    /\ UNCHANGED <<handle, m_prepareError, repliesLost>>

(* ER_WRONG_VALUE_COUNT, ER_DUP_ENTRY and every error without a case: the   *)
(* command has no effect, except that a COMMIT or ROLLBACK that fails still *)
(* ends the transaction, whose effects are lost.                            *)
QueryFails ==
    /\ phase = "query" /\ handle /\ Fault("skip")
    /\ IF cmd = "statement" THEN UNCHANGED server ELSE ServerDropsTransaction
    /\ Refused
    /\ errno' = "skip"
    /\ ExecuteReturns(FALSE, "skip")
    /\ UNCHANGED <<handle, m_prepareError, deadlocks, repliesLost>>

(* ER_BAD_FIELD_ERROR, ER_NO_SUCH_TABLE, ER_PARSE_ERROR: std::abort. *)
StatementAborts ==
    /\ phase = "query" /\ handle /\ cmd = "statement" /\ Fault("fatal")
    /\ phase' = "aborted"
    /\ ServerDropsTransaction
    /\ UNCHANGED <<connection, task, cmd, pos, attempt, result, deadlocks, repliesLost, disturbed>>

(* CR_SERVER_GONE_ERROR, CR_SERVER_LOST, ...: the connection is closed and  *)
(* _HandleMySQLErrno goes on to reopen it.                                  *)
ConnectionLost(f) ==
    /\ phase = "query" /\ handle /\ Fault(f)
    /\ errno' = "lost" /\ phase' = "reconnect"
    /\ UNCHANGED <<handle, m_prepareError, task, cmd, pos, attempt, result, deadlocks, disturbed>>

LostBeforeEffect ==
    /\ ConnectionLost("lost") /\ ServerDropsTransaction
    /\ UNCHANGED repliesLost

LostAfterEffect ==
    /\ ConnectionLost("replyLost") /\ ServerExecutesAndDies(cmd)
    /\ repliesLost' = TRUE

-----------------------------------------------------------------------------
(* _HandleMySQLErrno reopening the connection *)

NewSession == disturbed' = disturbed \cup {<<task, cmd>>}

(* A new session in autocommit mode; Execute sends its command again. *)
Resend_FromFirst == Goto(cmd, IF cmd = "statement" THEN 1 ELSE pos)

Resend == Goto(cmd, pos)

ReconnectSucceeds ==
    /\ phase = "reconnect" /\ "ok" \in Reconnects /\ ~m_prepareError
    /\ handle' = TRUE /\ errno' = "none"
    /\ Resend /\ NewSession
    /\ UNCHANGED <<m_prepareError, server, task, attempt, result, deadlocks, repliesLost, faults>>

(* mysql_real_connect fails: m_Mysql becomes NULL, mysql_errno(NULL) is 0,  *)
(* which _HandleMySQLErrno does not know.                                   *)
ReconnectRefused ==
    /\ phase = "reconnect" /\ "refused" \in Reconnects
    /\ handle' = FALSE /\ errno' = "none"
    /\ ExecuteReturns(FALSE, "none")
    /\ UNCHANGED <<m_prepareError, server, history>>

(* The session opens but a statement cannot be prepared on it.  If that is  *)
(* because the new session is lost too, _HandleMySQLErrno calls itself.     *)
ReconnectPrepareFails ==
    /\ phase = "reconnect" /\ Fault("lost") /\ "prepareFailed" \in Reconnects
    /\ ~m_prepareError
    /\ handle' = TRUE /\ m_prepareError' = TRUE /\ NewSession
    /\ \/ /\ errno' = "none" /\ ExecuteReturns(FALSE, "none")
       \/ /\ errno' = "lost" /\ UNCHANGED worker
    /\ UNCHANGED <<server, deadlocks, repliesLost>>

(* PrepareStatement deleted the statement it could not prepare and left the *)
(* pointer in m_stmts.  Reopening deletes it again, executing it uses it:   *)
(* undefined.  When the process survives reopening, Open still returns      *)
(* false because m_prepareError is set, though the session is usable.       *)
UsesFreedStatement ==
    /\ m_prepareError /\ handle
    /\ phase = "reconnect" \/ (phase = "query" /\ cmd = "statement")
    /\ phase' = "aborted"
    /\ ServerDropsTransaction
    /\ UNCHANGED <<connection, task, cmd, pos, attempt, result, history>>

ReconnectKeepsPrepareError ==
    /\ phase = "reconnect" /\ m_prepareError /\ "ok" \in Reconnects
    /\ handle' = TRUE /\ errno' = "none" /\ NewSession
    /\ ExecuteReturns(FALSE, "none")
    /\ UNCHANGED <<m_prepareError, server, deadlocks, repliesLost, faults>>

Done == phase = "aborted" \/ (phase = "idle" /\ task = Len(Size))

Terminated == Done /\ UNCHANGED vars

Next ==
    \/ Dequeue
    \/ QueryWithoutConnection \/ QuerySucceeds
    \/ QueryDeadlocks \/ QueryFails \/ StatementAborts
    \/ LostBeforeEffect \/ LostAfterEffect
    \/ ReconnectSucceeds \/ ReconnectRefused \/ ReconnectPrepareFails
    \/ ReconnectKeepsPrepareError \/ UsesFreedStatement
    \/ Terminated

Spec == Init /\ [][Next]_vars

-----------------------------------------------------------------------------
(* Properties *)

(* The session was replaced between START TRANSACTION and the last          *)
(* statement, or START TRANSACTION was refused: what follows of t runs in   *)
(* autocommit mode.                                                         *)
Torn(t) == \E c \in {"START TRANSACTION", "statement"} : <<t, c>> \in disturbed

Store == INSTANCE AtomicStore WITH torn <- {t \in Transactions : Torn(t)}

(* Refinement: but for the transactions that are torn, ExecuteTransaction   *)
(* gives its callers whole transactions, in queue order, each at most once, *)
(* whatever statements, COMMITs and ROLLBACKs fail or deadlock, and wherever *)
(* the process or the server dies.  The statements of a torn transaction    *)
(* stay in order too, and in front of every later transaction.              *)
AllOrNothing == Store!Spec

(* The worker has a connection, and t neither lost its session after START  *)
(* TRANSACTION nor had its COMMIT refused.                                  *)
Intact(t) ==
    handle /\ \A c \in Commands \ {"START TRANSACTION"} : <<t, c>> \notin disturbed

(* A transaction that TransactionTask::Execute reports as done has all its  *)
(* statements in the database, though the results of START TRANSACTION,     *)
(* COMMIT and ROLLBACK are ignored, unless its COMMIT was refused or its    *)
(* connection lost: a failed or deadlocked statement, or a transaction      *)
(* before it that failed, never makes a lost transaction look done.  It     *)
(* holds too for one that ran in autocommit mode because START TRANSACTION  *)
(* was refused.                                                             *)
ReportedDoneIsDone ==
    \A t \in Transactions :
        result[t] = "true" /\ Intact(t) => \A i \in 1..Size[t] : Contains(committed, <<t, i>>)

(* "The order in which these operations were appended to the transaction    *)
(* will be respected": what reaches the database is never out of order,     *)
(* across reconnections and reruns too.                                     *)
OrderRespected ==
    \A j \in 1..Len(committed) : \A i \in 1..(j - 1) :
        \/ committed[i][1] < committed[j][1]
        \/ committed[i][1] = committed[j][1] /\ committed[i][2] <= committed[j][2]

(* Sending a command again after a reconnection applies a statement twice   *)
(* only if the reply to its first execution was lost.                       *)
AppliedTwiceOnlyIfReplyLost ==
    ~repliesLost =>
        \A i, j \in 1..Len(committed) : committed[i] = committed[j] => i = j

(* A transaction is given up because of deadlocks only after it was rerun   *)
(* LoopBreaker times ("Handle MySQL Errno 1213", Transaction.cpp).          *)
DeadlockRerun ==
    \A t \in Transactions :
        result[t] = "false" /\ Size[t] > 0 => deadlocks[t] > LoopBreaker
=============================================================================
