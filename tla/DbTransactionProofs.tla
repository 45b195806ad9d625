------------------------ MODULE DbTransactionProofs ------------------------
(***************************************************************************)
(* Theorems about DbTransaction, for any sequence of transactions, any     *)
(* faults and any number of them.                                          *)
(***************************************************************************)
EXTENDS DbTransaction, TLAPS

Sending == phase \in {"query", "reconnect"}

(* Nothing of the current transaction has taken effect. *)
Fresh == \A i \in 1..Len(committed) : committed[i][1] < task

(* What has taken effect comes no later than statement p of the current     *)
(* transaction; Before: it comes strictly earlier.                          *)
UpTo(p) ==
    \A i \in 1..Len(committed) :
        committed[i][1] < task \/ (committed[i][1] = task /\ committed[i][2] <= p)
Before(p) ==
    \A i \in 1..Len(committed) :
        committed[i][1] < task \/ (committed[i][1] = task /\ committed[i][2] < p)

Prefix(t, k) == [i \in 1..k |-> <<t, i>>]

(* The first k statements of the current transaction have taken effect. *)
Has(k) == \A i \in 1..k : \E j \in 1..Len(committed) : committed[j] = <<task, i>>

(* No transaction is open between tasks, nor on a lost session; the code    *)
(* never sees errno 1213 after a ROLLBACK, so it never reruns.              *)
SessionOK ==
    /\ attempt = 0
    /\ ~handle => errno = "none" /\ ~inTransaction
    /\ phase # "query" => ~inTransaction
    /\ phase = "reconnect" => handle
    /\ phase # "idle" => task \in Transactions
    /\ ~inTransaction => uncommitted = <<>>
    /\ inTransaction => Fresh

StartOK ==
    Sending /\ cmd = "START TRANSACTION" => Size[task] > 0 /\ ~inTransaction /\ Fresh

(* The statements before pos are in the open transaction; outside of one,   *)
(* they took effect one by one and the transaction is torn.                 *)
StatementOK ==
    Sending /\ cmd = "statement" =>
        /\ pos \in 1..Size[task]
        /\ UpTo(pos) /\ (~repliesLost => Before(pos))
        /\ phase = "query" /\ handle /\ ~Torn(task) => inTransaction
        /\ ~Torn(task) => Fresh
        /\ inTransaction => uncommitted = Prefix(task, pos - 1)
        /\ phase = "query" /\ Intact(task) /\ ~inTransaction => Has(pos - 1)

CommitOK ==
    Sending /\ cmd = "COMMIT" =>
        /\ inTransaction => uncommitted = Prefix(task, Size[task])
        /\ phase = "query" /\ Intact(task) /\ ~inTransaction => Has(Size[task])

LogOK ==
    /\ \A i \in 1..Len(committed) : committed[i][1] <= task
    /\ OrderRespected /\ AppliedTwiceOnlyIfReplyLost

ControlOK == SessionOK /\ StartOK /\ StatementOK /\ CommitOK

Inv == TypeOK /\ ControlOK /\ LogOK /\ ReportedDoneIsDone

-----------------------------------------------------------------------------
(* What a prefix of a transaction is, alone and at the end of the log. *)

LEMMA SizeType == Transactions = 1..Len(Size) /\ \A t \in Transactions : Size[t] \in Nat
  BY DbAssumption DEF Transactions

LEMMA PrefixType ==
    ASSUME NEW t \in Transactions, NEW k \in Nat
    PROVE  /\ Prefix(t, k) \in Seq(Transactions \X Nat)
           /\ Len(Prefix(t, k)) = k
           /\ \A i \in 1..k : Prefix(t, k)[i] = <<t, i>>
  <1> DEFINE S == Transactions \X Nat
             e(i) == <<t, i>>
  <1>1. ASSUME NEW i \in 1..k PROVE e(i) \in S
    <2>1. i \in Nat
      OBVIOUS
    <2> QED BY <2>1
  <1>2. Prefix(t, k) = [i \in 1..k |-> e(i)]
    BY DEF Prefix
  <1> HIDE DEF S, e
  <1>3. Prefix(t, k) \in Seq(S) /\ Len(Prefix(t, k)) = k
    <2>1. [i \in 1..k |-> e(i)] \in Seq(S)
      BY <1>1
    <2> QED BY <1>2, <2>1
  <1>4. \A i \in 1..k : Prefix(t, k)[i] = e(i)
    BY <1>2
  <1> QED BY <1>3, <1>4 DEF S, e

LEMMA SeqAppend ==
    ASSUME NEW S, NEW c \in Seq(S), NEW e \in S
    PROVE  /\ Append(c, e) \in Seq(S)
           /\ Len(Append(c, e)) = Len(c) + 1
           /\ \A i \in 1..Len(c) : Append(c, e)[i] = c[i]
           /\ Append(c, e)[Len(c) + 1] = e
  <1>1. Append(c, e) \in Seq(S) /\ Len(Append(c, e)) = Len(c) + 1
    OBVIOUS
  <1>2. \A i \in 1..Len(c) : Append(c, e)[i] = c[i]
    OBVIOUS
  <1>3. Append(c, e)[Len(c) + 1] = e
    OBVIOUS
  <1> QED BY <1>1, <1>2, <1>3

LEMMA SeqEqual ==
    ASSUME NEW S, NEW c \in Seq(S), NEW d \in Seq(S), Len(c) = Len(d),
           \A i \in 1..Len(c) : c[i] = d[i]
    PROVE  c = d
  OBVIOUS

LEMMA SeqConcat ==
    ASSUME NEW S, NEW c \in Seq(S), NEW d \in Seq(S)
    PROVE  /\ c \o d \in Seq(S)
           /\ Len(c \o d) = Len(c) + Len(d)
           /\ \A i \in 1..Len(c) : (c \o d)[i] = c[i]
           /\ \A i \in (Len(c) + 1)..(Len(c) + Len(d)) : (c \o d)[i] = d[i - Len(c)]
  <1>1. c \o d \in Seq(S) /\ Len(c \o d) = Len(c) + Len(d)
    OBVIOUS
  <1>2. \A i \in 1..Len(c) : (c \o d)[i] = c[i]
    OBVIOUS
  <1>3. \A i \in (Len(c) + 1)..(Len(c) + Len(d)) : (c \o d)[i] = d[i - Len(c)]
    OBVIOUS
  <1> QED BY <1>1, <1>2, <1>3

LEMMA PrefixAppend ==
    ASSUME NEW t \in Transactions, NEW k \in Nat
    PROVE  /\ Prefix(t, 0) = <<>>
           /\ Append(Prefix(t, k), <<t, k + 1>>) = Prefix(t, k + 1)
  <1> DEFINE S == Transactions \X Nat
             p == Prefix(t, k)
             q == Prefix(t, k + 1)
             e == <<t, k + 1>>
  <1>0. k + 1 \in Nat /\ k + 1 \in 1..(k + 1)
    OBVIOUS
  <1>1. Prefix(t, 0) = <<>>
    BY PrefixType
  <1>2. p \in Seq(S) /\ Len(p) = k /\ \A i \in 1..k : p[i] = <<t, i>>
    BY PrefixType
  <1>3. q \in Seq(S) /\ Len(q) = k + 1 /\ \A i \in 1..(k + 1) : q[i] = <<t, i>>
    BY <1>0, PrefixType
  <1>4. q[k + 1] = e /\ e \in S
    BY <1>0, <1>3
  <1> HIDE DEF S, p, q, e
  <1>5. Append(p, e) = q
    <2>1. \A i \in 1..k : p[i] = q[i]
      BY <1>2, <1>3
    <2>2. Append(p, e) \in Seq(S) /\ Len(Append(p, e)) = k + 1
      BY <1>2, <1>4, SeqAppend
    <2>3. ASSUME NEW i \in 1..(k + 1) PROVE Append(p, e)[i] = q[i]
      <3>1. CASE i \in 1..k
        BY <1>2, <1>4, <2>1, <3>1, SeqAppend
      <3>2. CASE i = k + 1
        BY <1>2, <1>4, <3>2, SeqAppend
      <3>3. i \in 1..k \/ i = k + 1
        OBVIOUS
      <3> QED BY <3>1, <3>2, <3>3
    <2> QED BY <1>3, <2>2, <2>3, SeqEqual
  <1> QED BY <1>1, <1>5 DEF p, q, e

LEMMA LogConcat ==
    ASSUME NEW c \in Seq(Transactions \X Nat), NEW t \in Transactions, NEW k \in Nat
    PROVE  /\ c \o Prefix(t, k) \in Seq(Transactions \X Nat)
           /\ Len(c \o Prefix(t, k)) = Len(c) + k
           /\ \A i \in 1..Len(c) : (c \o Prefix(t, k))[i] = c[i]
           /\ \A i \in (Len(c) + 1)..(Len(c) + k) : (c \o Prefix(t, k))[i] = <<t, i - Len(c)>>
  <1> DEFINE S == Transactions \X Nat
             p == Prefix(t, k)
  <1>1. p \in Seq(S) /\ Len(p) = k /\ \A i \in 1..k : p[i] = <<t, i>>
    BY PrefixType
  <1> HIDE DEF S, p
  <1>2. c \in Seq(S)
    BY DEF S
  <1>3. /\ c \o p \in Seq(S) /\ Len(c \o p) = Len(c) + k
        /\ \A i \in 1..Len(c) : (c \o p)[i] = c[i]
    BY <1>1, <1>2, SeqConcat
  <1>4. ASSUME NEW i \in (Len(c) + 1)..(Len(c) + k)
        PROVE  (c \o p)[i] = <<t, i - Len(c)>>
    <2>1. (c \o p)[i] = p[i - Len(c)]
      BY <1>1, <1>2, SeqConcat
    <2>2. i - Len(c) \in 1..k
      BY <1>2
    <2> QED BY <1>1, <2>1, <2>2
  <1> QED BY <1>3, <1>4 DEF S, p

-----------------------------------------------------------------------------
(* What one step does to the control and to the log *)

LEMMA InitInv == Init => Inv
  <1> SUFFICES ASSUME Init PROVE Inv
    OBVIOUS
  <1>1. TypeOK
    <2> DEFINE S == Transactions \X Nat
    <2> HIDE DEF S
    <2>1. uncommitted \in Seq(S)
      BY DEF Init
    <2>2. committed \in Seq(S)
      BY DEF Init
    <2>3. handle \in BOOLEAN /\ m_prepareError \in BOOLEAN /\ inTransaction \in BOOLEAN
      BY DEF Init
    <2>4. repliesLost \in BOOLEAN
      BY DEF Init
    <2>5. result \in [Transactions -> Results] /\ deadlocks \in [Transactions -> Nat]
      BY DEF Init, Results
    <2> QED
      BY <2>1, <2>2, <2>3, <2>4, <2>5, DbAssumption
         DEF Init, TypeOK, Phases, Commands, Errnos, S
  <1>2. ControlOK
    BY DEF Init, ControlOK, SessionOK, StartOK, StatementOK, CommitOK, Sending, Fresh
  <1>3. LogOK /\ ReportedDoneIsDone
    BY DEF Init, LogOK, OrderRespected, AppliedTwiceOnlyIfReplyLost, ReportedDoneIsDone
  <1> QED BY <1>1, <1>2, <1>3 DEF Inv

Keeps(r) == task' = task /\ attempt' = attempt /\ result' = r

(* Where Execute returns to: the next command of ExecuteTransaction, or the *)
(* end of the task.  A ROLLBACK is never followed by a rerun.               *)
LEMMA ReturnCases ==
    ASSUME Inv, Sending, NEW r \in BOOLEAN, NEW e, ExecuteReturns(r, e),
           cmd = "ROLLBACK" => e # "deadlock"
    PROVE  \/ /\ cmd = "START TRANSACTION" /\ Keeps(result)
              /\ phase' = "query" /\ cmd' = "statement" /\ pos' = 1
           \/ /\ cmd = "statement" /\ r /\ pos < Size[task] /\ Keeps(result)
              /\ phase' = "query" /\ cmd' = "statement" /\ pos' = pos + 1
           \/ /\ cmd = "statement" /\ r /\ pos = Size[task] /\ Keeps(result)
              /\ phase' = "query" /\ cmd' = "COMMIT" /\ pos' = pos
           \/ /\ cmd = "statement" /\ ~r /\ Keeps(result)
              /\ phase' = "query" /\ cmd' = "ROLLBACK" /\ pos' = pos
           \/ /\ cmd = "COMMIT" /\ Keeps([result EXCEPT ![task] = "true"])
              /\ phase' = "idle" /\ cmd' = cmd /\ pos' = pos
           \/ /\ cmd = "ROLLBACK" /\ Keeps([result EXCEPT ![task] = "false"])
              /\ phase' = "idle" /\ cmd' = cmd /\ pos' = pos
  <1>1. /\ TypeOK /\ attempt = 0 /\ task \in Transactions /\ Size[task] \in Nat
        /\ cmd = "statement" => pos \in 1..Size[task]
    BY SizeType DEF Inv, ControlOK, SessionOK, StatementOK, Sending
  <1>2. CASE cmd = "START TRANSACTION"
    BY <1>2 DEF ExecuteReturns, Goto, Keeps
  <1>3. CASE cmd = "statement"
    BY <1>1, <1>3 DEF ExecuteReturns, AfterStatement, NextStatement, Rollback, Goto, Keeps
  <1>4. CASE cmd = "COMMIT"
    BY <1>4 DEF ExecuteReturns, Finish, Keeps
  <1>5. CASE cmd = "ROLLBACK"
    BY <1>1, <1>5 DEF ExecuteReturns, TransactionFailed, Rerun, Finish, Keeps
  <1> QED BY <1>1, <1>2, <1>3, <1>4, <1>5 DEF TypeOK, Commands

(* The log grows by one statement outside of a transaction, or by the       *)
(* current transaction as a whole.                                          *)
Piece ==
    /\ phase = "query" /\ handle /\ cmd = "statement" /\ ~inTransaction
    /\ committed' = Append(committed, <<task, pos>>)
    /\ uncommitted' = <<>> /\ ~inTransaction'
WholeTransaction ==
    /\ phase = "query" /\ handle /\ cmd = "COMMIT" /\ inTransaction
    /\ committed' = committed \o Prefix(task, Size[task])
    /\ uncommitted' = <<>> /\ ~inTransaction'
Nothing == committed' = committed

(* What a command that succeeds does on the server. *)
LEMMA ExecutesCases ==
    ASSUME Inv, phase = "query", handle, ServerExecutes(cmd)
    PROVE  \/ /\ cmd = "START TRANSACTION" /\ Nothing /\ inTransaction' /\ uncommitted' = <<>>
           \/ /\ cmd = "statement" /\ inTransaction /\ Nothing /\ inTransaction'
              /\ uncommitted' = Prefix(task, pos)
           \/ Piece
           \/ /\ cmd = "COMMIT" /\ ~inTransaction /\ Nothing /\ ~inTransaction' /\ uncommitted' = <<>>
           \/ WholeTransaction
           \/ /\ cmd = "ROLLBACK" /\ Nothing /\ ~inTransaction' /\ uncommitted' = <<>>
  <1>1. /\ committed \in Seq(Transactions \X Nat) /\ task \in Transactions /\ cmd \in Commands
        /\ Size[task] \in Nat /\ inTransaction \in BOOLEAN
        /\ ~inTransaction => uncommitted = <<>>
    BY SizeType DEF Inv, TypeOK, ControlOK, SessionOK
  <1>2. committed \o <<>> = committed
    <2> DEFINE S == Transactions \X Nat
    <2> HIDE DEF S
    <2>1. committed \in Seq(S)
      BY <1>1 DEF S
    <2> QED BY <2>1
  <1>3. CASE cmd = "START TRANSACTION"
    <2>1. ~inTransaction
      BY <1>3 DEF Inv, ControlOK, StartOK, Sending
    <2> QED BY <1>1, <1>2, <1>3, <2>1 DEF ServerExecutes, Nothing
  <1>4. CASE cmd = "statement" /\ inTransaction
    <2>1. pos \in 1..Size[task] /\ uncommitted = Prefix(task, pos - 1)
      BY <1>4 DEF Inv, ControlOK, StatementOK, Sending
    <2>2. pos - 1 \in Nat /\ (pos - 1) + 1 = pos
      BY <1>1, <2>1
    <2>3. Append(uncommitted, <<task, pos>>) = Prefix(task, pos)
      BY <1>1, <2>1, <2>2, PrefixAppend
    <2> QED BY <1>4, <2>3 DEF ServerExecutes, Nothing
  <1>5. CASE cmd = "statement" /\ ~inTransaction
    BY <1>1, <1>5 DEF ServerExecutes, Piece
  <1>6. CASE cmd = "COMMIT" /\ ~inTransaction
    BY <1>1, <1>2, <1>6 DEF ServerExecutes, Nothing
  <1>7. CASE cmd = "COMMIT" /\ inTransaction
    <2>1. uncommitted = Prefix(task, Size[task])
      BY <1>7 DEF Inv, ControlOK, CommitOK, Sending
    <2> QED BY <1>1, <1>7, <2>1 DEF ServerExecutes, WholeTransaction
  <1>8. CASE cmd = "ROLLBACK"
    BY <1>8 DEF ServerExecutes, Nothing
  <1> QED BY <1>1, <1>3, <1>4, <1>5, <1>6, <1>7, <1>8 DEF Commands

(* What a command does whose reply is lost with the session. *)
LEMMA DiesCases ==
    ASSUME Inv, phase = "query", handle, ServerExecutesAndDies(cmd)
    PROVE  ~inTransaction' /\ uncommitted' = <<>> /\ (Nothing \/ Piece \/ WholeTransaction)
  <1>1. /\ committed \in Seq(Transactions \X Nat) /\ task \in Transactions /\ cmd \in Commands
        /\ Size[task] \in Nat /\ inTransaction \in BOOLEAN
        /\ ~inTransaction => uncommitted = <<>>
    BY SizeType DEF Inv, TypeOK, ControlOK, SessionOK
  <1>2. committed \o <<>> = committed
    <2> DEFINE S == Transactions \X Nat
    <2> HIDE DEF S
    <2>1. committed \in Seq(S)
      BY <1>1 DEF S
    <2> QED BY <2>1
  <1>3. CASE ~inTransaction /\ cmd # "statement"
    BY <1>1, <1>2, <1>3 DEF ServerExecutesAndDies, Nothing
  <1>4. CASE ~inTransaction /\ cmd = "statement"
    BY <1>1, <1>4 DEF ServerExecutesAndDies, Piece
  <1>5. CASE inTransaction /\ cmd = "COMMIT"
    <2>1. uncommitted = Prefix(task, Size[task])
      BY <1>5 DEF Inv, ControlOK, CommitOK, Sending
    <2> QED BY <1>1, <1>5, <2>1 DEF ServerExecutesAndDies, WholeTransaction
  <1>6. CASE inTransaction /\ cmd # "COMMIT"
    <2>1. cmd # "START TRANSACTION"
      BY <1>6 DEF Inv, ControlOK, StartOK, Sending
    <2> QED BY <1>1, <1>6, <2>1 DEF ServerExecutesAndDies, Nothing
  <1> QED BY <1>1, <1>3, <1>4, <1>5, <1>6

-----------------------------------------------------------------------------
(* The log stays in order *)

LEMMA LogNothing ==
    ASSUME Inv, Nothing, task' \in Nat, task <= task', repliesLost => repliesLost'
    PROVE  LogOK'
  <1>1. committed \in Seq(Transactions \X Nat) /\ task \in Nat
    BY DbAssumption DEF Inv, TypeOK
  <1>2. ASSUME NEW i \in 1..Len(committed) PROVE committed[i][1] \in Nat
    BY <1>1, SizeType
  <1>3. \A i \in 1..Len(committed') : committed'[i][1] <= task'
    BY <1>1, <1>2 DEF Inv, LogOK, Nothing
  <1>4. OrderRespected' /\ AppliedTwiceOnlyIfReplyLost'
    BY DEF Inv, LogOK, Nothing, OrderRespected, AppliedTwiceOnlyIfReplyLost
  <1> QED BY <1>3, <1>4 DEF LogOK

LEMMA EntryType ==
    ASSUME NEW c \in Seq(Transactions \X Nat), NEW i \in 1..Len(c)
    PROVE  c[i] \in Transactions \X Nat /\ c[i][1] \in Nat /\ c[i][2] \in Nat
           /\ c[i] = <<c[i][1], c[i][2]>>
  <1>1. c[i] \in Transactions \X Nat
    OBVIOUS
  <1> QED BY <1>1, SizeType

LEMMA LogPiece ==
    ASSUME Inv, Piece, task' = task, repliesLost => repliesLost'
    PROVE  /\ committed' \in Seq(Transactions \X Nat)
           /\ Torn(task)
           /\ LogOK'
           /\ \A i \in 1..Len(committed') :
                 \/ committed'[i][1] < task
                 \/ committed'[i][1] = task /\ committed'[i][2] <= pos
           /\ \A i \in 1..Len(committed) : i \in 1..Len(committed') /\ committed'[i] = committed[i]
  <1> DEFINE c == committed
             d == committed'
             n == Len(c)
  <1>1. /\ c \in Seq(Transactions \X Nat) /\ task \in Transactions /\ pos \in Nat /\ task \in Nat
    BY SizeType DEF Inv, TypeOK, ControlOK, SessionOK, Piece
  <1>2. /\ UpTo(pos) /\ (~repliesLost => Before(pos)) /\ Torn(task)
    BY DEF Inv, ControlOK, StatementOK, Sending, Piece
  <1>3. <<task, pos>> \in Transactions \X Nat /\ Len(c) \in Nat
    BY <1>1
  <1>4. /\ d \in Seq(Transactions \X Nat) /\ Len(d) = n + 1 /\ n \in Nat
        /\ \A i \in 1..n : d[i] = c[i]
        /\ d[n + 1] = <<task, pos>>
    BY <1>1, <1>3, SeqAppend DEF Piece
  <1>5. \A i \in 1..(n + 1) : i \in 1..n \/ i = n + 1
    BY <1>4
  <1>6. ASSUME NEW i \in 1..n
        PROVE  d[i] = c[i] /\ d[i][1] \in Nat /\ d[i][2] \in Nat
               /\ (d[i][1] < task \/ (d[i][1] = task /\ d[i][2] <= pos))
    BY <1>1, <1>2, <1>4, EntryType DEF UpTo
  <1>7. d[n + 1][1] = task /\ d[n + 1][2] = pos
    BY <1>4
  <1> HIDE DEF c, d, n
  <1>8. \A i \in 1..Len(d) : d[i][1] < task \/ (d[i][1] = task /\ d[i][2] <= pos)
    BY <1>1, <1>4, <1>5, <1>6, <1>7
  <1>9. ASSUME NEW i \in 1..Len(d) PROVE d[i][1] <= task
    <2>1. CASE i \in 1..n
      BY <1>1, <1>6, <2>1
    <2>2. CASE i = n + 1
      BY <1>1, <1>7, <2>2
    <2> QED BY <1>4, <1>5, <2>1, <2>2
  <1>10. ASSUME NEW j \in 1..Len(d), NEW i \in 1..(j - 1)
         PROVE  d[i][1] < d[j][1] \/ (d[i][1] = d[j][1] /\ d[i][2] <= d[j][2])
    <2>1. i \in 1..n
      BY <1>4
    <2>2. CASE j = n + 1
      BY <1>6, <1>7, <2>1, <2>2
    <2>3. CASE j \in 1..n
      <3>1. OrderRespected
        BY DEF Inv, LogOK
      <3>2. c[i][1] < c[j][1] \/ (c[i][1] = c[j][1] /\ c[i][2] <= c[j][2])
        BY <2>3, <3>1 DEF OrderRespected, c, n
      <3> QED BY <1>6, <2>1, <2>3, <3>2
    <2> QED BY <1>4, <1>5, <2>2, <2>3
  <1>11. ASSUME ~repliesLost', NEW i \in 1..Len(d), NEW j \in 1..Len(d), d[i] = d[j]
         PROVE  i = j
    <2>1. ~repliesLost
      BY <1>11
    <2>2. ASSUME NEW k \in 1..n PROVE d[k] # <<task, pos>>
      <3>1. c[k][1] < task \/ (c[k][1] = task /\ c[k][2] < pos)
        BY <1>2, <2>1 DEF Before, c, n
      <3> QED BY <1>1, <1>6, <3>1
    <2>3. CASE i \in 1..n /\ j \in 1..n
      <3>1. c[i] = c[j]
        BY <1>6, <1>11, <2>3
      <3>2. AppliedTwiceOnlyIfReplyLost
        BY DEF Inv, LogOK
      <3> QED BY <2>1, <2>3, <3>1, <3>2 DEF AppliedTwiceOnlyIfReplyLost, c, n
    <2> QED BY <1>4, <1>5, <1>11, <2>2, <2>3
  <1>12. LogOK'
    <2>1. OrderRespected'
      BY <1>10 DEF OrderRespected, d
    <2>2. AppliedTwiceOnlyIfReplyLost'
      BY <1>11 DEF AppliedTwiceOnlyIfReplyLost, d
    <2> QED BY <1>9, <2>1, <2>2 DEF LogOK, d
  <1> QED BY <1>2, <1>4, <1>8, <1>12 DEF c, d, n

LEMMA LogWhole ==
    ASSUME Inv, WholeTransaction, task' = task, repliesLost => repliesLost'
    PROVE  /\ committed' \in Seq(Transactions \X Nat)
           /\ LogOK'
           /\ \A i \in 1..Size[task] : \E j \in 1..Len(committed') : committed'[j] = <<task, i>>
           /\ \A i \in 1..Len(committed) : i \in 1..Len(committed') /\ committed'[i] = committed[i]
  <1> DEFINE c == committed
             d == committed'
             n == Len(c)
             k == Size[task]
  <1>1. /\ c \in Seq(Transactions \X Nat) /\ task \in Transactions /\ task \in Nat
        /\ k \in Nat /\ n \in Nat
    BY SizeType DEF Inv, TypeOK, ControlOK, SessionOK, WholeTransaction
  <1>2. Fresh
    BY DEF Inv, ControlOK, SessionOK, WholeTransaction
  <1>3. /\ d \in Seq(Transactions \X Nat) /\ Len(d) = n + k
        /\ \A i \in 1..n : d[i] = c[i]
        /\ \A i \in (n + 1)..(n + k) : d[i] = <<task, i - n>>
    BY <1>1, LogConcat, ZenonT(60) DEF WholeTransaction
  <1>4. ASSUME NEW i \in 1..n
        PROVE  d[i] = c[i] /\ d[i][1] \in Nat /\ d[i][2] \in Nat /\ d[i][1] < task
    BY <1>1, <1>2, <1>3, EntryType DEF Fresh
  <1> HIDE DEF c, d, n, k
  <1>5. \A i \in 1..Len(d) : i \in 1..n \/ i \in (n + 1)..(n + k)
    BY <1>1, <1>3
  <1>6. ASSUME NEW i \in (n + 1)..(n + k) PROVE d[i][1] = task /\ d[i][2] = i - n
    BY <1>3
  <1>7. ASSUME NEW i \in 1..Len(d) PROVE d[i][1] <= task
    <2>1. CASE i \in 1..n
      BY <1>1, <1>4, <2>1
    <2>2. CASE i \in (n + 1)..(n + k)
      BY <1>1, <1>6, <2>2
    <2> QED BY <1>5, <2>1, <2>2
  <1>8. ASSUME NEW j \in 1..Len(d), NEW i \in 1..(j - 1)
        PROVE  d[i][1] < d[j][1] \/ (d[i][1] = d[j][1] /\ d[i][2] <= d[j][2])
    <2>0. i \in 1..Len(d)
      BY <1>1, <1>3
    <2>1. CASE j \in 1..n
      <3>1. OrderRespected
        BY DEF Inv, LogOK
      <3>2. c[i][1] < c[j][1] \/ (c[i][1] = c[j][1] /\ c[i][2] <= c[j][2])
        BY <2>1, <3>1 DEF OrderRespected, c, n
      <3>3. i \in 1..n
        BY <1>1, <2>1
      <3> QED BY <1>4, <2>1, <3>2, <3>3
    <2>2. CASE j \in (n + 1)..(n + k) /\ i \in 1..n
      BY <1>4, <1>6, <2>2
    <2>3. CASE j \in (n + 1)..(n + k) /\ i \in (n + 1)..(n + k)
      BY <1>1, <1>6, <2>3
    <2> QED BY <1>5, <2>0, <2>1, <2>2, <2>3
  <1>9. ASSUME ~repliesLost', NEW i \in 1..Len(d), NEW j \in 1..Len(d), d[i] = d[j]
        PROVE  i = j
    <2>1. ~repliesLost
      BY <1>9
    <2>2. CASE i \in 1..n /\ j \in 1..n
      <3>1. c[i] = c[j]
        BY <1>4, <1>9, <2>2
      <3>2. AppliedTwiceOnlyIfReplyLost
        BY DEF Inv, LogOK
      <3> QED BY <2>1, <2>2, <3>1, <3>2 DEF AppliedTwiceOnlyIfReplyLost, c, n
    <2>3. CASE i \in (n + 1)..(n + k) /\ j \in (n + 1)..(n + k)
      <3>1. i - n = j - n
        BY <1>6, <1>9, <2>3
      <3> QED BY <1>1, <2>3, <3>1
    <2>4. CASE i \in 1..n /\ j \in (n + 1)..(n + k)
      BY <1>1, <1>4, <1>6, <1>9, <2>4
    <2>5. CASE j \in 1..n /\ i \in (n + 1)..(n + k)
      BY <1>1, <1>4, <1>6, <1>9, <2>5
    <2> QED BY <1>5, <2>2, <2>3, <2>4, <2>5
  <1>10. LogOK'
    <2>1. OrderRespected'
      BY <1>8 DEF OrderRespected, d
    <2>2. AppliedTwiceOnlyIfReplyLost'
      BY <1>9 DEF AppliedTwiceOnlyIfReplyLost, d
    <2> QED BY <1>7, <2>1, <2>2 DEF LogOK, d
  <1>11. ASSUME NEW i \in 1..k PROVE \E j \in 1..Len(d) : d[j] = <<task, i>>
    <2>1. n + i \in (n + 1)..(n + k) /\ n + i \in 1..Len(d) /\ (n + i) - n = i
      BY <1>1, <1>3
    <2> QED BY <1>3, <2>1
  <1>12. \A i \in 1..n : i \in 1..Len(d) /\ d[i] = c[i]
    BY <1>1, <1>3
  <1> QED BY <1>3, <1>10, <1>11, <1>12 DEF c, d, n, k

Grown == \A i \in 1..Len(committed) : i \in 1..Len(committed') /\ committed'[i] = committed[i]

(* A result that was right stays right, because the log only grows, a null  *)
(* handle stays null, and the disturbed commands are never forgotten.        *)
LEMMA DoneKept ==
    ASSUME Inv, Grown, handle' => handle, disturbed \subseteq disturbed',
           \A t \in Transactions :
              result'[t] = "true" /\ Intact(t)'
              => \/ result[t] = "true"
                 \/ \A i \in 1..Size[t] : \E j \in 1..Len(committed') : committed'[j] = <<t, i>>
    PROVE  ReportedDoneIsDone'
  <1> SUFFICES ASSUME NEW t \in Transactions, result'[t] = "true", Intact(t)',
                      NEW i \in 1..Size[t]
               PROVE  \E j \in 1..Len(committed') : committed'[j] = <<t, i>>
    BY DEF ReportedDoneIsDone, Contains
  <1>1. CASE result[t] = "true"
    <2>0. Intact(t)
      BY DEF Intact
    <2>1. \E j \in 1..Len(committed) : committed[j] = <<t, i>>
      BY <1>1, <2>0 DEF Inv, ReportedDoneIsDone, Contains
    <2> QED BY <2>1 DEF Grown
  <1> QED BY <1>1

-----------------------------------------------------------------------------
(* One lemma per action or kind of action *)

ConnectionType ==
    /\ handle \in BOOLEAN /\ m_prepareError \in BOOLEAN /\ errno \in Errnos
    /\ deadlocks \in [Transactions -> Nat] /\ repliesLost \in BOOLEAN
    /\ disturbed \subseteq Transactions \X Commands /\ faults \in 0..MaxFaults

ServerType ==
    /\ inTransaction \in BOOLEAN
    /\ uncommitted \in Seq(Transactions \X Nat) /\ committed \in Seq(Transactions \X Nat)

WorkerType ==
    /\ task \in 0..Len(Size) /\ phase \in Phases /\ cmd \in Commands
    /\ pos \in Nat /\ attempt \in 0..LoopBreaker /\ result \in [Transactions -> Results]

LEMMA TypeParts == TypeOK <=> ConnectionType /\ ServerType /\ WorkerType
  BY DEF TypeOK, ConnectionType, ServerType, WorkerType

LEMMA EmptyType == <<>> \in Seq(Transactions \X Nat)
  <1> DEFINE S == Transactions \X Nat
  <1> HIDE DEF S
  <1>1. <<>> \in Seq(S)
    OBVIOUS
  <1> QED BY <1>1 DEF S

(* Execute returns, with whatever result: the worker's variables keep their *)
(* types.                                                                   *)
LEMMA ReturnType ==
    ASSUME Inv, Sending, NEW r \in BOOLEAN, NEW e, ExecuteReturns(r, e),
           cmd = "ROLLBACK" => e # "deadlock"
    PROVE  WorkerType' /\ attempt' = 0 /\ task' = task /\ task \in Transactions
  <1>1. WorkerType /\ attempt = 0 /\ task \in Transactions
    BY TypeParts DEF Inv, ControlOK, SessionOK, Sending
  <1>2. result' \in [Transactions -> Results] /\ task' = task /\ attempt' = attempt
    <2>1. /\ task' = task /\ attempt' = attempt
          /\ \/ result' = result
             \/ \E b \in {"true", "false"} : result' = [result EXCEPT ![task] = b]
      BY ReturnCases DEF Keeps
    <2>2. result \in [Transactions -> Results]
      BY <1>1 DEF WorkerType
    <2> QED BY <2>1, <2>2 DEF Results
  <1>3. phase' \in Phases /\ cmd' \in Commands
    BY <1>1, ReturnCases DEF WorkerType, Phases, Commands
  <1>4. pos' \in Nat
    <2>1. pos \in Nat
      BY <1>1 DEF WorkerType
    <2>2. pos' \in {1, pos + 1, pos}
      BY ReturnCases
    <2> QED BY <2>1, <2>2
  <1> QED BY <1>1, <1>2, <1>3, <1>4 DEF WorkerType

(* Execute returns false without having changed the log. *)
LEMMA ReturnFails ==
    ASSUME Inv, Sending, NEW e, ExecuteReturns(FALSE, e), cmd = "ROLLBACK" => e # "deadlock",
           ConnectionType', Nothing, repliesLost' = repliesLost, disturbed \subseteq disturbed',
           handle' => handle, ~handle' => errno' = "none" /\ ~inTransaction',
           \/ inTransaction' = FALSE /\ uncommitted' = <<>>
           \/ cmd = "statement" /\ inTransaction' = inTransaction /\ uncommitted' = uncommitted,
           cmd # "statement" => ~handle' \/ <<task, cmd>> \in disturbed'
    PROVE  Inv'
  <1>1. /\ TypeOK /\ ServerType /\ task \in Transactions /\ Size[task] \in Nat /\ task \in Nat
        /\ cmd \in Commands
    BY TypeParts, SizeType, SMTT(30) DEF Inv, ControlOK, SessionOK, Sending, TypeOK
  <1>2. WorkerType' /\ attempt' = 0 /\ task' = task
    BY ReturnType
  <1>3. TypeOK'
    <2>1. /\ inTransaction' \in BOOLEAN /\ committed' = committed
          /\ uncommitted' = <<>> \/ uncommitted' = uncommitted
      BY <1>1 DEF ServerType, Nothing
    <2>2. ServerType'
      BY <1>1, <2>1, EmptyType DEF ServerType
    <2> QED BY <1>2, <2>2 DEF TypeOK, ConnectionType, ServerType, WorkerType
  <1>4. LogOK'
    BY <1>1, <1>2, LogNothing
  <1>5. ReportedDoneIsDone'
    <2>1. Grown
      BY DEF Grown, Nothing
    <2>2. result' = result \/ result' = [result EXCEPT ![task] = "false"]
          \/ (cmd = "COMMIT" /\ result' = [result EXCEPT ![task] = "true"])
      BY ReturnCases DEF Keeps
    <2>3. ASSUME NEW t \in Transactions, result'[t] = "true", Intact(t)'
          PROVE  result[t] = "true"
      <3>1. t = task => cmd # "COMMIT"
        BY <2>3 DEF Intact, Commands
      <3>2. result \in [Transactions -> Results]
        BY <1>1 DEF TypeOK
      <3> QED BY <1>1, <2>2, <2>3, <3>1, <3>2
    <2> QED BY <2>1, <2>3, DoneKept
  <1>6. SessionOK'
    <2>1. Fresh' = Fresh
      BY <1>2 DEF Fresh, Nothing
    <2>2. phase' # "reconnect" /\ (phase' # "query" => cmd # "statement")
      BY ReturnCases
    <2> QED BY <1>1, <1>2, <2>1, <2>2 DEF SessionOK, Inv, ControlOK
  <1>7. StartOK' /\ CommitOK'
    BY ReturnCases DEF StartOK, CommitOK, Sending
  <1>8. StatementOK'
    <2> SUFFICES ASSUME Sending', cmd' = "statement" PROVE StatementOK'
      BY DEF StatementOK
    <2>1. cmd = "START TRANSACTION" /\ pos' = 1
      BY ReturnCases DEF Sending
    <2>2. Fresh /\ Fresh' /\ ~inTransaction' /\ Size[task] > 0
      BY <1>2, <2>1 DEF Inv, ControlOK, StartOK, Nothing, Fresh
    <2>3. UpTo(pos)' /\ Before(pos)'
      BY <2>2 DEF UpTo, Before, Fresh
    <2>4. ~handle' \/ Torn(task)'
      BY <1>2, <2>1 DEF Torn
    <2>5. pos' \in 1..Size[task']
      <3>1. pos' = 1 /\ task' = task /\ Size[task] \in Nat /\ Size[task] > 0
        BY <1>1, <1>2, <2>1, <2>2
      <3> QED BY <3>1
    <2>6. phase' = "query" /\ handle' /\ ~Torn(task)' => inTransaction'
      BY <2>4
    <2>7. Has(pos - 1)'
      <3>0. pos' = 1
        BY <2>1
      <3>1. pos' - 1 = 0
        BY <3>0
      <3>2. ASSUME NEW i \in 1..(pos' - 1) PROVE FALSE
        BY <3>1
      <3> QED BY <3>2 DEF Has
    <2> QED BY <2>2, <2>3, <2>5, <2>6, <2>7 DEF StatementOK
  <1> QED BY <1>3, <1>4, <1>5, <1>6, <1>7, <1>8 DEF Inv, ControlOK

LEMMA QuerySucceedsInv ==
    ASSUME Inv, QuerySucceeds
    PROVE  Inv'
  <1>0. /\ phase = "query" /\ handle /\ Sending /\ ServerExecutes(cmd) /\ ExecuteReturns(TRUE, "none")
        /\ handle' = handle /\ m_prepareError' = m_prepareError /\ errno' = "none"
        /\ deadlocks' = deadlocks /\ repliesLost' = repliesLost /\ disturbed' = disturbed
        /\ faults' = faults
    BY DEF QuerySucceeds, Sending, history
  <1>1. /\ ConnectionType /\ ServerType /\ task \in Transactions /\ Size[task] \in Nat /\ task \in Nat
        /\ cmd \in Commands /\ result \in [Transactions -> Results]
    BY <1>0, TypeParts, SizeType DEF Inv, ControlOK, SessionOK, TypeOK
  <1>2. WorkerType' /\ attempt' = 0 /\ task' = task
    BY <1>0, ReturnType
  <1>3. TypeOK'
    <2>1. ConnectionType'
      BY <1>0, <1>1 DEF ConnectionType, Errnos
    <2>2. committed' \in Seq(Transactions \X Nat)
      BY <1>0, <1>1, <1>2, ExecutesCases, LogPiece, LogWhole DEF ServerType, Nothing
    <2>3. inTransaction' \in BOOLEAN
      BY <1>0, <1>1 DEF ServerExecutes, ServerType, Commands
    <2>4. uncommitted' \in Seq(Transactions \X Nat)
      <3>1. CASE cmd = "statement" /\ inTransaction
        <4>1. uncommitted' = Prefix(task, pos) /\ pos \in Nat
          BY <1>0, <3>1, ExecutesCases DEF Inv, TypeOK, Piece, WholeTransaction
        <4> QED BY <1>1, <4>1, PrefixType
      <3>2. CASE ~(cmd = "statement" /\ inTransaction)
        <4>1. uncommitted' = <<>>
          BY <1>0, <3>2, ExecutesCases DEF Piece, WholeTransaction
        <4> QED BY <4>1, EmptyType
      <3> QED BY <3>1, <3>2
    <2> QED BY <1>2, <2>1, <2>2, <2>3, <2>4 DEF TypeOK, ConnectionType, ServerType, WorkerType
  <1>4. LogOK' /\ Grown
    <2>1. CASE Nothing
      BY <1>0, <1>1, <1>2, <2>1, LogNothing DEF Nothing, Grown
    <2>2. CASE Piece
      BY <1>0, <1>2, <2>2, LogPiece DEF Grown
    <2>3. CASE WholeTransaction
      BY <1>0, <1>2, <2>3, LogWhole DEF Grown
    <2> QED BY <1>0, <2>1, <2>2, <2>3, ExecutesCases
  <1>5. ReportedDoneIsDone'
    <2>1. CASE cmd = "COMMIT" /\ inTransaction
      <3>1. WholeTransaction
        BY <1>0, <2>1, ExecutesCases DEF Piece
      <3>2. result' = [result EXCEPT ![task] = "true"]
        BY <1>0, <2>1, ReturnCases DEF Keeps
      <3>3. \A i \in 1..Size[task] : \E j \in 1..Len(committed') : committed'[j] = <<task, i>>
        BY <1>0, <1>2, <3>1, LogWhole
      <3> QED BY <1>0, <1>1, <1>4, <3>2, <3>3, DoneKept
    <2>2. CASE cmd = "COMMIT" /\ ~inTransaction
      <3>1. ASSUME NEW t \in Transactions, t = task, Intact(t)'
            PROVE  \A i \in 1..Size[t] : \E j \in 1..Len(committed') : committed'[j] = <<t, i>>
        <4>1. Intact(task)
          BY <1>0, <3>1 DEF Intact
        <4>2. Intact(task) => Has(Size[task])
          BY <1>0, <2>2 DEF Inv, ControlOK, CommitOK
        <4> QED BY <1>4, <3>1, <4>1, <4>2 DEF Has, Grown
      <3>2. result' = [result EXCEPT ![task] = "true"]
        BY <1>0, <2>2, ReturnCases DEF Keeps
      <3> QED BY <1>0, <1>1, <1>4, <3>1, <3>2, DoneKept
    <2>3. CASE cmd # "COMMIT"
      <3>1. result' = result \/ result' = [result EXCEPT ![task] = "false"]
        BY <1>0, <2>3, ReturnCases DEF Keeps
      <3> QED BY <1>0, <1>1, <1>4, <3>1, DoneKept
    <2> QED BY <2>1, <2>2, <2>3
  <1>6. inTransaction' => Fresh'
    <2>1. inTransaction' => Nothing /\ Fresh
      BY <1>0, ExecutesCases DEF Inv, ControlOK, SessionOK, StartOK, Piece, WholeTransaction
    <2> QED BY <1>2, <2>1 DEF Nothing, Fresh
  <1>7. SessionOK'
    <2>1. ~inTransaction' => uncommitted' = <<>>
      BY <1>0, ExecutesCases DEF Piece, WholeTransaction
    <2>2. phase' # "query" => ~inTransaction'
      BY <1>0, ReturnCases, ExecutesCases DEF Piece, WholeTransaction
    <2>3. phase' # "reconnect"
      BY <1>0, ReturnCases
    <2> QED BY <1>0, <1>1, <1>2, <1>6, <2>1, <2>2, <2>3 DEF SessionOK
  <1>8. StartOK'
    BY <1>0, ReturnCases DEF StartOK, Sending
  <1>11. ASSUME cmd = "statement", ~inTransaction, Intact(task)', NEW k, k = pos
         PROVE  \A i \in 1..k : \E j \in 1..Len(committed') : committed'[j] = <<task', i>>
    <2>1. Intact(task)
      BY <1>0, <1>2, <1>11 DEF Intact
    <2>2. Has(pos - 1) /\ pos \in Nat
      BY <1>0, <1>11, <2>1 DEF Inv, ControlOK, StatementOK, TypeOK
    <2>3. committed' = Append(committed, <<task, pos>>)
      BY <1>0, <1>11, ExecutesCases DEF Piece, WholeTransaction
    <2>4. Len(committed') \in 1..Len(committed') /\ committed'[Len(committed')] = <<task, pos>>
      <3>1. committed \in Seq(Transactions \X Nat) /\ <<task, pos>> \in Transactions \X Nat
        BY <1>1, <2>2 DEF ServerType
      <3> QED BY <2>3, <3>1, SeqAppend
    <2>5. ASSUME NEW i \in 1..k PROVE \E j \in 1..Len(committed') : committed'[j] = <<task', i>>
      <3>1. CASE i = pos
        BY <1>2, <2>4, <3>1
      <3>2. CASE i # pos
        <4>1. i \in 1..(pos - 1)
          BY <1>11, <2>2, <3>2
        <4>2. PICK j \in 1..Len(committed) : committed[j] = <<task, i>>
          BY <2>2, <4>1 DEF Has
        <4> QED BY <1>2, <1>4, <4>2 DEF Grown
      <3> QED BY <3>1, <3>2
    <2> QED BY <2>5
  <1>9. StatementOK'
    <2> SUFFICES ASSUME Sending', cmd' = "statement" PROVE StatementOK'
      BY DEF StatementOK
    <2>1. Torn(task)' = Torn(task)
      BY <1>0, <1>2 DEF Torn
    <2>2. CASE cmd = "START TRANSACTION"
      <3>1. pos' = 1 /\ Fresh /\ Size[task] > 0 /\ Nothing /\ inTransaction' /\ uncommitted' = <<>>
        BY <1>0, <2>2, ReturnCases, ExecutesCases
           DEF Sending, Inv, ControlOK, StartOK, Piece, WholeTransaction
      <3>2. Fresh' /\ UpTo(pos)' /\ Before(pos)'
        BY <1>2, <3>1 DEF Fresh, UpTo, Before, Nothing
      <3>3. pos' \in 1..Size[task'] /\ uncommitted' = Prefix(task', pos' - 1)
        BY <1>1, <1>2, <3>1, PrefixAppend
      <3> QED BY <3>1, <3>2, <3>3 DEF StatementOK
    <2>3. CASE cmd = "statement"
      <3>1. pos' = pos + 1 /\ pos < Size[task] /\ pos \in 1..Size[task]
            /\ (~Torn(task) => inTransaction) /\ UpTo(pos)
        BY <1>0, <2>3, ReturnCases DEF Sending, Inv, ControlOK, StatementOK
      <3>2. pos' \in 1..Size[task'] /\ pos' - 1 = pos
        BY <1>1, <1>2, <3>1
      <3>3. CASE inTransaction
        <4>1. Nothing /\ inTransaction' /\ uncommitted' = Prefix(task, pos)
          BY <1>0, <2>3, <3>3, ExecutesCases DEF Piece, WholeTransaction
        <4>2. Fresh'
          BY <1>6, <4>1
        <4>3. UpTo(pos)' /\ Before(pos)'
          BY <4>2 DEF Fresh, UpTo, Before
        <4> QED BY <1>2, <3>2, <4>1, <4>2, <4>3 DEF StatementOK
      <3>4. CASE ~inTransaction
        <4>0. Piece
          BY <1>0, <2>3, <3>4, ExecutesCases DEF WholeTransaction
        <4>1. Piece /\ ~inTransaction'
          BY <4>0 DEF Piece
        <4>2. ASSUME NEW i \in 1..Len(committed')
              PROVE  committed'[i][1] < task' \/ (committed'[i][1] = task' /\ committed'[i][2] < pos')
          <5>1. committed'[i][1] < task \/ (committed'[i][1] = task /\ committed'[i][2] <= pos)
            BY <1>0, <1>2, <4>1, LogPiece
          <5>2. committed'[i][2] \in Nat
            BY <1>3, EntryType DEF TypeOK
          <5> QED BY <1>1, <1>2, <3>1, <5>1, <5>2
        <4>3. Before(pos)'
          BY <4>2 DEF Before
        <4>4. UpTo(pos)'
          <5>1. ASSUME NEW i \in 1..Len(committed') PROVE committed'[i][2] \in Nat
            BY <1>3, EntryType DEF TypeOK
          <5> QED BY <1>1, <3>1, <4>2, <5>1 DEF UpTo
        <4>5. Intact(task)' => Has(pos - 1)'
          <5>1. pos' - 1 = pos
            BY <3>2
          <5>2. ASSUME Intact(task)'
                PROVE  \A i \in 1..(pos' - 1) : \E j \in 1..Len(committed') : committed'[j] = <<task', i>>
            BY <1>11, <2>3, <3>4, <5>1, <5>2
          <5> QED BY <5>2 DEF Has
        <4> QED BY <1>2, <2>1, <3>1, <3>2, <3>4, <4>1, <4>3, <4>4, <4>5 DEF StatementOK
      <3> QED BY <3>3, <3>4
    <2> QED BY <1>0, <2>2, <2>3, ReturnCases DEF Sending
  <1>10. CommitOK'
    <2> SUFFICES ASSUME Sending', cmd' = "COMMIT" PROVE CommitOK'
      BY DEF CommitOK
    <2>1. cmd = "statement" /\ pos = Size[task]
      BY <1>0, ReturnCases DEF Sending
    <2>2. inTransaction' => uncommitted' = Prefix(task, Size[task])
      BY <1>0, <2>1, ExecutesCases DEF Piece, WholeTransaction
    <2>3. inTransaction => inTransaction'
      BY <1>0, <2>1, ExecutesCases DEF Piece, WholeTransaction
    <2>4. Intact(task)' /\ ~inTransaction' => Has(Size[task])'
      <3>1. ASSUME Intact(task)', ~inTransaction
            PROVE  \A i \in 1..Size[task'] : \E j \in 1..Len(committed') : committed'[j] = <<task', i>>
        BY <1>2, <1>11, <2>1, <3>1
      <3> QED BY <2>3, <3>1 DEF Has
    <2> QED BY <1>2, <2>2, <2>4 DEF CommitOK
  <1> QED BY <1>3, <1>4, <1>5, <1>7, <1>8, <1>9, <1>10 DEF Inv, ControlOK

LEMMA ReconnectingState ==
    ASSUME Inv, phase = "reconnect"
    PROVE  /\ Sending /\ handle = TRUE /\ inTransaction = FALSE /\ uncommitted = <<>>
           /\ task \in Transactions /\ cmd \in Commands
           /\ disturbed \cup {<<task, cmd>>} \subseteq Transactions \X Commands
  <1>1. Sending /\ handle /\ ~inTransaction /\ uncommitted = <<>> /\ task \in Transactions
    BY DEF Inv, ControlOK, SessionOK, Sending
  <1>2. handle \in BOOLEAN /\ inTransaction \in BOOLEAN /\ cmd \in Commands
        /\ disturbed \subseteq Transactions \X Commands
    BY DEF Inv, TypeOK
  <1>3. <<task, cmd>> \in Transactions \X Commands
    BY <1>1, <1>2
  <1> QED BY <1>1, <1>2, <1>3

LEMMA FaultType ==
    ASSUME Inv, NEW f, Fault(f)
    PROVE  faults' \in 0..MaxFaults
  BY DbAssumption DEF Inv, TypeOK, Fault

LEMMA RefusedType ==
    ASSUME Inv, Sending, Refused
    PROVE  /\ disturbed' \subseteq Transactions \X Commands /\ disturbed \subseteq disturbed'
           /\ cmd # "statement" => <<task, cmd>> \in disturbed'
  <1>1. <<task, cmd>> \in Transactions \X Commands /\ disturbed \subseteq Transactions \X Commands
    BY DEF Inv, TypeOK, ControlOK, SessionOK, Sending
  <1> QED BY <1>1 DEF Refused

LEMMA FailuresInv ==
    ASSUME Inv,
           \/ QueryWithoutConnection \/ QueryDeadlocks \/ QueryFails
           \/ ReconnectRefused \/ ReconnectKeepsPrepareError
    PROVE  Inv'
  <1>0. ConnectionType /\ ServerType
    BY TypeParts DEF Inv
  <1>1. CASE QueryWithoutConnection
    <2>1. /\ Sending /\ ~handle /\ ExecuteReturns(FALSE, errno)
          /\ UNCHANGED <<connection, server, history>>
      BY <1>1 DEF QueryWithoutConnection, Sending
    <2>2. errno = "none" /\ ~inTransaction /\ uncommitted = <<>>
      BY <2>1 DEF Inv, ControlOK, SessionOK
    <2>4. inTransaction = FALSE
      BY <1>0, <2>2 DEF ServerType
    <2>3. ConnectionType' /\ Nothing
      BY <1>0, <2>1 DEF ConnectionType, Nothing, connection, server, history
    <2> QED BY <2>1, <2>2, <2>3, <2>4, ReturnFails DEF connection, server, history
  <1>2. CASE QueryDeadlocks
    <2>1. /\ Sending /\ handle /\ cmd \in {"statement", "COMMIT"} /\ ExecuteReturns(FALSE, "deadlock")
          /\ inTransaction' = FALSE /\ uncommitted' = <<>> /\ Nothing
          /\ handle' = handle /\ m_prepareError' = m_prepareError /\ errno' = "deadlock"
          /\ repliesLost' = repliesLost /\ Refused
          /\ deadlocks' = [deadlocks EXCEPT ![task] = @ + 1]
      BY <1>2 DEF QueryDeadlocks, Sending, ServerDropsTransaction, Nothing
    <2>2. faults' \in 0..MaxFaults
      BY <1>2, FaultType DEF QueryDeadlocks
    <2>3. deadlocks' \in [Transactions -> Nat]
      <3>1. deadlocks \in [Transactions -> Nat] /\ deadlocks' = [deadlocks EXCEPT ![task] = @ + 1]
        BY <1>0, <2>1 DEF ConnectionType
      <3>2. task \in Transactions /\ deadlocks[task] + 1 \in Nat
        BY <2>1, <3>1 DEF Inv, ControlOK, SessionOK, Sending
      <3>3. deadlocks' = [deadlocks EXCEPT ![task] = deadlocks[task] + 1]
        BY <3>1
      <3> QED BY <3>1, <3>2, <3>3
    <2>5. /\ disturbed' \subseteq Transactions \X Commands /\ disturbed \subseteq disturbed'
          /\ cmd # "statement" => <<task, cmd>> \in disturbed'
      BY <2>1, RefusedType
    <2>4. ConnectionType'
      BY <1>0, <2>1, <2>2, <2>3, <2>5 DEF ConnectionType, Errnos
    <2> QED BY <2>1, <2>4, <2>5, ReturnFails
  <1>3. CASE QueryFails
    <2>1. /\ Sending /\ handle /\ ExecuteReturns(FALSE, "skip") /\ Nothing
          /\ \/ inTransaction' = FALSE /\ uncommitted' = <<>>
             \/ cmd = "statement" /\ inTransaction' = inTransaction /\ uncommitted' = uncommitted
          /\ handle' = handle /\ m_prepareError' = m_prepareError /\ errno' = "skip"
          /\ repliesLost' = repliesLost /\ Refused /\ deadlocks' = deadlocks
      BY <1>3 DEF QueryFails, Sending, server, ServerDropsTransaction, Nothing
    <2>2. faults' \in 0..MaxFaults
      BY <1>3, FaultType DEF QueryFails
    <2>4. /\ disturbed' \subseteq Transactions \X Commands /\ disturbed \subseteq disturbed'
          /\ cmd # "statement" => <<task, cmd>> \in disturbed'
      BY <2>1, RefusedType
    <2>3. ConnectionType'
      BY <1>0, <2>1, <2>2, <2>4 DEF ConnectionType, Errnos
    <2> QED BY <2>1, <2>3, <2>4, ReturnFails
  <1>4. CASE ReconnectRefused
    <2>1. /\ phase = "reconnect" /\ ExecuteReturns(FALSE, "none")
          /\ inTransaction' = inTransaction /\ uncommitted' = uncommitted /\ Nothing
          /\ handle' = FALSE /\ m_prepareError' = m_prepareError /\ errno' = "none"
          /\ repliesLost' = repliesLost /\ disturbed' = disturbed /\ deadlocks' = deadlocks
          /\ faults' = faults
      BY <1>4 DEF ReconnectRefused, server, history, Nothing
    <2>2. ConnectionType'
      BY <1>0, <2>1 DEF ConnectionType, Errnos
    <2> QED BY <2>1, <2>2, ReturnFails, ReconnectingState
  <1>5. CASE ReconnectKeepsPrepareError
    <2>1. /\ phase = "reconnect" /\ ExecuteReturns(FALSE, "none")
          /\ inTransaction' = inTransaction /\ uncommitted' = uncommitted /\ Nothing
          /\ handle' = TRUE /\ m_prepareError' = m_prepareError /\ errno' = "none"
          /\ repliesLost' = repliesLost /\ disturbed' = disturbed \cup {<<task, cmd>>}
          /\ deadlocks' = deadlocks /\ faults' = faults
      BY <1>5 DEF ReconnectKeepsPrepareError, NewSession, server, Nothing
    <2>2. ConnectionType'
      BY <1>0, <2>1, ReconnectingState DEF ConnectionType, Errnos
    <2> QED BY <2>1, <2>2, ReturnFails, ReconnectingState
  <1> QED BY <1>1, <1>2, <1>3, <1>4, <1>5

(* The worker keeps its place; the session is gone, or a new one is there. *)
LEMMA SamePlaceInv ==
    ASSUME Inv, ConnectionType', phase' \in Phases \ {"idle"}, phase # "idle",
           UNCHANGED <<task, cmd, pos, attempt, result>>,
           phase' = "query" => phase = "reconnect" /\ (handle' => <<task, cmd>> \in disturbed'),
           phase' = "reconnect" => handle' /\ phase # "aborted",
           inTransaction' = FALSE, uncommitted' = <<>>, committed' \in Seq(Transactions \X Nat),
           handle' = handle, ~handle' => errno' = "none", disturbed \subseteq disturbed',
           \/ Nothing /\ (repliesLost => repliesLost')
           \/ (Piece \/ WholeTransaction) /\ repliesLost' = TRUE
    PROVE  Inv'
  <1>1. /\ TypeOK /\ task \in Transactions /\ task \in Nat /\ attempt = 0 /\ Size[task] \in Nat
    BY SizeType DEF Inv, ControlOK, SessionOK, TypeOK
  <1>2. TypeOK'
    BY <1>1, EmptyType DEF TypeOK, ConnectionType
  <1>3. LogOK' /\ Grown
    <2>1. CASE Nothing
      BY <1>1, <2>1, LogNothing DEF Nothing, Grown
    <2>2. CASE Piece
      BY <2>2, LogPiece DEF Grown
    <2>3. CASE WholeTransaction
      BY <2>3, LogWhole DEF Grown
    <2> QED BY <2>1, <2>2, <2>3
  <1>4. ReportedDoneIsDone'
    BY <1>3, DoneKept
  <1>5. SessionOK'
    BY <1>1 DEF SessionOK
  <1>6. Sending' => Sending
    BY <1>1 DEF Sending, TypeOK, Phases
  <1>7. StartOK'
    <2> SUFFICES ASSUME Sending', cmd' = "START TRANSACTION" PROVE StartOK'
      BY DEF StartOK
    <2>1. Fresh /\ Size[task] > 0 /\ Nothing
      BY <1>6 DEF Inv, ControlOK, StartOK, Piece, WholeTransaction
    <2> QED BY <2>1 DEF StartOK, Fresh, Nothing
  <1>8. StatementOK'
    <2> SUFFICES ASSUME Sending', cmd' = "statement" PROVE StatementOK'
      BY DEF StatementOK
    <2>1. pos \in 1..Size[task] /\ UpTo(pos) /\ (~repliesLost => Before(pos)) /\ (~Torn(task) => Fresh)
      BY <1>6 DEF Inv, ControlOK, StatementOK
    <2>2. Torn(task) => Torn(task)'
      BY DEF Torn
    <2>3. phase' = "query" /\ handle' => Torn(task)'
      BY DEF Torn
    <2>6. phase' = "query" => ~Intact(task)'
      BY DEF Intact, Commands
    <2>4. CASE Nothing
      <3>1. UpTo(pos)' /\ (~repliesLost' => Before(pos)') /\ (~Torn(task)' => Fresh')
        BY <2>1, <2>2, <2>4 DEF UpTo, Before, Fresh, Nothing
      <3> QED BY <2>1, <2>3, <2>4, <2>6, <3>1 DEF StatementOK
    <2>5. CASE Piece /\ repliesLost' = TRUE
      <3>1. UpTo(pos)' /\ Torn(task)'
        BY <2>2, <2>5, LogPiece DEF UpTo
      <3> QED BY <2>1, <2>3, <2>5, <2>6, <3>1 DEF StatementOK
    <2> QED BY <2>4, <2>5 DEF WholeTransaction
  <1>9. CommitOK'
    <2>1. cmd' = "COMMIT" /\ phase' = "query" => ~Intact(task)'
      BY DEF Intact, Commands
    <2> QED BY <1>1, <2>1 DEF CommitOK, TypeOK
  <1> QED BY <1>2, <1>3, <1>4, <1>5, <1>7, <1>8, <1>9 DEF Inv, ControlOK

LEMMA SessionEndsInv ==
    ASSUME Inv, StatementAborts \/ UsesFreedStatement \/ LostBeforeEffect \/ LostAfterEffect
    PROVE  Inv'
  <1>0. ConnectionType /\ ServerType
    BY TypeParts DEF Inv
  <1>1. CASE StatementAborts
    <2>1. /\ phase = "query" /\ phase' = "aborted" /\ Nothing
          /\ inTransaction' = FALSE /\ uncommitted' = <<>>
          /\ UNCHANGED <<task, cmd, pos, attempt, result>>
          /\ handle' = handle /\ m_prepareError' = m_prepareError /\ errno' = errno
          /\ repliesLost' = repliesLost /\ disturbed' = disturbed /\ deadlocks' = deadlocks
      BY <1>1 DEF StatementAborts, ServerDropsTransaction, Nothing, connection
    <2>2. faults' \in 0..MaxFaults
      BY <1>1, FaultType DEF StatementAborts
    <2>3. ConnectionType' /\ committed' \in Seq(Transactions \X Nat)
      BY <1>0, <2>1, <2>2 DEF ConnectionType, ServerType, Nothing
    <2>4. ~handle => errno = "none"
      BY DEF Inv, ControlOK, SessionOK
    <2> QED BY <2>1, <2>3, <2>4, SamePlaceInv DEF Phases
  <1>2. CASE UsesFreedStatement
    <2>1. /\ phase \in {"query", "reconnect"} /\ phase' = "aborted" /\ Nothing
          /\ inTransaction' = FALSE /\ uncommitted' = <<>>
          /\ UNCHANGED <<task, cmd, pos, attempt, result>>
          /\ handle' = handle /\ m_prepareError' = m_prepareError /\ errno' = errno
          /\ repliesLost' = repliesLost /\ disturbed' = disturbed /\ deadlocks' = deadlocks
          /\ faults' = faults
      BY <1>2 DEF UsesFreedStatement, ServerDropsTransaction, Nothing, connection, history
    <2>2. ConnectionType' /\ committed' \in Seq(Transactions \X Nat)
      BY <1>0, <2>1 DEF ConnectionType, ServerType, Nothing
    <2>3. ~handle => errno = "none"
      BY DEF Inv, ControlOK, SessionOK
    <2> QED BY <2>1, <2>2, <2>3, SamePlaceInv DEF Phases
  <1>3. ASSUME NEW f, ConnectionLost(f), repliesLost' \in BOOLEAN
        PROVE  /\ phase = "query" /\ phase' = "reconnect" /\ handle' = handle /\ handle
               /\ UNCHANGED <<task, cmd, pos, attempt, result>> /\ disturbed' = disturbed
               /\ ConnectionType'
    <2>1. /\ phase = "query" /\ handle /\ phase' = "reconnect" /\ errno' = "lost"
          /\ UNCHANGED <<handle, m_prepareError, task, cmd, pos, attempt, result, deadlocks, disturbed>>
      BY <1>3 DEF ConnectionLost
    <2>2. faults' \in 0..MaxFaults
      BY <1>3, FaultType DEF ConnectionLost
    <2>3. ConnectionType'
      BY <1>0, <1>3, <2>1, <2>2 DEF ConnectionType, Errnos
    <2> QED BY <2>1, <2>3
  <1>4. CASE LostBeforeEffect
    <2>1. /\ ConnectionLost("lost") /\ repliesLost' = repliesLost /\ Nothing
          /\ inTransaction' = FALSE /\ uncommitted' = <<>>
      BY <1>4 DEF LostBeforeEffect, ServerDropsTransaction, Nothing
    <2>2. repliesLost' \in BOOLEAN /\ committed' \in Seq(Transactions \X Nat)
      BY <1>0, <2>1 DEF ConnectionType, ServerType, Nothing
    <2> QED BY <1>3, <2>1, <2>2, SamePlaceInv DEF Phases
  <1>5. CASE LostAfterEffect
    <2>1. /\ ConnectionLost("replyLost") /\ repliesLost' = TRUE /\ ServerExecutesAndDies(cmd)
          /\ inTransaction' = FALSE /\ uncommitted' = <<>>
      BY <1>5 DEF LostAfterEffect, ServerExecutesAndDies
    <2>2. /\ phase = "query" /\ handle /\ task' = task
          /\ (repliesLost => repliesLost') /\ repliesLost' \in BOOLEAN
      BY <2>1 DEF ConnectionLost
    <2>3. Nothing \/ Piece \/ WholeTransaction
      BY <2>1, <2>2, DiesCases
    <2>4. committed' \in Seq(Transactions \X Nat)
      BY <1>0, <2>2, <2>3, LogPiece, LogWhole DEF Nothing, ServerType
    <2> QED BY <1>3, <2>1, <2>2, <2>3, <2>4, SamePlaceInv DEF Phases
  <1> QED BY <1>1, <1>2, <1>4, <1>5

LEMMA ReopenInv ==
    ASSUME Inv, ReconnectSucceeds \/ ReconnectPrepareFails
    PROVE  Inv'
  <1>0. ConnectionType /\ ServerType
    BY TypeParts DEF Inv
  <1>1. CASE ReconnectSucceeds
    <2>1. /\ phase = "reconnect" /\ phase' = "query" /\ handle' = TRUE /\ errno' = "none"
          /\ disturbed' = disturbed \cup {<<task, cmd>>} /\ Nothing
          /\ UNCHANGED <<task, cmd, pos, attempt, result>>
          /\ inTransaction' = inTransaction /\ uncommitted' = uncommitted
          /\ m_prepareError' = m_prepareError /\ deadlocks' = deadlocks
          /\ repliesLost' = repliesLost /\ faults' = faults
      BY <1>1 DEF ReconnectSucceeds, Resend, Goto, NewSession, server, Nothing
    <2>2. ConnectionType' /\ committed' \in Seq(Transactions \X Nat)
      BY <1>0, <2>1, ReconnectingState DEF ConnectionType, ServerType, Nothing, Errnos
    <2> QED BY <2>1, <2>2, ReconnectingState, SamePlaceInv DEF Phases
  <1>2. CASE ReconnectPrepareFails
    <2>1. /\ phase = "reconnect" /\ handle' = TRUE /\ m_prepareError' = TRUE
          /\ disturbed' = disturbed \cup {<<task, cmd>>} /\ Nothing
          /\ inTransaction' = inTransaction /\ uncommitted' = uncommitted
          /\ deadlocks' = deadlocks /\ repliesLost' = repliesLost
          /\ \/ errno' = "none" /\ ExecuteReturns(FALSE, "none")
             \/ errno' = "lost" /\ UNCHANGED worker
      BY <1>2 DEF ReconnectPrepareFails, NewSession, server, Nothing
    <2>2. faults' \in 0..MaxFaults
      BY <1>2, FaultType DEF ReconnectPrepareFails
    <2>3. ConnectionType' /\ committed' \in Seq(Transactions \X Nat)
      BY <1>0, <2>1, <2>2, ReconnectingState DEF ConnectionType, ServerType, Nothing, Errnos
    <2>4. CASE ExecuteReturns(FALSE, "none")
      BY <2>1, <2>3, <2>4, ReconnectingState, ReturnFails
    <2>5. CASE UNCHANGED worker
      BY <2>1, <2>3, <2>5, ReconnectingState, SamePlaceInv DEF worker, Phases
    <2> QED BY <2>1, <2>4, <2>5
  <1> QED BY <1>1, <1>2

LEMMA DequeueInv ==
    ASSUME Inv, Dequeue
    PROVE  Inv'
  <1>1. /\ phase = "idle" /\ task < Len(Size) /\ task' = task + 1 /\ attempt' = 0
        /\ UNCHANGED <<connection, server, history>> /\ Nothing
        /\ ~inTransaction /\ uncommitted = <<>>
    BY DEF Dequeue, server, Nothing, Inv, ControlOK, SessionOK
  <1>2. /\ TypeOK /\ task \in Nat /\ Len(Size) \in Nat
    BY DbAssumption DEF Inv, TypeOK
  <1>3. task' \in Transactions /\ task' \in Nat /\ task' \in 0..Len(Size) /\ Size[task'] \in Nat
    BY <1>1, <1>2, SizeType
  <1>4. /\ result' = result \/ result' = [result EXCEPT ![task'] = "false"]
        /\ \/ phase' = "idle" /\ cmd' = cmd /\ pos' = pos
           \/ phase' = "query" /\ cmd' = "START TRANSACTION" /\ pos' = 0 /\ Size[task'] > 0
    <2>1. CASE Size[task'] = 0
      BY <1>1, <2>1 DEF Dequeue
    <2>2. CASE Size[task'] > 0
      BY <1>1, <2>2 DEF Dequeue, ExecuteTransaction, Goto
    <2>3. Size[task'] = 0 \/ Size[task'] > 0
      BY <1>3
    <2> QED BY <2>1, <2>2, <2>3
  <1>5. TypeOK'
    <2>1. result' \in [Transactions -> Results]
      BY <1>2, <1>3, <1>4 DEF TypeOK, Results
    <2>2. phase' \in Phases /\ cmd' \in Commands /\ pos' \in Nat
      <3>1. cmd \in Commands /\ pos \in Nat
        BY <1>2 DEF TypeOK
      <3>2. phase' \in {"idle", "query"} /\ cmd' \in {cmd, "START TRANSACTION"} /\ pos' \in {pos, 0}
        BY <1>4
      <3>3. phase' \in Phases
        BY <3>2 DEF Phases
      <3>4. cmd' \in Commands
        BY <3>1, <3>2 DEF Commands
      <3>5. pos' \in Nat
        <4>1. pos \in Nat /\ (pos' = pos \/ pos' = 0)
          BY <3>1, <3>2
        <4> QED BY <4>1
      <3> QED BY <3>3, <3>4, <3>5
    <2>3. attempt' \in 0..LoopBreaker
      BY <1>1, DbAssumption
    <2> QED BY <1>1, <1>2, <1>3, <2>1, <2>2, <2>3 DEF TypeOK, connection, server, history
  <1>6. LogOK'
    BY <1>1, <1>2, <1>3, LogNothing DEF history
  <1>7. ReportedDoneIsDone'
    <2>1. Grown
      BY <1>1 DEF Grown, Nothing
    <2>2. \A t \in Transactions : result'[t] = "true" => result[t] = "true"
      BY <1>2, <1>3, <1>4 DEF TypeOK
    <2> QED BY <1>1, <2>1, <2>2, DoneKept DEF connection, history
  <1>8. Fresh'
    <2>1. ASSUME NEW i \in 1..Len(committed) PROVE committed[i][1] < task'
      <3>1. committed[i][1] \in Nat /\ committed[i][1] <= task
        BY <1>2, EntryType DEF TypeOK, Inv, LogOK
      <3> QED BY <1>1, <1>2, <3>1
    <2> QED BY <1>1, <2>1 DEF Fresh, Nothing
  <1>9. SessionOK'
    BY <1>1, <1>3, <1>4 DEF Inv, ControlOK, SessionOK, connection, server
  <1>10. StartOK' /\ StatementOK' /\ CommitOK'
    BY <1>1, <1>4, <1>8 DEF StartOK, StatementOK, CommitOK, Sending, server
  <1> QED BY <1>5, <1>6, <1>7, <1>9, <1>10 DEF Inv, ControlOK

LEMMA StepInv == Inv /\ [Next]_vars => Inv'
  <1> SUFFICES ASSUME Inv, [Next]_vars PROVE Inv'
    OBVIOUS
  <1>1. CASE UNCHANGED vars
    BY <1>1, ZenonT(60) DEF Inv, TypeOK, ControlOK, SessionOK, StartOK, StatementOK, CommitOK, LogOK,
                Sending, Fresh, UpTo, Before, Has, Torn, Intact, OrderRespected,
                AppliedTwiceOnlyIfReplyLost, ReportedDoneIsDone,
                vars, connection, server, worker, history
  <1>2. CASE Next
    BY <1>1, <1>2, QuerySucceedsInv, FailuresInv, SessionEndsInv, ReopenInv, DequeueInv
       DEF Next, Terminated
  <1> QED BY <1>1, <1>2

LEMMA InvHolds == Spec => []Inv
  <1> QED BY InitInv, StepInv, PTL DEF Spec

-----------------------------------------------------------------------------
(* What callers rely on *)

(* "The order in which these operations were appended to the transaction    *)
(* will be respected": for any transactions and any faults of commands and  *)
(* reconnections, statements reach the database in queue order.             *)
THEOREM StatementsInOrder == Spec => [](TypeOK /\ OrderRespected)
  <1>1. Inv => TypeOK /\ OrderRespected
    BY DEF Inv, LogOK
  <1> QED BY <1>1, InvHolds, PTL

(* Through any faults the connection keeps its types, and a transaction is *)
(* never rerun more often than TransactionTask::Execute's loop breaker      *)
(* allows.                                                                  *)
THEOREM ConnectionTypes == Spec => []TypeOK
  <1>1. Inv => TypeOK
    BY DEF Inv
  <1> QED BY <1>1, InvHolds, PTL

(* Sending a command again after a reconnection applies a statement twice   *)
(* only if the reply to its first execution was lost.                       *)
THEOREM ResendSafe == Spec => []AppliedTwiceOnlyIfReplyLost
  <1>1. Inv => AppliedTwiceOnlyIfReplyLost
    BY DEF Inv, LogOK
  <1> QED BY <1>1, InvHolds, PTL

(* What TransactionTask::Execute reports as done is in the database, unless *)
(* the connection was lost on the way.                                      *)
THEOREM DoneIsDone == Spec => []ReportedDoneIsDone
  <1>1. Inv => ReportedDoneIsDone
    BY DEF Inv
  <1> QED BY <1>1, InvHolds, PTL

(* The code after a deadlock never runs: no reachable state has a rerun.    *)
THEOREM NeverReruns == Spec => [](attempt = 0)
  <1>1. Inv => attempt = 0
    BY DEF Inv, ControlOK, SessionOK
  <1> QED BY <1>1, InvHolds, PTL

-----------------------------------------------------------------------------
(* DbTransaction implements AtomicStore *)

TornSet == {t \in Transactions : Torn(t)}

(* A step changes the log or what is torn, never both, and a transaction is *)
(* torn before anything of it has taken effect.                             *)
LEMMA LogStep ==
    ASSUME Inv, Next
    PROVE  \/ Nothing /\ TornSet' = TornSet
           \/ Nothing /\ task \in Transactions /\ Fresh /\ TornSet' = TornSet \cup {task}
           \/ (Piece \/ WholeTransaction) /\ task' = task /\ repliesLost \in BOOLEAN
              /\ (repliesLost => repliesLost') /\ TornSet' = TornSet
  <1>0. repliesLost \in BOOLEAN
    BY DEF Inv, TypeOK
  <1>1. ASSUME disturbed' = disturbed PROVE TornSet' = TornSet
    BY <1>1 DEF TornSet, Torn
  <1>2. ASSUME phase \in {"query", "reconnect"}, Nothing, disturbed' = disturbed \cup {<<task, cmd>>}
        PROVE  \/ TornSet' = TornSet
               \/ task \in Transactions /\ Fresh /\ TornSet' = TornSet \cup {task}
    <2>1. task \in Transactions /\ Sending
      BY <1>2 DEF Inv, ControlOK, SessionOK, Sending
    <2>2. CASE cmd \in {"START TRANSACTION", "statement"} /\ ~Torn(task)
      <3>1. Fresh
        BY <2>1, <2>2 DEF Inv, ControlOK, StartOK, StatementOK
      <3>2. TornSet' = TornSet \cup {task}
        BY <1>2, <2>1, <2>2 DEF TornSet, Torn
      <3> QED BY <2>1, <3>1, <3>2
    <2>3. CASE cmd \notin {"START TRANSACTION", "statement"} \/ Torn(task)
      BY <1>2, <2>3 DEF TornSet, Torn
    <2> QED BY <2>2, <2>3
  <1>3. CASE Dequeue \/ QueryWithoutConnection
    BY <1>1, <1>3 DEF Dequeue, QueryWithoutConnection, server, history, Nothing
  <1>4. CASE StatementAborts \/ UsesFreedStatement \/ LostBeforeEffect
    BY <1>1, <1>4 DEF StatementAborts, UsesFreedStatement, LostBeforeEffect,
                      ConnectionLost, ServerDropsTransaction, Nothing, history
  <1>10. CASE QueryDeadlocks \/ QueryFails
    <2>1. phase = "query" /\ Nothing /\ Refused
      BY <1>10 DEF QueryDeadlocks, QueryFails, ServerDropsTransaction, server, Nothing
    <2>2. CASE cmd = "statement"
      <3>1. disturbed' = disturbed
        BY <2>1, <2>2 DEF Refused
      <3> QED BY <1>1, <2>1, <3>1
    <2>3. CASE cmd # "statement"
      <3>1. disturbed' = disturbed \cup {<<task, cmd>>}
        BY <2>1, <2>3 DEF Refused
      <3> QED BY <1>2, <2>1, <3>1
    <2> QED BY <2>2, <2>3
  <1>5. CASE ReconnectRefused
    BY <1>1, <1>5 DEF ReconnectRefused, server, history, Nothing
  <1>6. CASE QuerySucceeds
    <2>1. /\ phase = "query" /\ handle /\ Sending /\ ServerExecutes(cmd)
          /\ ExecuteReturns(TRUE, "none") /\ disturbed' = disturbed /\ repliesLost' = repliesLost
      BY <1>6 DEF QuerySucceeds, Sending, history
    <2>2. task' = task
      BY <2>1, ReturnType
    <2> QED BY <1>0, <1>1, <2>1, <2>2, ExecutesCases
  <1>7. CASE LostAfterEffect
    <2>1. /\ phase = "query" /\ handle /\ task' = task /\ disturbed' = disturbed
          /\ repliesLost' = TRUE /\ ServerExecutesAndDies(cmd)
      BY <1>7 DEF LostAfterEffect, ConnectionLost
    <2> QED BY <1>0, <1>1, <2>1, DiesCases
  <1>8. CASE ReconnectSucceeds \/ ReconnectPrepareFails \/ ReconnectKeepsPrepareError
    <2>1. phase = "reconnect" /\ Nothing /\ disturbed' = disturbed \cup {<<task, cmd>>}
      BY <1>8 DEF ReconnectSucceeds, ReconnectPrepareFails, ReconnectKeepsPrepareError,
                  NewSession, server, Nothing
    <2> QED BY <1>2, <2>1
  <1>9. CASE Terminated
    BY <1>1, <1>9 DEF Terminated, vars, server, history, Nothing
  <1> QED BY <1>3, <1>4, <1>5, <1>6, <1>7, <1>8, <1>9, <1>10 DEF Next

(* The last statement that took effect belongs to an earlier transaction. *)
LEMMA LastFresh ==
    ASSUME Inv, Fresh, task \in Transactions
    PROVE  Store!Last[1] < task
  <1>1. committed \in Seq(Transactions \X Nat) /\ task \in Nat /\ task > 0
    BY SizeType, DbAssumption DEF Inv, TypeOK
  <1>2. CASE committed = <<>>
    BY <1>1, <1>2 DEF Store!Last
  <1>3. CASE committed # <<>>
    <2>1. Len(committed) \in 1..Len(committed)
      BY <1>1, <1>3
    <2> QED BY <1>3, <2>1 DEF Store!Last, Fresh
  <1> QED BY <1>2, <1>3

LEMMA StoreStep == Inv /\ [Next]_vars => [Store!Next]_<<committed, TornSet>>
  <1> SUFFICES ASSUME Inv, [Next]_vars PROVE [Store!Next]_<<committed, TornSet>>
    OBVIOUS
  <1>0. DOMAIN Size = Transactions
    BY DEF Transactions
  <1>1. CASE UNCHANGED vars
    BY <1>1 DEF vars, server, history, TornSet, Torn
  <1>2. CASE Nothing /\ TornSet' = TornSet
    BY <1>2 DEF Nothing
  <1>3. CASE Nothing /\ task \in Transactions /\ Fresh /\ TornSet' = TornSet \cup {task}
    <2>1. Store!Tear(task)
      BY <1>3, LastFresh DEF Store!Tear, Nothing, TornSet
    <2> QED BY <1>0, <1>3, <2>1 DEF Store!Next
  <1>4. CASE Piece /\ task' = task /\ (repliesLost => repliesLost') /\ TornSet' = TornSet
    <2>1. /\ task \in Transactions /\ pos \in 1..Size[task] /\ UpTo(pos) /\ Torn(task)
      BY <1>4, LogPiece DEF Inv, ControlOK, SessionOK, StatementOK, Sending, Piece
    <2>2. committed \in Seq(Transactions \X Nat) /\ task \in Nat /\ task > 0
      BY <2>1, SizeType, DbAssumption DEF Inv, TypeOK
    <2>3. Store!Last[1] < task \/ (Store!Last[1] = task /\ Store!Last[2] <= pos)
      <3>1. CASE committed = <<>>
        BY <2>2, <3>1 DEF Store!Last
      <3>2. CASE committed # <<>>
        <4>1. Len(committed) \in 1..Len(committed)
          BY <2>2, <3>2
        <4> QED BY <2>1, <3>2, <4>1 DEF Store!Last, UpTo
      <3> QED BY <3>1, <3>2
    <2>4. Store!ApplyPiece(task, pos)
      BY <1>4, <2>1, <2>3 DEF Store!ApplyPiece, Piece, TornSet
    <2> QED BY <1>0, <2>1, <2>4 DEF Store!Next
  <1>5. CASE WholeTransaction /\ TornSet' = TornSet
    <2>1. task \in Transactions /\ Fresh
      BY <1>5 DEF Inv, ControlOK, SessionOK, WholeTransaction
    <2>2. Store!Whole(task) = Prefix(task, Size[task])
      BY DEF Store!Whole, Prefix
    <2>3. Store!Apply(task)
      BY <1>5, <2>1, <2>2, LastFresh DEF Store!Apply, WholeTransaction, TornSet
    <2> QED BY <1>0, <2>1, <2>3 DEF Store!Next
  <1> QED BY <1>1, <1>2, <1>3, <1>4, <1>5, LogStep

(* Refinement: but for the transactions whose session was replaced midway,  *)
(* ExecuteTransaction applies whole transactions, in queue order, each at   *)
(* most once, wherever statements fail or deadlock, and wherever the        *)
(* connection, the server or the process dies; a torn transaction's         *)
(* statements take effect in order and before any later transaction.        *)
THEOREM ImplementsAtomicStore == Spec => AllOrNothing
  <1>1. Init => Store!Init
    BY DEF Init, Store!Init, Torn
  <1>2. Inv /\ [Next]_vars => [Store!Next]_<<committed, {t \in Transactions : Torn(t)}>>
    BY StoreStep DEF TornSet
  <1> QED BY <1>1, <1>2, InvHolds, PTL DEF Spec, AllOrNothing, Store!Spec
=============================================================================
