-------------------------- MODULE WorldLoopProofs ---------------------------
(***************************************************************************)
(* Theorems about the session and the world thread of WorldLoop, for any   *)
(* scenario and any number of packets and logins.                          *)
(***************************************************************************)
EXTENDS ConsoleProofs

(* The packets that have arrived and not been read, first one first *)
Flight   == IF net = "incoming" THEN Append(recvQueue, incoming) ELSE recvQueue
InFlight == {Flight[i] : i \in 1..Len(Flight)}

PacketsOK ==
    /\ \A p \in InFlight : p.id \in 1..received /\ p.login <= logins
    /\ call.id <= received

(* closing_ is set with m_Session cleared, or by handle_close, which clears *)
(* it next; a session is deleted only after that.  A socket that is open    *)
(* has a session as soon as its client is authenticated.                    *)
SocketOK ==
    /\ closing /\ net # "closing" => ~m_Session
    /\ net = "closing" => closing
    /\ ~closing => (m_Session <=> alive)
    /\ ~closing /\ ~alive => client = "connecting"
    /\ ~alive => updater = "none" /\ player = "none" /\ recvQueue = <<>>

(* Who is in Update, and how far the shutdown has come.  A session that     *)
(* KickAll does not find in m_sessions is in addSessQueue, if there is one: *)
(* its client has not got as far as a character.                            *)
WorldOK ==
    /\ world \in WorldStates /\ master \in {"world", "ra", "soap", "databases", "returned"}
    /\ kicked \in BOOLEAN
    /\ updater \in {"world", "worldEnd"} => world \in {"session", "lastSession"}
    /\ updater = "map" => world = "map" /\ player = "world"
    /\ queued => alive /\ client = "connecting" /\ updater = "none"
    /\ client = "connecting" => player = "none" /\ loginQuery = "none" /\ logouts = 0
    /\ kicked => closing /\ world \in {"last", "lastSession", "network", "ended"}
    /\ kicked /\ world = "lastSession" /\ updater = "none" => ~alive
    /\ kicked /\ world \in {"network", "ended"} => ~alive
    /\ world = "last" /\ ~kicked /\ alive => queued
    /\ world = "lastSession" /\ ~kicked /\ updater # "none" => client = "connecting"
    /\ world = "lastSession" /\ updater = "none" => player = "none"
    /\ world \in {"network", "ended"} => player = "none"

(* Packets sent from the character list, packets about a character, and     *)
(* those about one that the client has left                                 *)
List(p) == p.opcode \in {"CHAR_ENUM", "PLAYER_LOGIN"}
Game(p) == Status(p) \in {"LOGGEDIN", "TRANSFER"}
Left(p, screen, n) == Game(p) /\ (screen # "game" \/ p.login < n)
Old(p)  == Left(p, client, logins)

(* The packets about the character that was left come first, then the ones  *)
(* sent from the character list, a PLAYER_LOGIN last, then the ones about   *)
(* the new character.                                                       *)
FlightOrder ==
    \A i, j \in 1..Len(Flight) : i < j =>
        /\ List(Flight[i]) => ~Old(Flight[j])
        /\ Flight[i].opcode = "PLAYER_LOGIN" => ~List(Flight[j])
        /\ Game(Flight[i]) /\ ~Old(Flight[i]) => ~List(Flight[j])

(* m_playerRecentlyLogout stands as long as old packets are left. *)
OldMeansRecent == \A p \in InFlight : Old(p) => recentlyLogout

Asked == \E p \in InFlight : p.opcode = "PLAYER_LOGIN"

(* How the client, the packets and the session's player go together: the    *)
(* client is at its character list; has asked for a login; is loading or    *)
(* playing the character of that login, or was never given it; has been     *)
(* logged out and does not know it yet.                                     *)
LoginOK ==
    /\ \A p \in InFlight : p.opcode = "PLAYER_LOGIN" => p.login = logins
    /\ Asked => client = "game" /\ logouts = 0 /\ player = "none" /\ ~loading
    /\ client = "game" /\ ~Asked => \A p \in InFlight : ~List(p) /\ ~Old(p)
    /\ player # "none" \/ loading => character = logins /\ client = "game" /\ logouts = 0
    /\ client # "game" => logouts = 0
    /\ logouts # 0 => logouts = 1 /\ recentlyLogout
    /\ loginQuery # "none" => loading
    /\ loading => player = "none"
    /\ logoutTimer => player # "none"

(* Is p's handler called in order if r's is called before it? *)
Follows(p, r, ids) ==
    \/ p.id \in ids \/ r.id < p.id
    \/ Status(r) = "AUTHED" /\ Status(p) # "AUTHED"

Sorted(q, ids) == \A i, j \in 1..Len(q) : i < j => Follows(q[j], q[i], ids)

(* The packets from place k on have been put back by this call of Update,   *)
(* or have come since; those in front will be put back behind them if they  *)
(* need a character.                                                        *)
Turned(q, k, i, j, ids) ==
    IF i < k /\ k <= j THEN /\ Status(q[i]) = "LOGGEDIN" => Follows(q[i], q[j], ids)
                            /\ Status(q[i]) = "AUTHED" => Follows(q[j], q[i], ids)
                       ELSE Follows(q[j], q[i], ids)

Rotated(q, k, ids) == \A i, j \in 1..Len(q) : i < j => Turned(q, k, i, j, ids)

Distinct(q) == \A i, j \in 1..Len(q) : q[i].id = q[j].id => i = j

(* A call of p's handler now is in order. *)
InTurn(p) ==
    \/ p.id \in passed
    \/ \A i \in IF Status(p) = "AUTHED" THEN handled ELSE handledGame : i < p.id

OrderOK ==
    /\ \A p \in InFlight : InTurn(p)
    /\ net = "incoming" => \A i \in 1..Len(recvQueue) : recvQueue[i].id < incoming.id
    /\ Distinct(recvQueue)
    /\ firstDelayed = 0 => Sorted(recvQueue, passed)
    /\ firstDelayed # 0 => \E k \in 1..Len(recvQueue) :
          recvQueue[k].id = firstDelayed /\ Rotated(recvQueue, k, passed)

(* Packets are put back only while the character is loaded, or was not      *)
(* given.                                                                   *)
DelayOK ==
    firstDelayed # 0 =>
        updater = "world" /\ player = "none" /\ ~recentlyLogout /\ client = "game" /\ ~Asked

FlowOK == ~closing => FlightOrder /\ OldMeansRecent /\ LoginOK /\ OrderOK /\ DelayOK

CallOK == OwnCharacter /\ HandlersInTheirThread

SessionInv == SessionTypeOK /\ PacketsOK /\ SocketOK /\ WorldOK /\ CallOK /\ FlowOK

-----------------------------------------------------------------------------
(* The packets that have arrived *)

LEMMA OpcodeFacts ==
    /\ DOMAIN Opcodes = {"CHAR_ENUM", "PLAYER_LOGIN", "GUILD_QUERY", "WARDEN_DATA", "MESSAGECHAT",
                         "LOGOUT_REQUEST", "MOVE", "TIME_SYNC", "LOGOUT_CANCEL", "WORLDPORT_ACK"}
    /\ Opcodes["CHAR_ENUM"] = [status |-> "AUTHED", processing |-> "THREADUNSAFE"]
    /\ Opcodes["PLAYER_LOGIN"] = [status |-> "AUTHED", processing |-> "THREADUNSAFE"]
    /\ Opcodes["GUILD_QUERY"] = [status |-> "AUTHED", processing |-> "THREADUNSAFE"]
    /\ Opcodes["WARDEN_DATA"] = [status |-> "AUTHED", processing |-> "THREADSAFE"]
    /\ Opcodes["MESSAGECHAT"] = [status |-> "LOGGEDIN", processing |-> "THREADUNSAFE"]
    /\ Opcodes["LOGOUT_REQUEST"] = [status |-> "LOGGEDIN", processing |-> "THREADUNSAFE"]
    /\ Opcodes["MOVE"] = [status |-> "LOGGEDIN", processing |-> "THREADSAFE"]
    /\ Opcodes["TIME_SYNC"] = [status |-> "LOGGEDIN", processing |-> "INPLACE"]
    /\ Opcodes["LOGOUT_CANCEL"] = [status |-> "RECENTLY", processing |-> "THREADUNSAFE"]
    /\ Opcodes["WORLDPORT_ACK"] = [status |-> "TRANSFER", processing |-> "THREADUNSAFE"]
  BY DEF Opcodes

LEMMA StatusFacts ==
    ASSUME NEW p, p.opcode \in DOMAIN Opcodes
    PROVE  /\ Status(p) = "AUTHED" <=>
                p.opcode \in {"CHAR_ENUM", "PLAYER_LOGIN", "GUILD_QUERY", "WARDEN_DATA"}
           /\ Status(p) = "RECENTLY" <=> p.opcode = "LOGOUT_CANCEL"
           /\ Status(p) = "TRANSFER" <=> p.opcode = "WORLDPORT_ACK"
           /\ Status(p) = "LOGGEDIN" <=>
                p.opcode \in {"MESSAGECHAT", "LOGOUT_REQUEST", "MOVE", "TIME_SYNC"}
           /\ Status(p) \in {"AUTHED", "RECENTLY", "TRANSFER", "LOGGEDIN"}
           /\ Game(p) <=> Status(p) \notin {"AUTHED", "RECENTLY"}
  <1>1. Status(p) = Opcodes[p.opcode].status
    BY DEF Status
  <1> QED BY <1>1, OpcodeFacts DEF Game

(* Sequences of packets *)
LEMMA SeqFacts ==
    ASSUME NEW q \in Seq(Packets)
    PROVE  /\ Len(q) \in Nat /\ \A i \in 1..Len(q) : q[i] \in Packets
           /\ q = <<>> <=> Len(q) = 0
           /\ \A p \in Packets :
                 /\ Append(q, p) \in Seq(Packets) /\ Len(Append(q, p)) = Len(q) + 1
                 /\ Append(q, p)[Len(q) + 1] = p
                 /\ \A i \in 1..Len(q) : Append(q, p)[i] = q[i]
           /\ q # <<>> =>
                 /\ Head(q) = q[1] /\ Head(q) \in Packets
                 /\ Tail(q) \in Seq(Packets) /\ Len(Tail(q)) = Len(q) - 1
                 /\ \A i \in 1..(Len(q) - 1) : Tail(q)[i] = q[i + 1]
  <1> DEFINE S == Packets
  <1> HIDE DEF S
  <1>1. q \in Seq(S)
    BY DEF S
  <1>2. Len(q) \in Nat /\ (\A i \in 1..Len(q) : q[i] \in S) /\ (q = <<>> <=> Len(q) = 0)
    BY <1>1
  <1>3. \A p \in S :
                 /\ Append(q, p) \in Seq(S) /\ Len(Append(q, p)) = Len(q) + 1
                 /\ Append(q, p)[Len(q) + 1] = p
                 /\ \A i \in 1..Len(q) : Append(q, p)[i] = q[i]
    BY <1>1
  <1>4. q # <<>> =>
                 /\ Head(q) = q[1] /\ Head(q) \in S
                 /\ Tail(q) \in Seq(S) /\ Len(Tail(q)) = Len(q) - 1
                 /\ \A i \in 1..(Len(q) - 1) : Tail(q)[i] = q[i + 1]
    BY <1>1
  <1> QED BY <1>2, <1>3, <1>4 DEF S

LEMMA FlightFacts ==
    ASSUME SessionTypeOK
    PROVE  /\ Flight \in Seq(Packets) /\ Len(Flight) \in Nat /\ InFlight \subseteq Packets
           /\ Len(recvQueue) \in Nat
           /\ \A i \in 1..Len(recvQueue) : i \in 1..Len(Flight) /\ Flight[i] = recvQueue[i]
           /\ net # "incoming" => Flight = recvQueue
           /\ net = "incoming" => Len(Flight) = Len(recvQueue) + 1 /\ Flight[Len(Flight)] = incoming
           /\ recvQueue # <<>> => /\ Head(recvQueue) = Flight[1] /\ 1 \in 1..Len(Flight)
                                  /\ 1 \in 1..Len(recvQueue) /\ Head(recvQueue) = recvQueue[1]
                                  /\ Head(recvQueue) \in InFlight /\ Head(recvQueue) \in Packets
           /\ \A i \in 1..Len(recvQueue) : recvQueue[i] \in InFlight
           /\ net = "incoming" => incoming \in InFlight
  <1>1. recvQueue \in Seq(Packets) /\ incoming \in Packets
    BY DEF SessionTypeOK
  <1>2. Flight \in Seq(Packets) /\ Len(Flight) \in Nat
    BY <1>1, SeqFacts DEF Flight
  <1>3. InFlight \subseteq Packets
    BY <1>2, SeqFacts DEF InFlight
  <1>4. Len(recvQueue) \in Nat
        /\ \A i \in 1..Len(recvQueue) : i \in 1..Len(Flight) /\ Flight[i] = recvQueue[i]
    <2>1. CASE net = "incoming"
      BY <1>1, <2>1, SeqFacts DEF Flight
    <2>2. CASE net # "incoming"
      BY <1>1, <2>2, SeqFacts DEF Flight
    <2> QED BY <2>1, <2>2
  <1>5. /\ net # "incoming" => Flight = recvQueue
        /\ net = "incoming" => Len(Flight) = Len(recvQueue) + 1 /\ Flight[Len(Flight)] = incoming
    BY <1>1, SeqFacts DEF Flight
  <1>6. recvQueue # <<>> => 1 \in 1..Len(recvQueue) /\ Head(recvQueue) = recvQueue[1]
    BY <1>1, <1>4, SeqFacts
  <1>7. \A i \in 1..Len(recvQueue) : recvQueue[i] \in InFlight
    BY <1>4 DEF InFlight
  <1>8. net = "incoming" => incoming \in InFlight
    <2>1. net = "incoming" => Len(Flight) \in 1..Len(Flight)
      BY <1>2, <1>4, <1>5
    <2> QED BY <1>5, <2>1 DEF InFlight
  <1> QED BY <1>2, <1>3, <1>4, <1>5, <1>6, <1>7, <1>8

(* Update has taken the first packet. *)
LEMMA Consumed ==
    ASSUME SessionTypeOK, recvQueue # <<>>, recvQueue' = Tail(recvQueue), net' = net,
           incoming' = incoming
    PROVE  /\ recvQueue' \in Seq(Packets) /\ Len(recvQueue') = Len(recvQueue) - 1
           /\ \A i \in 1..Len(recvQueue') : recvQueue'[i] = recvQueue[i + 1] /\ i + 1 \in 1..Len(recvQueue)
           /\ Len(Flight') = Len(Flight) - 1
           /\ \A i \in 1..Len(Flight') : Flight'[i] = Flight[i + 1] /\ i + 1 \in 1..Len(Flight)
           /\ InFlight' \subseteq InFlight /\ InFlight \subseteq InFlight' \cup {Head(recvQueue)}
  <1> DEFINE n == Len(recvQueue)
             m == Len(Flight)
  <1>1. /\ recvQueue \in Seq(Packets) /\ incoming \in Packets /\ n \in Nat /\ m \in Nat /\ n > 0
    BY FlightFacts, SeqFacts DEF SessionTypeOK
  <1>2. /\ recvQueue' \in Seq(Packets) /\ Len(recvQueue') = n - 1
        /\ \A i \in 1..(n - 1) : recvQueue'[i] = recvQueue[i + 1]
    BY <1>1, SeqFacts
  <1>3. Flight' = IF net = "incoming" THEN Append(recvQueue', incoming) ELSE recvQueue'
    BY DEF Flight
  <1>4. /\ \A i \in 1..(n - 1) : i + 1 \in 1..n
        /\ \A i \in 1..(m - 1) : i + 1 \in 1..m
        /\ \A i \in 1..m : i = 1 \/ (i - 1 \in 1..(m - 1) /\ (i - 1) + 1 = i)
        /\ 1 \in 1..n
    BY <1>1
  <1>5. Len(Flight') = m - 1 /\ \A i \in 1..(m - 1) : Flight'[i] = Flight[i + 1]
    <2>1. CASE net # "incoming"
      BY <1>2, <1>3, <2>1, FlightFacts
    <2>2. CASE net = "incoming"
      <3>1. m = n + 1 /\ Flight[n + 1] = incoming /\ \A i \in 1..n : Flight[i] = recvQueue[i]
        BY <2>2, FlightFacts
      <3>2. /\ Len(Flight') = n /\ Flight'[n] = incoming
            /\ \A i \in 1..(n - 1) : Flight'[i] = recvQueue'[i]
        <4>1. Len(Append(recvQueue', incoming)) = Len(recvQueue') + 1
              /\ Append(recvQueue', incoming)[Len(recvQueue') + 1] = incoming
              /\ \A i \in 1..Len(recvQueue') : Append(recvQueue', incoming)[i] = recvQueue'[i]
          BY <1>1, <1>2, SeqFacts
        <4>2. Len(recvQueue') + 1 = n
          BY <1>1, <1>2
        <4> QED BY <1>2, <1>3, <2>2, <4>1, <4>2
      <3>3. \A i \in 1..n : i = n \/ i \in 1..(n - 1)
        BY <1>1
      <3>4. \A i \in 1..(n - 1) : Flight'[i] = Flight[i + 1]
        BY <1>2, <1>4, <3>1, <3>2
      <3>5. m - 1 = n
        BY <1>1, <3>1
      <3> HIDE DEF n, m
      <3>6. \A i \in 1..n : Flight'[i] = Flight[i + 1]
        BY <3>1, <3>2, <3>3, <3>4
      <3> QED BY <3>2, <3>5, <3>6
    <2> QED BY <2>1, <2>2
  <1>6. InFlight' = {Flight'[i] : i \in 1..(m - 1)}
    BY <1>5 DEF InFlight
  <1>7. InFlight' \subseteq InFlight
    BY <1>4, <1>5, <1>6 DEF InFlight
  <1>8. InFlight \subseteq InFlight' \cup {Head(recvQueue)}
    <2> SUFFICES ASSUME NEW i \in 1..m PROVE Flight[i] \in InFlight' \cup {Head(recvQueue)}
      BY DEF InFlight
    <2>1. CASE i = 1
      BY <2>1, FlightFacts
    <2>2. CASE i # 1
      BY <1>4, <1>5, <1>6, <2>2, ZenonT(60)
    <2> QED BY <2>1, <2>2
  <1> QED BY <1>2, <1>4, <1>5, <1>7, <1>8

(* handle_input has received packet p. *)
LEMMA Arrived ==
    ASSUME SessionTypeOK, net = "idle", net' = "incoming", NEW p \in Packets, incoming' = p,
           recvQueue' = recvQueue
    PROVE  /\ Len(Flight') = Len(Flight) + 1 /\ Flight'[Len(Flight) + 1] = p
           /\ \A i \in 1..Len(Flight) : Flight'[i] = Flight[i]
           /\ InFlight' = InFlight \cup {p}
  <1> DEFINE m == Len(Flight)
  <1>1. Flight' = Append(recvQueue, p) /\ Flight = recvQueue /\ recvQueue \in Seq(Packets) /\ m \in Nat
    BY FlightFacts DEF Flight, SessionTypeOK
  <1>2. /\ Len(Flight') = m + 1 /\ Flight'[m + 1] = p
        /\ \A i \in 1..m : Flight'[i] = Flight[i]
    BY <1>1, SeqFacts
  <1>3. 1..(m + 1) = 1..m \cup {m + 1}
    BY <1>1
  <1>4. InFlight' = {Flight'[i] : i \in 1..(m + 1)}
    BY <1>2 DEF InFlight
  <1> QED BY <1>2, <1>3, <1>4 DEF InFlight

(* The first packet goes behind the ones that are queued. *)
LEMMA BackOfQueue ==
    ASSUME SessionTypeOK, recvQueue # <<>>, recvQueue' = Append(Tail(recvQueue), Head(recvQueue)),
           net' = net, incoming' = incoming
    PROVE  LET n == Len(recvQueue) IN
           /\ recvQueue' \in Seq(Packets) /\ Len(recvQueue') = n /\ n > 0 /\ n \in Nat
           /\ \A i \in 1..(n - 1) : recvQueue'[i] = recvQueue[i + 1] /\ i + 1 \in 1..n
           /\ recvQueue'[n] = recvQueue[1] /\ 1 \in 1..n
           /\ \A i \in 1..n : i = n \/ i \in 1..(n - 1)
           /\ Len(Flight') = Len(Flight)
           /\ \A i \in 1..n : Flight'[i] = recvQueue'[i] /\ Flight[i] = recvQueue[i] /\ i \in 1..Len(Flight)
           /\ \A i \in 1..Len(Flight) : i \in 1..n \/ (i > n /\ Flight'[i] = Flight[i])
           /\ InFlight' = InFlight
  <1> DEFINE n == Len(recvQueue)
             p == Head(recvQueue)
             q == Tail(recvQueue)
  <1>1. /\ recvQueue \in Seq(Packets) /\ incoming \in Packets /\ n \in Nat /\ n > 0 /\ p = recvQueue[1]
        /\ p \in Packets /\ q \in Seq(Packets) /\ Len(q) = n - 1 /\ \A i \in 1..(n - 1) : q[i] = recvQueue[i + 1]
    BY FlightFacts, SeqFacts DEF SessionTypeOK
  <1>2. /\ \A i \in 1..(n - 1) : i + 1 \in 1..n
        /\ \A i \in 1..n : i = 1 \/ (i - 1 \in 1..(n - 1) /\ (i - 1) + 1 = i)
        /\ \A i \in 1..n : i = n \/ i \in 1..(n - 1)
        /\ \A i \in 1..(n - 1) : i \in 1..n
        /\ 1 \in 1..n /\ n \in 1..n /\ (n - 1) + 1 = n
    <2>1. n \in Nat /\ n > 0
      BY <1>1
    <2> HIDE DEF n
    <2> QED BY <2>1
  <1>3. /\ recvQueue' \in Seq(Packets) /\ Len(recvQueue') = n
        /\ \A i \in 1..(n - 1) : recvQueue'[i] = recvQueue[i + 1]
        /\ recvQueue'[n] = recvQueue[1]
    <2>1. /\ Append(q, p) \in Seq(Packets) /\ Len(Append(q, p)) = Len(q) + 1
          /\ Append(q, p)[Len(q) + 1] = p
          /\ \A i \in 1..Len(q) : Append(q, p)[i] = q[i]
      BY <1>1, SeqFacts
    <2> QED BY <1>1, <1>2, <2>1
  <1> HIDE DEF n, p, q
  <1>4. /\ Len(Flight') = Len(Flight) /\ \A i \in 1..n : Flight'[i] = recvQueue'[i]
        /\ \A i \in 1..Len(Flight) : i \in 1..n \/ (i > n /\ Flight'[i] = Flight[i])
        /\ \A i \in 1..n : Flight[i] = recvQueue[i] /\ i \in 1..Len(Flight)
    <2>1. Flight' = IF net = "incoming" THEN Append(recvQueue', incoming) ELSE recvQueue'
      BY DEF Flight
    <2>2. \A i \in 1..n : Flight[i] = recvQueue[i] /\ i \in 1..Len(Flight)
      BY FlightFacts DEF n
    <2>3. CASE net # "incoming"
      BY <1>3, <2>1, <2>2, <2>3, FlightFacts DEF n
    <2>4. CASE net = "incoming"
      <3>1. /\ Len(Flight') = n + 1 /\ Flight'[n + 1] = incoming
            /\ \A i \in 1..n : Flight'[i] = recvQueue'[i]
        <4>1. Len(Append(recvQueue', incoming)) = Len(recvQueue') + 1
              /\ Append(recvQueue', incoming)[Len(recvQueue') + 1] = incoming
              /\ \A i \in 1..Len(recvQueue') : Append(recvQueue', incoming)[i] = recvQueue'[i]
          BY <1>1, <1>3, SeqFacts
        <4> QED BY <1>3, <2>1, <2>4, <4>1
      <3>2. Len(Flight) = n + 1 /\ Flight[n + 1] = incoming
        BY <2>4, FlightFacts DEF n
      <3>3. \A i \in 1..(n + 1) : i \in 1..n \/ (i = n + 1 /\ i > n)
        BY <1>1
      <3> QED BY <2>2, <3>1, <3>2, <3>3
    <2> QED BY <2>3, <2>4
  <1>5. InFlight' = {Flight'[i] : i \in 1..Len(Flight)}
    BY <1>4 DEF InFlight
  <1>6. ASSUME NEW i \in 1..Len(Flight) PROVE Flight'[i] \in InFlight
    <2>1. CASE i \in 1..(n - 1)
      BY <1>2, <1>3, <1>4, <2>1 DEF InFlight
    <2>2. CASE i = n
      BY <1>2, <1>3, <1>4, <2>2 DEF InFlight
    <2>3. CASE i \notin 1..n
      BY <1>4, <2>3 DEF InFlight
    <2> QED BY <1>2, <2>1, <2>2, <2>3
  <1>7. ASSUME NEW i \in 1..Len(Flight) PROVE Flight[i] \in InFlight'
    <2>1. CASE i \in 1..n /\ i # 1
      <3>1. i - 1 \in 1..(n - 1) /\ i - 1 \in 1..n /\ Flight'[i - 1] = recvQueue'[i - 1]
            /\ recvQueue'[i - 1] = recvQueue[i]
        BY <1>2, <1>3, <1>4, <2>1
      <3> QED BY <1>4, <1>5, <2>1, <3>1, ZenonT(60)
    <2>2. CASE i = 1
      BY <1>2, <1>3, <1>4, <1>5, <2>2
    <2>3. CASE i \notin 1..n
      BY <1>4, <1>5, <2>3
    <2> QED BY <2>1, <2>2, <2>3
  <1>8. InFlight' = InFlight
    BY <1>5, <1>6, <1>7 DEF InFlight
  <1> QED BY <1>1, <1>2, <1>3, <1>4, <1>8 DEF n

-----------------------------------------------------------------------------
(* Steps of the network thread, the client and the database *)

LEMMA SameFlight ==
    ASSUME UNCHANGED <<net, incoming, recvQueue>>
    PROVE  Flight' = Flight /\ InFlight' = InFlight /\ (Asked' <=> Asked)
  BY DEF Flight, InFlight, Asked

LEMMA SameFlow ==
    ASSUME SessionInv, Flight' = Flight,
           UNCHANGED <<recvQueue, logins, recentlyLogout, logouts, player, loading, character,
                       logoutTimer, handled, handledGame, passed, firstDelayed>>,
           client' = "game" <=> client = "game",
           net' = "incoming" <=> net = "incoming", incoming' = incoming, closing' \/ ~closing,
           loginQuery' # "none" => loginQuery # "none",
           firstDelayed # 0 => updater' = updater
    PROVE  FlowOK'
  <1>1. InFlight' = InFlight /\ (Asked' <=> Asked)
    BY DEF InFlight, Asked
  <1>2. \A p : Left(p, client', logins') <=> Left(p, client, logins)
    BY DEF Left
  <1> SUFFICES ASSUME ~closing PROVE FlightOrder' /\ OldMeansRecent' /\ LoginOK' /\ OrderOK' /\ DelayOK'
    BY DEF FlowOK
  <1>3. FlightOrder /\ OldMeansRecent /\ LoginOK /\ OrderOK /\ DelayOK
    BY DEF SessionInv, FlowOK
  <1>4. FlightOrder'
    BY <1>2, <1>3 DEF FlightOrder, Old
  <1>5. OldMeansRecent'
    BY <1>1, <1>2, <1>3 DEF OldMeansRecent, Old
  <1>6. LoginOK'
    BY <1>1, <1>2, <1>3 DEF LoginOK, Old
  <1>7. OrderOK' /\ DelayOK'
    BY <1>1, <1>3 DEF OrderOK, DelayOK, InTurn
  <1> QED BY <1>4, <1>5, <1>6, <1>7

LEMMA SessionKept ==
    ASSUME SessionInv, UNCHANGED sessionVars, WorldOK'
    PROVE  SessionInv'
  <1>1. UNCHANGED <<closing, m_Session, net, incoming, alive, recvQueue, player, character, loading,
                    loginQuery, recentlyLogout, enumAllowed, logoutTimer, updater, firstDelayed,
                    client, logins, logouts, received, call, handled, handledGame, passed, queued>>
    BY DEF sessionVars, socketVars, playerVars, updateVars, clientVars, traceVars
  <1>2. Flight' = Flight /\ InFlight' = InFlight
    BY <1>1, SameFlight
  <1>3. SessionTypeOK'
    BY <1>1 DEF SessionInv, SessionTypeOK
  <1>4. PacketsOK' /\ SocketOK'
    BY <1>1, <1>2 DEF SessionInv, PacketsOK, SocketOK
  <1>5. CallOK'
    BY <1>1 DEF SessionInv, CallOK, OwnCharacter, HandlersInTheirThread
  <1>6. FlowOK'
    <2>1. closing' \/ ~closing
      BY <1>1
    <2> QED BY <1>1, <1>2, <2>1, SameFlow
  <1> QED BY <1>3, <1>4, <1>5, <1>6 DEF SessionInv

(* The socket is closed: by the peer, by the world thread, or at the end. *)
LEMMA ClosingKeeps ==
    ASSUME SessionInv, closing' = TRUE, m_Session' \in BOOLEAN, net' \in NetStates,
           UNCHANGED <<alive, queued, recvQueue, playerVars, updateVars, clientVars, traceVars>>,
           incoming' \in Packets, net' = "incoming" => net = "incoming" /\ incoming' = incoming,
           net' # "closing" => ~m_Session', WorldOK'
    PROVE  SessionInv'
  <1>1. UNCHANGED <<alive, recvQueue, player, character, loading,
                    loginQuery, recentlyLogout, enumAllowed, logoutTimer, updater, firstDelayed,
                    client, logins, logouts, received, call, handled, handledGame, passed, queued>>
    BY DEF playerVars, updateVars, clientVars, traceVars
  <1>2. InFlight' \subseteq InFlight
    <2>1. CASE net' = "incoming"
      <3>1. InFlight' = InFlight
        BY <1>1, <2>1, SameFlight
      <3> QED BY <3>1
    <2>2. CASE net' # "incoming"
      <3>1. Flight' = recvQueue
        BY <1>1, <2>2 DEF Flight
      <3>2. InFlight' = {recvQueue[i] : i \in 1..Len(recvQueue)}
        BY <3>1 DEF InFlight
      <3> QED BY <3>2, FlightFacts DEF SessionInv
    <2> QED BY <2>1, <2>2
  <1>3. SessionTypeOK'
    <2>1. closing' \in BOOLEAN
      OBVIOUS
    <2> QED BY <1>1, <2>1 DEF SessionInv, SessionTypeOK
  <1>4. PacketsOK' /\ SocketOK'
    BY <1>1, <1>2 DEF SessionInv, PacketsOK, SocketOK
  <1>5. CallOK'
    BY <1>1 DEF SessionInv, CallOK, OwnCharacter, HandlersInTheirThread
  <1> QED BY <1>3, <1>4, <1>5 DEF SessionInv, FlowOK

LEMMA NoPacketType == NoPacket \in Packets
  BY OpcodeFacts DEF NoPacket, Packets

LEMMA NetworkClosingKeeps ==
    ASSUME SessionInv, HandleClose \/ RefusePacket \/ HandleCloseSession, UNCHANGED <<world, master, kicked>>
    PROVE  SessionInv'
  <1>1. /\ UNCHANGED <<alive, queued, recvQueue, playerVars, updateVars, clientVars, traceVars>>
        /\ closing' = TRUE /\ m_Session' \in BOOLEAN /\ net' \in NetStates /\ incoming' \in Packets
        /\ net' # "incoming" /\ (net' # "closing" => ~m_Session')
    <2>1. m_Session \in BOOLEAN /\ closing \in BOOLEAN /\ incoming \in Packets /\ SocketOK
      BY DEF SessionInv, SessionTypeOK
    <2>2. CASE HandleClose
      BY <2>1, <2>2 DEF HandleClose, NetStates
    <2>3. CASE RefusePacket
      BY <2>1, <2>3, NoPacketType DEF RefusePacket, NetStates, traceVars
    <2>4. CASE HandleCloseSession
      <3>1. closing' = TRUE
        BY <2>1, <2>4 DEF HandleCloseSession, SocketOK
      <3>2. m_Session' = FALSE /\ net' = "gone"
        BY <2>4 DEF HandleCloseSession
      <3> QED BY <2>1, <2>4, <3>1, <3>2 DEF HandleCloseSession, NetStates
    <2> QED BY <2>2, <2>3, <2>4
  <1>2. WorldOK'
    BY <1>1 DEF SessionInv, WorldOK, updateVars, playerVars, clientVars
  <1> QED BY <1>1, <1>2, ClosingKeeps

LEMMA ReceiveKeeps ==
    ASSUME SessionInv, NEW opcode \in DOMAIN Opcodes, ReceivePacket(opcode), UNCHANGED <<world, master, kicked>>
    PROVE  SessionInv'
  <1> DEFINE p == [id |-> received + 1, opcode |-> opcode, login |-> logins']
  <1>1. /\ UNCHANGED <<closing, m_Session, alive, recvQueue, player, character, loading,
                    loginQuery, recentlyLogout, enumAllowed, logoutTimer, updater, firstDelayed,
                    logouts, call, handled, handledGame, passed, queued>>
        /\ net = "idle" /\ net' = "incoming" /\ ~closing /\ received' = received + 1
        /\ incoming' = p /\ alive /\ ~queued
    BY DEF ReceivePacket, MaySend, playerVars, updateVars, traceVars
  <1>2. /\ opcode = "PLAYER_LOGIN" => logins' = logins + 1 /\ client' = "game" /\ client = "characters"
        /\ opcode # "PLAYER_LOGIN" => logins' = logins /\ client' = client
        /\ opcode = "CHAR_ENUM" => client # "game"
        /\ opcode \in {"MESSAGECHAT", "LOGOUT_REQUEST", "MOVE", "TIME_SYNC", "WORLDPORT_ACK"}
              => client = "game"
    BY OpcodeFacts DEF ReceivePacket, MaySend
  <1>3. /\ SessionTypeOK /\ logins \in Nat /\ received \in Nat /\ logins' \in Nat /\ logins' >= logins
        /\ client \in Screens
    <2>1. SessionTypeOK /\ logins \in Nat /\ received \in Nat /\ client \in Screens
      BY DEF SessionInv, SessionTypeOK
    <2> QED BY <1>2, <2>1
  <1>4. p \in Packets /\ p.id = received + 1 /\ p.login = logins' /\ p.opcode = opcode
    BY <1>3 DEF Packets
  <1> HIDE DEF p
  <1>5. /\ Len(Flight') = Len(Flight) + 1 /\ Flight'[Len(Flight) + 1] = p
        /\ \A i \in 1..Len(Flight) : Flight'[i] = Flight[i]
        /\ InFlight' = InFlight \cup {p} /\ Len(Flight) \in Nat
    BY <1>1, <1>3, <1>4, Arrived, FlightFacts
  <1>6. /\ FlightOrder /\ OldMeansRecent /\ LoginOK /\ OrderOK /\ DelayOK /\ PacketsOK /\ SocketOK /\ CallOK
    BY <1>1 DEF SessionInv, FlowOK
  <1>7. SessionTypeOK'
    <2>1. /\ net' \in NetStates /\ incoming' \in Packets /\ client' \in Screens /\ received' \in Nat
      BY <1>1, <1>2, <1>3, <1>4 DEF NetStates, Screens
    <2>2. character' \in 0..logins' /\ firstDelayed' \in 0..received' /\ handled' \subseteq 1..received'
          /\ passed' \subseteq 1..received'
      <3>1. character \in 0..logins /\ firstDelayed \in 0..received /\ handled \subseteq 1..received
            /\ passed \subseteq 1..received
        BY <1>3 DEF SessionTypeOK
      <3>2. \A i \in 1..received : i \in 1..(received + 1)
        BY <1>3
      <3> QED BY <1>1, <1>3, <3>1, <3>2
    <2> QED BY <1>1, <1>3, <2>1, <2>2 DEF SessionTypeOK
  <1>8. PacketsOK'
    <2>1. \A q \in InFlight : q.id \in 1..(received + 1) /\ q.login <= logins'
      <3>1. \A q \in InFlight : q.id \in 1..received /\ q.login <= logins /\ q.login \in Nat
        BY <1>3, <1>6, FlightFacts DEF PacketsOK, Packets
      <3> QED BY <1>3, <3>1
    <2>2. p.id \in 1..(received + 1) /\ p.login <= logins'
      BY <1>3, <1>4
    <2>3. call'.id <= received'
      <3>1. call.id \in Nat /\ call.id <= received
        BY <1>3, <1>6 DEF PacketsOK, SessionTypeOK, Calls
      <3> QED BY <1>1, <1>3, <3>1
    <2> QED BY <1>1, <1>5, <2>1, <2>2, <2>3 DEF PacketsOK
  <1>9. SocketOK' /\ CallOK' /\ WorldOK'
    <2>1. client' = "connecting" => client = "connecting"
      BY <1>2
    <2>2. world = "lastSession" /\ client = "connecting" => client' = "connecting"
      BY <1>2
    <2>3. updater # "none" /\ client = "connecting" => client' = "connecting"
      BY <1>2
    <2> QED BY <1>1, <1>6, <2>1, <2>2, <2>3
            DEF SessionInv, SocketOK, CallOK, OwnCharacter, HandlersInTheirThread, WorldOK
  <1>10. \A q \in InFlight : Left(q, client', logins') <=> Left(q, client, logins)
    <2> SUFFICES ASSUME NEW q \in InFlight PROVE Left(q, client', logins') <=> Left(q, client, logins)
      OBVIOUS
    <2>1. q.login <= logins /\ q.login \in Nat
      BY <1>3, <1>6, FlightFacts DEF PacketsOK, Packets
    <2>3. opcode = "PLAYER_LOGIN" => q.login < logins'
      BY <1>2, <1>3, <2>1
    <2> QED BY <1>2, <2>3 DEF Left, Screens
  <1>11. /\ List(p) <=> opcode \in {"CHAR_ENUM", "PLAYER_LOGIN"}
         /\ Game(p) => opcode \in {"MESSAGECHAT", "LOGOUT_REQUEST", "MOVE", "TIME_SYNC", "WORLDPORT_ACK"}
    BY <1>4, StatusFacts DEF List, Game
  <1>12. ~Left(p, client', logins')
    BY <1>2, <1>3, <1>4, <1>11 DEF Left
  <1>13. List(p) =>
            \A q \in InFlight : q.opcode # "PLAYER_LOGIN" /\ (Game(q) => Old(q))
    <2>1. List(p) => client # "game"
      BY <1>2, <1>11
    <2> QED BY <1>6, <2>1 DEF LoginOK, Asked, Old, Left
  <1>14. FlightOrder'
    <2> SUFFICES ASSUME NEW i \in 1..(Len(Flight) + 1), NEW j \in 1..(Len(Flight) + 1), i < j
                 PROVE  /\ List(Flight'[i]) => ~Left(Flight'[j], client', logins')
                        /\ Flight'[i].opcode = "PLAYER_LOGIN" => ~List(Flight'[j])
                        /\ Game(Flight'[i]) /\ ~Left(Flight'[i], client', logins')
                              => ~List(Flight'[j])
      BY <1>5 DEF FlightOrder, Old
    <2>1. i \in 1..Len(Flight) /\ (j \in 1..Len(Flight) \/ j = Len(Flight) + 1)
      BY <1>5
    <2>2. Flight'[i] = Flight[i] /\ Flight[i] \in InFlight
      BY <1>5, <2>1 DEF InFlight
    <2>3. CASE j \in 1..Len(Flight)
      <3>1. Flight'[j] = Flight[j] /\ Flight[j] \in InFlight
        BY <1>5, <2>3 DEF InFlight
      <3> QED BY <1>6, <1>10, <2>1, <2>2, <2>3, <3>1 DEF FlightOrder, Old
    <2>4. CASE j = Len(Flight) + 1
      <3>1. Flight'[j] = p
        BY <1>5, <2>4
      <3> QED BY <1>10, <1>12, <1>13, <2>2, <3>1 DEF Old
    <2> QED BY <2>1, <2>3, <2>4
  <1>15. OldMeansRecent'
    BY <1>1, <1>5, <1>6, <1>10, <1>12 DEF OldMeansRecent, Old
  <1>16. LoginOK'
    <2>1. CASE opcode = "PLAYER_LOGIN"
      <3>1. \A q \in InFlight : q.opcode # "PLAYER_LOGIN"
        BY <1>11, <1>13, <2>1
      <3>2. /\ client = "characters" /\ client' = "game" /\ logouts = 0 /\ player = "none" /\ ~loading
        BY <1>2, <1>6, <2>1 DEF LoginOK
      <3>3. Asked' /\ \A q \in InFlight' : q.opcode = "PLAYER_LOGIN" => q.login = logins'
        BY <1>4, <1>5, <2>1, <3>1 DEF Asked
      <3> QED BY <1>1, <1>6, <3>2, <3>3 DEF LoginOK
    <2>2. CASE opcode # "PLAYER_LOGIN"
      <3>1. logins' = logins /\ client' = client
        BY <1>2, <2>2
      <3>2. Asked' <=> Asked
        BY <1>4, <1>5, <2>2 DEF Asked
      <3>3. client = "game" => ~List(p)
        BY <1>2, <1>11
      <3>4. \A q \in InFlight' : q.opcode = "PLAYER_LOGIN" => q.login = logins'
        BY <1>4, <1>5, <1>6, <2>2, <3>1 DEF LoginOK
      <3>5. client' = "game" /\ ~Asked' =>
               \A q \in InFlight' : ~List(q) /\ ~Left(q, client', logins')
        BY <1>5, <1>6, <1>10, <1>12, <3>1, <3>2, <3>3 DEF LoginOK, Old
      <3> QED BY <1>1, <1>6, <3>1, <3>2, <3>4, <3>5 DEF LoginOK, Old
    <2> QED BY <2>1, <2>2
  <1>17. OrderOK'
    <2>1. InTurn(p) /\ \A i \in 1..Len(recvQueue) : recvQueue[i].id < p.id
      <3>1. handled \subseteq 1..received /\ handledGame \subseteq handled
        BY <1>3 DEF SessionTypeOK
      <3>2. \A i \in 1..Len(recvQueue) : recvQueue[i].id \in 1..received
        BY <1>3, <1>6, FlightFacts DEF PacketsOK
      <3>3. \A i \in 1..received : i < p.id
        BY <1>3, <1>4
      <3> QED BY <3>1, <3>2, <3>3 DEF InTurn
    <2>2. \A q \in InFlight' : InTurn(q)
      BY <1>5, <1>6, <2>1 DEF OrderOK
    <2>3. \A q \in InFlight' : InTurn(q)'
      BY <1>1, <2>2 DEF InTurn
    <2> QED BY <1>1, <1>6, <2>1, <2>3 DEF OrderOK
  <1>18. DelayOK'
    <2> SUFFICES ASSUME firstDelayed # 0 PROVE DelayOK'
      BY <1>1 DEF DelayOK
    <2>1. /\ client = "game" /\ ~Asked /\ updater = "world" /\ player = "none" /\ ~recentlyLogout
      BY <1>6 DEF DelayOK
    <2>2. opcode # "PLAYER_LOGIN" /\ client' = "game"
      BY <1>2, <2>1
    <2>3. ~Asked'
      BY <1>4, <1>5, <2>1, <2>2 DEF Asked
    <2> QED BY <1>1, <2>1, <2>2, <2>3 DEF DelayOK
  <1> QED BY <1>7, <1>8, <1>9, <1>14, <1>15, <1>16, <1>17, <1>18 DEF SessionInv, FlowOK

(* A packet that arrives while others are put back gets in front of those   *)
(* that are still to be put back, and behind the rest.                      *)
LEMMA QueueInOrder ==
    ASSUME SessionTypeOK, OrderOK, net = "incoming", net' = "idle", InFlight' = InFlight,
           UNCHANGED <<firstDelayed, handled, handledGame>>,
           recvQueue' = Append(recvQueue, incoming), passed' = passed \cup StillToPutBack
    PROVE  OrderOK'
  <1> DEFINE n == Len(recvQueue)
  <1>1. recvQueue \in Seq(Packets) /\ incoming \in Packets /\ n \in Nat
    BY FlightFacts DEF SessionTypeOK
  <1>2. /\ Len(recvQueue') = n + 1 /\ recvQueue'[n + 1] = incoming
        /\ \A i \in 1..n : recvQueue'[i] = recvQueue[i]
    BY <1>1, SeqFacts
  <1>3. \A i \in 1..n : recvQueue[i].id < incoming.id /\ recvQueue[i].id \in Nat
    BY <1>1, SeqFacts DEF OrderOK, Packets
  <1>4. incoming.id \in Nat
    BY <1>1 DEF Packets
  <1>5. \A p, r : Follows(p, r, passed) => Follows(p, r, passed')
    BY DEF Follows
  <1>6. \A p : InTurn(p) => InTurn(p)'
    BY DEF InTurn
  <1>7. \A i \in 1..n : Follows(incoming, recvQueue[i], passed')
    BY <1>3 DEF Follows
  <1>8. \A j \in 1..(n + 1) : j \in 1..n \/ j = n + 1
    BY <1>1
  <1>9. \A i, j \in 1..(n + 1) : i < j => i \in 1..n
    BY <1>1
  <1>10. /\ firstDelayed = 0 => Sorted(recvQueue, passed)
         /\ firstDelayed # 0 => \E k \in 1..n :
               recvQueue[k].id = firstDelayed /\ Rotated(recvQueue, k, passed)
         /\ \A i, j \in 1..n : recvQueue[i].id = recvQueue[j].id => i = j
    BY DEF OrderOK, Distinct
  <1>11. \A i \in 1..n : /\ firstDelayed # 0 /\ Status(recvQueue[i]) = "LOGGEDIN"
                         /\ \A j \in 1..i : recvQueue[j].id # firstDelayed
                         => recvQueue[i].id \in passed'
    BY DEF StillToPutBack
  <1> HIDE DEF n
  <1>12. Distinct(recvQueue')
    <2> SUFFICES ASSUME NEW i \in 1..(n + 1), NEW j \in 1..(n + 1), recvQueue'[i].id = recvQueue'[j].id
                 PROVE  i = j
      BY <1>2 DEF Distinct
    <2>1. CASE i \in 1..n /\ j \in 1..n
      BY <1>2, <1>10, <2>1
    <2>2. CASE i = n + 1 /\ j \in 1..n
      BY <1>2, <1>3, <1>4, <2>2
    <2>3. CASE i \in 1..n /\ j = n + 1
      BY <1>2, <1>3, <1>4, <2>3
    <2> QED BY <1>8, <2>1, <2>2, <2>3
  <1>13. firstDelayed = 0 => Sorted(recvQueue', passed')
    <2> SUFFICES ASSUME firstDelayed = 0, NEW i \in 1..(n + 1), NEW j \in 1..(n + 1), i < j
                 PROVE  Follows(recvQueue'[j], recvQueue'[i], passed')
      BY <1>2 DEF Sorted
    <2>1. i \in 1..n /\ recvQueue'[i] = recvQueue[i]
      BY <1>2, <1>9
    <2>2. CASE j \in 1..n
      <3>1. Follows(recvQueue[j], recvQueue[i], passed)
        BY <1>10, <2>1, <2>2 DEF Sorted, n
      <3> QED BY <1>2, <1>5, <2>1, <2>2, <3>1
    <2>3. CASE j = n + 1
      BY <1>2, <1>7, <2>1, <2>3
    <2> QED BY <1>8, <2>2, <2>3
  <1>14. ASSUME firstDelayed # 0
         PROVE  \E k \in 1..(n + 1) : recvQueue'[k].id = firstDelayed /\ Rotated(recvQueue', k, passed')
    <2>1. PICK k \in 1..n : recvQueue[k].id = firstDelayed /\ Rotated(recvQueue, k, passed)
      BY <1>10, <1>14
    <2>2. k \in 1..(n + 1) /\ recvQueue'[k].id = firstDelayed
      BY <1>1, <1>2, <2>1
    <2>3. ASSUME NEW i \in 1..(n + 1), NEW j \in 1..(n + 1), i < j
          PROVE  Turned(recvQueue', k, i, j, passed')
      <3>1. i \in 1..n /\ recvQueue'[i] = recvQueue[i]
        BY <1>2, <1>9, <2>3
      <3>2. CASE j \in 1..n
        <4>1. Turned(recvQueue, k, i, j, passed)
          BY <2>1, <2>3, <3>1, <3>2 DEF Rotated, n
        <4> QED BY <1>2, <1>5, <3>1, <3>2, <4>1 DEF Turned
      <3>3. CASE j = n + 1
        <4>1. Follows(recvQueue'[j], recvQueue'[i], passed')
          BY <1>2, <1>7, <3>1, <3>3
        <4>2. i < k /\ Status(recvQueue[i]) = "LOGGEDIN" => recvQueue[i].id \in passed'
          <5>1. i < k => \A l \in 1..i : l \in 1..n /\ l # k
            BY <1>1, <2>1, <3>1
          <5>2. i < k => \A l \in 1..i : recvQueue[l].id # firstDelayed
            BY <1>10, <2>1, <5>1
          <5> QED BY <1>11, <1>14, <3>1, <5>2
        <4>3. i < k /\ Status(recvQueue'[i]) = "LOGGEDIN" => Follows(recvQueue'[i], recvQueue'[j], passed')
          BY <3>1, <4>2 DEF Follows
        <4> QED BY <4>1, <4>3 DEF Turned
      <3> QED BY <1>8, <3>2, <3>3
    <2>4. Rotated(recvQueue', k, passed')
      BY <1>2, <2>3 DEF Rotated
    <2> QED BY <2>2, <2>4
  <1> QED BY <1>2, <1>6, <1>12, <1>13, <1>14 DEF OrderOK

LEMMA QueueKeeps ==
    ASSUME SessionInv, QueuePacket, UNCHANGED <<world, master, kicked>>
    PROVE  SessionInv'
  <1>1. /\ UNCHANGED <<closing, m_Session, alive, player, character, loading,
                    loginQuery, recentlyLogout, enumAllowed, logoutTimer, updater, firstDelayed,
                    client, logins, logouts, received, call, handled, handledGame, queued>>
        /\ net = "incoming" /\ m_Session /\ net' = "idle" /\ incoming' = NoPacket
        /\ recvQueue' = Append(recvQueue, incoming) /\ passed' = passed \cup StillToPutBack
    BY DEF QueuePacket, playerVars, updateVars, clientVars
  <1>2. SessionTypeOK /\ recvQueue \in Seq(Packets) /\ incoming \in Packets /\ Len(recvQueue) \in Nat
    BY FlightFacts DEF SessionInv, SessionTypeOK
  <1>3. ~closing /\ alive
    BY <1>1 DEF SessionInv, SocketOK
  <1>4. /\ FlightOrder /\ OldMeansRecent /\ LoginOK /\ OrderOK /\ DelayOK /\ PacketsOK /\ SocketOK /\ CallOK
    BY <1>3 DEF SessionInv, FlowOK
  <1>5. Flight' = Flight /\ InFlight' = InFlight /\ (Asked' <=> Asked)
    BY <1>1 DEF Flight, InFlight, Asked
  <1>6. SessionTypeOK'
    <2>1. net' \in NetStates /\ incoming' \in Packets /\ recvQueue' \in Seq(Packets)
      BY <1>1, <1>2, NoPacketType, SeqFacts DEF NetStates
    <2>2. StillToPutBack \subseteq 1..received
      <3>1. \A i \in 1..Len(recvQueue) : recvQueue[i].id \in 1..received
        BY <1>2, <1>4, FlightFacts DEF PacketsOK
      <3> QED BY <3>1 DEF StillToPutBack
    <2>3. passed' \subseteq 1..received'
      BY <1>1, <1>2, <2>2 DEF SessionTypeOK
    <2> QED BY <1>1, <1>2, <2>1, <2>3 DEF SessionTypeOK
  <1>7. PacketsOK' /\ SocketOK' /\ CallOK' /\ WorldOK'
    BY <1>1, <1>3, <1>4, <1>5 DEF SessionInv, PacketsOK, SocketOK, CallOK, OwnCharacter,
                                  HandlersInTheirThread, WorldOK
  <1>8. FlightOrder' /\ OldMeansRecent' /\ DelayOK'
    BY <1>1, <1>4, <1>5 DEF FlightOrder, OldMeansRecent, DelayOK, Old
  <1>9. LoginOK'
    BY <1>1, <1>4, <1>5 DEF LoginOK, Old
  <1>10. OrderOK'
    BY <1>1, <1>2, <1>4, <1>5, QueueInOrder
  <1> QED BY <1>6, <1>7, <1>8, <1>9, <1>10 DEF SessionInv, FlowOK

(* The client is back at its character list. *)
LEMMA SeesLogoutKeeps ==
    ASSUME SessionInv, ClientSeesLogout, UNCHANGED <<world, master, kicked>>
    PROVE  SessionInv'
  <1>1. /\ UNCHANGED <<closing, m_Session, net, incoming, alive, recvQueue, player, character, loading,
                    loginQuery, recentlyLogout, enumAllowed, logoutTimer, updater, firstDelayed,
                    logins, received, call, handled, handledGame, passed, queued>>
        /\ logouts > 0 /\ logouts' = logouts - 1 /\ client' = "characters"
    BY DEF ClientSeesLogout, socketVars, playerVars, updateVars, traceVars
  <1>2. Flight' = Flight /\ InFlight' = InFlight /\ (Asked' <=> Asked)
    BY <1>1, SameFlight
  <1>3. SessionTypeOK'
    <2>1. logouts' \in Nat /\ client' \in Screens
      BY <1>1 DEF SessionInv, SessionTypeOK, Screens
    <2> QED BY <1>1, <2>1 DEF SessionInv, SessionTypeOK
  <1>4. PacketsOK' /\ SocketOK' /\ CallOK' /\ WorldOK'
    <2>1. client # "connecting"
      BY <1>1 DEF SessionInv, SessionTypeOK, WorldOK
    <2> QED BY <1>1, <1>2, <2>1 DEF SessionInv, PacketsOK, SocketOK, CallOK, OwnCharacter,
                                    HandlersInTheirThread, WorldOK
  <1>5. FlowOK'
    <2> SUFFICES ASSUME ~closing PROVE FlightOrder' /\ OldMeansRecent' /\ LoginOK' /\ OrderOK' /\ DelayOK'
      BY <1>1 DEF FlowOK
    <2>1. FlightOrder /\ OldMeansRecent /\ LoginOK /\ OrderOK /\ DelayOK
      BY DEF SessionInv, FlowOK
    <2>2. logouts # 0 /\ client \in Screens
      BY <1>1 DEF SessionInv, SessionTypeOK
    <2>3. client = "game" /\ recentlyLogout /\ logouts = 1 /\ ~Asked /\ player = "none" /\ ~loading
      BY <2>1, <2>2 DEF LoginOK, Screens
    <2>4. \A p \in InFlight : ~List(p) /\ p.opcode # "PLAYER_LOGIN"
      BY <2>1, <2>3 DEF LoginOK, Asked
    <2>5. \A i \in 1..Len(Flight) : ~List(Flight[i]) /\ Flight[i].opcode # "PLAYER_LOGIN"
      BY <2>4 DEF InFlight
    <2>6. FlightOrder'
      BY <1>2, <2>5 DEF FlightOrder
    <2>7. OldMeansRecent' /\ DelayOK'
      BY <1>1, <2>1, <2>3 DEF OldMeansRecent, DelayOK
    <2>8. OrderOK'
      BY <1>1, <1>2, <2>1 DEF OrderOK, InTurn
    <2>9. logouts' = 0
      BY <1>1, <2>3
    <2>10. LoginOK'
      BY <1>1, <1>2, <2>1, <2>3, <2>4, <2>9 DEF LoginOK
    <2> QED BY <2>6, <2>7, <2>8, <2>10
  <1> QED BY <1>3, <1>4, <1>5 DEF SessionInv

(* The client has been let in, and shows its character list. *)
LEMMA SeesCharactersKeeps ==
    ASSUME SessionInv, ClientSeesCharacters, UNCHANGED <<world, master, kicked>>
    PROVE  SessionInv'
  <1>1. /\ UNCHANGED <<closing, m_Session, net, incoming, alive, recvQueue, player, character, loading,
                    loginQuery, recentlyLogout, enumAllowed, logoutTimer, updater, firstDelayed,
                    logins, logouts, received, call, handled, handledGame, passed, queued>>
        /\ client = "connecting" /\ alive /\ ~queued /\ updater = "none" /\ client' = "characters"
    BY DEF ClientSeesCharacters, socketVars, playerVars, updateVars, traceVars
  <1>2. Flight' = Flight /\ InFlight' = InFlight
    BY <1>1, SameFlight
  <1>3. SessionTypeOK'
    <2>1. client' \in Screens
      BY <1>1 DEF Screens
    <2> QED BY <1>1, <2>1 DEF SessionInv, SessionTypeOK
  <1>4. PacketsOK' /\ SocketOK' /\ CallOK' /\ WorldOK'
    BY <1>1, <1>2 DEF SessionInv, PacketsOK, SocketOK, CallOK, OwnCharacter,
                      HandlersInTheirThread, WorldOK
  <1>5. FlowOK'
    <2>1. (closing' \/ ~closing) /\ (client' = "game" <=> client = "game")
      BY <1>1
    <2> QED BY <1>1, <1>2, <2>1, SameFlow
  <1> QED BY <1>3, <1>4, <1>5 DEF SessionInv

(* A session of a client that has none yet, for the next UpdateSessions *)
LEMMA AuthSessionKeeps ==
    ASSUME SessionInv, HandleAuthSession, UNCHANGED <<world, master, kicked>>
    PROVE  SessionInv'
  <1>1. /\ UNCHANGED <<closing, net, incoming, recvQueue, player, character, loading,
                    loginQuery, recentlyLogout, enumAllowed, logoutTimer, updater, firstDelayed,
                    client, logins, logouts, received, call, handled, handledGame, passed>>
        /\ net = "idle" /\ ~closing /\ ~m_Session
        /\ m_Session' = TRUE /\ alive' = TRUE /\ queued' = TRUE
    BY DEF HandleAuthSession, playerVars, updateVars, clientVars, traceVars
  <1>2. Flight' = Flight /\ InFlight' = InFlight
    BY <1>1, SameFlight
  <1>3. ~alive /\ client = "connecting" /\ updater = "none" /\ player = "none" /\ ~kicked
    BY <1>1 DEF SessionInv, SocketOK, WorldOK
  <1>4. SessionTypeOK'
    <2>1. m_Session' \in BOOLEAN /\ alive' \in BOOLEAN /\ queued' \in BOOLEAN
      BY <1>1
    <2> QED BY <1>1, <2>1 DEF SessionInv, SessionTypeOK
  <1>5. PacketsOK' /\ SocketOK' /\ CallOK' /\ WorldOK'
    BY <1>1, <1>2, <1>3 DEF SessionInv, PacketsOK, SocketOK, CallOK, OwnCharacter,
                            HandlersInTheirThread, WorldOK
  <1>6. FlowOK'
    <2>1. (closing' \/ ~closing) /\ (client' = "game" <=> client = "game")
      BY <1>1
    <2> QED BY <1>1, <1>2, <2>1, SameFlow
  <1> QED BY <1>4, <1>5, <1>6 DEF SessionInv

LEMMA LoginQueryKeeps ==
    ASSUME SessionInv, LoginQueryDone, UNCHANGED <<world, master, kicked>>
    PROVE  SessionInv'
  <1>1. /\ UNCHANGED <<closing, m_Session, net, incoming, alive, recvQueue, player, character, loading,
                    recentlyLogout, enumAllowed, logoutTimer, updater, firstDelayed,
                    client, logins, logouts, received, call, handled, handledGame, passed, queued>>
        /\ loginQuery = "pending" /\ loginQuery' = "ready"
    BY DEF LoginQueryDone, socketVars, updateVars, clientVars, traceVars
  <1>2. Flight' = Flight /\ InFlight' = InFlight
    BY <1>1, SameFlight
  <1>3. SessionTypeOK'
    <2>1. loginQuery' \in Queries
      BY <1>1 DEF Queries
    <2> QED BY <1>1, <2>1 DEF SessionInv, SessionTypeOK
  <1>4. PacketsOK' /\ SocketOK' /\ CallOK' /\ WorldOK'
    BY <1>1, <1>2 DEF SessionInv, PacketsOK, SocketOK, CallOK, OwnCharacter,
                      HandlersInTheirThread, WorldOK
  <1>5. FlowOK'
    <2>1. (closing' \/ ~closing) /\ (loginQuery' # "none" => loginQuery # "none")
      BY <1>1
    <2> QED BY <1>1, <1>2, <2>1, SameFlow
  <1> QED BY <1>3, <1>4, <1>5 DEF SessionInv

-----------------------------------------------------------------------------
(* Steps of the thread that updates the session *)

LEMMA KickAllKeeps ==
    ASSUME SessionInv, KickAll, UNCHANGED master
    PROVE  SessionInv'
  <1>1. /\ UNCHANGED <<net, incoming, alive, queued, recvQueue, playerVars, updateVars, clientVars, traceVars>>
        /\ world = "kick" /\ world' = "last" /\ IF InSessions THEN CloseSocket ELSE KeepSocket
        /\ kicked' = InSessions
    BY DEF KickAll, GoTo
  <1>2. SocketOK /\ closing \in BOOLEAN /\ m_Session \in BOOLEAN /\ alive \in BOOLEAN
        /\ net \in NetStates /\ incoming \in Packets /\ queued \in BOOLEAN
    BY DEF SessionInv, SessionTypeOK
  <1>3. UNCHANGED <<player, updater, client, loginQuery, logouts, alive, queued>>
    BY <1>1 DEF playerVars, updateVars, clientVars
  <1>4. CASE InSessions
    <2>1. closing' = TRUE /\ m_Session' \in BOOLEAN /\ (net' # "closing" => ~m_Session')
      BY <1>1, <1>2, <1>4 DEF CloseSocket, SocketOK
    <2>2. kicked' = TRUE
      BY <1>1, <1>2, <1>4 DEF InSessions
    <2>3. WorldOK'
      BY <1>1, <1>3, <2>1, <2>2 DEF SessionInv, WorldOK, WorldStates
    <2> QED BY <1>1, <1>2, <2>1, <2>3, ClosingKeeps
  <1>5. CASE ~InSessions
    <2>1. UNCHANGED sessionVars
      BY <1>1, <1>5 DEF KeepSocket, sessionVars, socketVars
    <2>2. kicked' = FALSE /\ (alive => queued)
      BY <1>1, <1>2, <1>5 DEF InSessions
    <2>3. world = "kick" /\ world' = "last"
      BY <1>1
    <2>4. kicked' \in BOOLEAN /\ (alive' => queued')
      BY <1>3, <2>2
    <2>5. WorldOK'
      BY <1>3, <2>2, <2>3, <2>4 DEF SessionInv, WorldOK, WorldStates
    <2> QED BY <2>1, <2>5, SessionKept
  <1> QED BY <1>4, <1>5

LEMMA StopNetworkKeeps ==
    ASSUME SessionInv, StopNetwork, UNCHANGED <<master, kicked>>
    PROVE  SessionInv'
  <1>1. /\ UNCHANGED <<closing, m_Session, incoming, alive, queued, recvQueue, player, character, loading,
                    loginQuery, recentlyLogout, enumAllowed, logoutTimer, updater, firstDelayed,
                    client, logins, logouts, received, call, handled, handledGame, passed>>
        /\ world = "network" /\ world' = "ended" /\ net \in {"idle", "gone"} /\ net' = "gone"
    BY DEF StopNetwork, GoTo, playerVars, updateVars, clientVars, traceVars
  <1>2. Flight' = Flight
    BY <1>1 DEF Flight
  <1>3. InFlight' = InFlight
    BY <1>2 DEF InFlight
  <1>4. SessionTypeOK'
    <2>1. net' \in NetStates
      BY <1>1 DEF NetStates
    <2> QED BY <1>1, <2>1 DEF SessionInv, SessionTypeOK
  <1>5. PacketsOK' /\ SocketOK' /\ CallOK'
    BY <1>1, <1>3 DEF SessionInv, PacketsOK, SocketOK, CallOK, OwnCharacter, HandlersInTheirThread
  <1>6. WorldOK'
    BY <1>1 DEF SessionInv, WorldOK, WorldStates
  <1>7. FlowOK'
    <2>1. (closing' \/ ~closing) /\ (client' = "game" <=> client = "game")
          /\ (net' = "incoming" <=> net = "incoming")
      BY <1>1
    <2> QED BY <1>1, <1>2, <2>1, SameFlow
  <1> QED BY <1>4, <1>5, <1>6, <1>7 DEF SessionInv

LEMMA BeginKeeps ==
    ASSUME SessionInv, NEW who \in {"world", "map"}, BeginUpdate(who), UNCHANGED <<master, kicked>>,
           who = "map" => player = "world" /\ world = "maps" /\ world' = "map",
           who = "world" => \/ world = "sessions" /\ world' = "session"
                            \/ world = "last" /\ world' = "lastSession"
    PROVE  SessionInv'
  <1>1. /\ UNCHANGED <<net, incoming, alive, recvQueue, player, character, loading,
                    loginQuery, recentlyLogout, enumAllowed, logoutTimer,
                    client, logins, logouts, received, call, handled, handledGame, passed>>
        /\ updater = "none" /\ updater' = who /\ alive /\ firstDelayed' = 0 /\ queued' = FALSE
        /\ CloseSocket \/ KeepSocket
    BY DEF BeginUpdate, playerVars, clientVars, traceVars
  <1>2. /\ SocketOK /\ closing \in BOOLEAN /\ m_Session \in BOOLEAN /\ received \in Nat
    BY DEF SessionInv, SessionTypeOK
  <1>3. /\ closing' \in BOOLEAN /\ m_Session' \in BOOLEAN
        /\ closing => closing'
        /\ closing' /\ net # "closing" => ~m_Session'
    <2>1. CASE CloseSocket
      BY <1>1, <1>2, <2>1 DEF CloseSocket, SocketOK
    <2>2. CASE KeepSocket
      BY <1>1, <1>2, <2>2 DEF KeepSocket, SocketOK
    <2> QED BY <1>1, <2>1, <2>2
  <1>4. Flight' = Flight /\ InFlight' = InFlight
    BY <1>1, SameFlight
  <1>5. SessionTypeOK'
    <2>1. updater' \in Updaters /\ queued' \in BOOLEAN
      BY <1>1 DEF Updaters
    <2>2. firstDelayed' \in 0..received'
      BY <1>1, <1>2
    <2> QED BY <1>1, <1>3, <2>1, <2>2 DEF SessionInv, SessionTypeOK
  <1>6. PacketsOK' /\ CallOK'
    BY <1>1, <1>4 DEF SessionInv, PacketsOK, CallOK, OwnCharacter, HandlersInTheirThread
  <1>7. SocketOK'
    <2>1. ~closing' => m_Session' = m_Session
      BY <1>1, <1>3 DEF CloseSocket, KeepSocket
    <2> QED BY <1>1, <1>2, <1>3, <2>1 DEF SocketOK
  <1>8. WorldOK'
    <2>1. world' \in WorldStates
      BY DEF WorldStates
    <2>2. world' = "lastSession" /\ ~kicked => client = "connecting"
      BY <1>1 DEF SessionInv, WorldOK
    <2> QED BY <1>1, <1>3, <2>1, <2>2 DEF SessionInv, WorldOK
  <1>9. FlowOK'
    <2> SUFFICES ASSUME ~closing' PROVE FlowOK'
      BY DEF FlowOK
    <2>1. ~closing /\ firstDelayed = 0
      BY <1>1, <1>3 DEF SessionInv, FlowOK, DelayOK
    <2> QED BY <1>1, <1>4, <2>1, SameFlow
  <1> QED BY <1>5, <1>6, <1>7, <1>8, <1>9 DEF SessionInv

(* What stands about the packets behind the one that is taken *)
LEMMA TakeFirst ==
    ASSUME SessionInv, HasNext, recvQueue' = Tail(recvQueue),
           UNCHANGED <<net, incoming, client, logins, received>>
    PROVE  LET h == Head(recvQueue) IN
           /\ recvQueue' \in Seq(Packets) /\ h \in Packets /\ h \in InFlight
           /\ \A p \in InFlight' : p.id \in 1..received' /\ p.login <= logins'
           /\ InFlight' \subseteq InFlight /\ InFlight \subseteq InFlight' \cup {h}
           /\ FlightOrder'
           /\ \A p \in InFlight' :
                 /\ List(h) => ~Old(p)
                 /\ h.opcode = "PLAYER_LOGIN" => ~List(p)
                 /\ Game(h) /\ ~Old(h) => ~List(p)
  <1> DEFINE h == Head(recvQueue)
             m == Len(Flight')
  <1>1. recvQueue # <<>> /\ ~closing /\ SessionTypeOK /\ FlightOrder /\ PacketsOK
    BY DEF HasNext, SessionInv, FlowOK
  <1>2. /\ recvQueue' \in Seq(Packets) /\ InFlight' \subseteq InFlight
        /\ InFlight \subseteq InFlight' \cup {h}
        /\ m = Len(Flight) - 1
        /\ \A i \in 1..m : Flight'[i] = Flight[i + 1] /\ i + 1 \in 1..Len(Flight)
    BY <1>1, Consumed
  <1>3. /\ h \in Packets /\ h \in InFlight /\ h = Flight[1] /\ 1 \in 1..Len(Flight) /\ Len(Flight) \in Nat
    BY <1>1, FlightFacts
  <1>4. \A p \in InFlight' : p.id \in 1..received' /\ p.login <= logins'
    BY <1>1, <1>2 DEF PacketsOK
  <1> HIDE DEF m
  <1>5. FlightOrder'
    <2> SUFFICES ASSUME NEW i \in 1..m, NEW j \in 1..m, i < j
                 PROVE  /\ List(Flight'[i]) => ~Left(Flight'[j], client, logins)
                        /\ Flight'[i].opcode = "PLAYER_LOGIN" => ~List(Flight'[j])
                        /\ Game(Flight'[i]) /\ ~Left(Flight'[i], client, logins)
                              => ~List(Flight'[j])
      BY DEF FlightOrder, Old, m
    <2>1. /\ Flight'[i] = Flight[i + 1] /\ i + 1 \in 1..Len(Flight)
          /\ Flight'[j] = Flight[j + 1] /\ j + 1 \in 1..Len(Flight)
      BY <1>2
    <2>2. i + 1 < j + 1
      BY <1>2, <1>3
    <2> QED BY <1>1, <2>1, <2>2 DEF FlightOrder, Old
  <1>6. \A p \in InFlight' :
                 /\ List(h) => ~Old(p)
                 /\ h.opcode = "PLAYER_LOGIN" => ~List(p)
                 /\ Game(h) /\ ~Old(h) => ~List(p)
    <2> SUFFICES ASSUME NEW i \in 1..m
                 PROVE  /\ List(h) => ~Old(Flight'[i])
                        /\ h.opcode = "PLAYER_LOGIN" => ~List(Flight'[i])
                        /\ Game(h) /\ ~Old(h) => ~List(Flight'[i])
      BY DEF InFlight, m
    <2>1. /\ Flight'[i] = Flight[i + 1] /\ i + 1 \in 1..Len(Flight) /\ 1 < i + 1
      BY <1>2, <1>3
    <2>2. /\ List(Flight[1]) => ~Old(Flight[i + 1])
          /\ Flight[1].opcode = "PLAYER_LOGIN" => ~List(Flight[i + 1])
          /\ Game(Flight[1]) /\ ~Old(Flight[1]) => ~List(Flight[i + 1])
      BY <1>1, <1>3, <2>1 DEF FlightOrder
    <2> QED BY <1>3, <2>1, <2>2
  <1> QED BY <1>2, <1>3, <1>4, <1>5, <1>6

(* The queue without its first packet is still in order, and so are calls   *)
(* after that of the first packet's handler, if it can be called.           *)
LEMMA TakeInOrder ==
    ASSUME SessionInv, HasNext, recvQueue' = Tail(recvQueue), UNCHANGED <<net, incoming>>
    PROVE  LET h == Head(recvQueue) IN
           /\ net = "incoming" => \A i \in 1..Len(recvQueue') : recvQueue'[i].id < incoming.id
           /\ Distinct(recvQueue')
           /\ firstDelayed = 0 => Sorted(recvQueue', passed)
           /\ firstDelayed # 0 => \E k \in 1..Len(recvQueue') :
                  recvQueue'[k].id = firstDelayed /\ Rotated(recvQueue', k, passed)
           /\ firstDelayed = 0 \/ Status(h) = "AUTHED" =>
                  \A p \in InFlight' : Follows(p, h, passed)
  <1> DEFINE n == Len(recvQueue')
             h == Head(recvQueue)
  <1>1. recvQueue # <<>> /\ ~closing /\ SessionTypeOK /\ OrderOK /\ h.id # firstDelayed
    BY DEF HasNext, SessionInv, FlowOK, BeforeDelayed
  <1>2. /\ n = Len(recvQueue) - 1
        /\ \A i \in 1..n : recvQueue'[i] = recvQueue[i + 1] /\ i + 1 \in 1..Len(recvQueue)
        /\ Len(Flight') = Len(Flight) - 1
        /\ \A i \in 1..Len(Flight') : Flight'[i] = Flight[i + 1] /\ i + 1 \in 1..Len(Flight)
    BY <1>1, Consumed
  <1>3. /\ h = recvQueue[1] /\ 1 \in 1..Len(recvQueue) /\ Len(recvQueue) \in Nat
        /\ Len(Flight) \in Nat /\ n \in Nat
    BY <1>1, <1>2, FlightFacts
  <1>4. net = "incoming" => \A i \in 1..n : recvQueue'[i].id < incoming.id
    BY <1>1, <1>2 DEF OrderOK
  <1>5. Distinct(recvQueue')
    <2> SUFFICES ASSUME NEW i \in 1..n, NEW j \in 1..n, recvQueue'[i].id = recvQueue'[j].id PROVE i = j
      BY DEF Distinct
    <2>1. i + 1 = j + 1
      BY <1>1, <1>2 DEF OrderOK, Distinct
    <2> QED BY <1>3, <2>1
  <1>6. firstDelayed = 0 => Sorted(recvQueue', passed)
    <2> SUFFICES ASSUME firstDelayed = 0, NEW i \in 1..n, NEW j \in 1..n, i < j
                 PROVE  Follows(recvQueue'[j], recvQueue'[i], passed)
      BY DEF Sorted
    <2>1. i + 1 < j + 1
      BY <1>3
    <2> QED BY <1>1, <1>2, <2>1 DEF OrderOK, Sorted
  <1>7. ASSUME firstDelayed # 0
        PROVE  \E k \in 1..Len(recvQueue) :
                  /\ recvQueue[k].id = firstDelayed /\ Rotated(recvQueue, k, passed)
                  /\ 1 < k /\ k - 1 \in 1..n /\ (k - 1) + 1 = k
    <2>1. PICK k \in 1..Len(recvQueue) : recvQueue[k].id = firstDelayed /\ Rotated(recvQueue, k, passed)
      BY <1>1, <1>7 DEF OrderOK
    <2>2. k # 1
      BY <1>1, <1>3, <2>1
    <2>3. 1 < k /\ k - 1 \in 1..n /\ (k - 1) + 1 = k
      BY <1>2, <1>3, <2>2
    <2> QED BY <2>1, <2>3
  <1>8. ASSUME firstDelayed # 0
        PROVE  \E k \in 1..n : recvQueue'[k].id = firstDelayed /\ Rotated(recvQueue', k, passed)
    <2>1. PICK k \in 1..Len(recvQueue) : /\ recvQueue[k].id = firstDelayed /\ Rotated(recvQueue, k, passed)
                                         /\ 1 < k /\ k - 1 \in 1..n /\ (k - 1) + 1 = k
      BY <1>7, <1>8
    <2>2. recvQueue'[k - 1].id = firstDelayed
      BY <1>2, <2>1
    <2>3. ASSUME NEW i \in 1..n, NEW j \in 1..n, i < j
          PROVE  Turned(recvQueue', k - 1, i, j, passed)
      <3>1. i + 1 < j + 1 /\ (i < k - 1 <=> i + 1 < k) /\ (k - 1 <= j <=> k <= j + 1)
        BY <1>3, <2>3
      <3>2. /\ recvQueue'[i] = recvQueue[i + 1] /\ i + 1 \in 1..Len(recvQueue)
            /\ recvQueue'[j] = recvQueue[j + 1] /\ j + 1 \in 1..Len(recvQueue)
        BY <1>2
      <3>3. Turned(recvQueue, k, i + 1, j + 1, passed)
        BY <2>1, <3>1, <3>2 DEF Rotated
      <3> QED BY <3>1, <3>2, <3>3 DEF Turned
    <2>4. Rotated(recvQueue', k - 1, passed)
      BY <2>3 DEF Rotated
    <2> QED BY <2>1, <2>2, <2>4
  <1>9. ASSUME firstDelayed = 0 \/ Status(h) = "AUTHED", NEW j \in 1..Len(recvQueue), 1 < j
        PROVE  Follows(recvQueue[j], h, passed)
    <2>1. CASE firstDelayed = 0
      BY <1>1, <1>3, <1>9, <2>1 DEF OrderOK, Sorted
    <2>2. CASE firstDelayed # 0
      <3>1. PICK k \in 1..Len(recvQueue) : Rotated(recvQueue, k, passed) /\ 1 < k
        BY <1>7, <2>2
      <3>2. Status(recvQueue[1]) = "AUTHED"
        BY <1>3, <1>9, <2>2
      <3>3. Turned(recvQueue, k, 1, j, passed)
        BY <1>3, <1>9, <3>1 DEF Rotated
      <3> QED BY <1>3, <3>1, <3>2, <3>3 DEF Turned
    <2> QED BY <2>1, <2>2
  <1>10. ASSUME firstDelayed = 0 \/ Status(h) = "AUTHED", NEW i \in 1..Len(Flight')
         PROVE  Follows(Flight'[i], h, passed)
    <2>1. Flight'[i] = Flight[i + 1] /\ i + 1 \in 1..Len(Flight) /\ 1 < i + 1
      BY <1>2, <1>3
    <2>2. CASE i + 1 \in 1..Len(recvQueue)
      <3>1. Flight[i + 1] = recvQueue[i + 1]
        BY <1>1, <2>2, FlightFacts
      <3> QED BY <1>9, <1>10, <2>1, <2>2, <3>1
    <2>3. CASE i + 1 \notin 1..Len(recvQueue)
      <3>1. net = "incoming" /\ Len(Flight) = Len(recvQueue) + 1 /\ Flight[Len(Flight)] = incoming
        BY <1>1, <2>1, <2>3, FlightFacts
      <3>2. i + 1 = Len(Flight)
        BY <1>3, <2>1, <2>3, <3>1
      <3>3. Flight'[i] = incoming
        BY <2>1, <3>1, <3>2
      <3>4. recvQueue[1].id < incoming.id
        BY <1>1, <1>3, <3>1 DEF OrderOK
      <3> QED BY <1>3, <3>3, <3>4 DEF Follows
    <2> QED BY <2>2, <2>3
  <1>11. firstDelayed = 0 \/ Status(h) = "AUTHED" => \A p \in InFlight' : Follows(p, h, passed)
    BY <1>10 DEF InFlight
  <1> QED BY <1>4, <1>5, <1>6, <1>8, <1>11

(* A step calls no handler, or one whose turn it is (InOrder). *)
InOrderStep ==
    handled' # handled =>
       \/ call'.id \in passed
       \/ \A i \in IF Opcodes[call'.opcode].status = "AUTHED" THEN handled ELSE handledGame :
             i < call'.id

(* A handler is called for a packet of its own character, in its thread. *)
LEMMA RecordKeeps ==
    ASSUME SessionInv, InLoop, HasNext, Expected(Head(recvQueue)), RecordCall(Head(recvQueue))
    PROVE  /\ call' \in Calls /\ handled' \subseteq 1..received /\ handledGame' \subseteq handled'
           /\ passed' = passed /\ call'.id <= received
           /\ CallOK' /\ InOrderStep
           /\ \A p : InTurn(p) /\ Follows(p, Head(recvQueue), passed) => InTurn(p)'
  <1> DEFINE p == Head(recvQueue)
  <1>1. /\ ~closing /\ LoginOK /\ PacketsOK /\ SessionTypeOK /\ Filter(p) /\ recvQueue # <<>>
        /\ updater \in {"world", "map"} /\ WorldOK /\ Expected(p) /\ OrderOK
    BY DEF SessionInv, FlowOK, HasNext, InLoop
  <1>2. p \in Packets /\ p \in InFlight
    BY <1>1, FlightFacts
  <1>3. /\ call' = [id |-> p.id, opcode |-> p.opcode, login |-> p.login,
                    character |-> character, by |-> updater, player |-> player]
        /\ handled' = handled \cup {p.id} /\ passed' = passed
        /\ handledGame' = IF Status(p) = "AUTHED" THEN handledGame ELSE handledGame \cup {p.id}
    BY DEF RecordCall
  <1>4. /\ p.id \in Nat /\ p.opcode \in DOMAIN Opcodes /\ p.login \in Nat
        /\ p.id \in 1..received /\ p.login <= logins
    BY <1>1, <1>2 DEF PacketsOK, Packets
  <1> HIDE DEF p
  <1>5. /\ character \in Nat /\ logins \in Nat /\ received \in Nat /\ updater \in Updaters
        /\ player \in Players /\ handled \subseteq 1..received /\ handledGame \subseteq handled
    BY <1>1 DEF SessionTypeOK
  <1>6. call' \in Calls /\ handled' \subseteq 1..received /\ call'.id = p.id /\ call'.id <= received
        /\ call'.opcode = p.opcode /\ handledGame' \subseteq handled'
    <2>1. call' \in Calls
      BY <1>3, <1>4, <1>5 DEF Calls
    <2>2. call'.id = p.id /\ call'.opcode = p.opcode
      BY <1>3
    <2>3. p.id <= received
      BY <1>4, <1>5
    <2>4. handled' \subseteq 1..received
      BY <1>3, <1>4, <1>5
    <2>5. handledGame' \subseteq handled'
      BY <1>3, <1>5
    <2> QED BY <2>1, <2>2, <2>3, <2>4, <2>5
  <1>7. OwnCharacter'
    <2> SUFFICES ASSUME Status(p) \in {"LOGGEDIN", "TRANSFER"} PROVE p.login = character
      BY <1>3 DEF OwnCharacter, Status
    <2>1. player # "none"
      BY <1>1 DEF Expected
    <2>2. character = logins /\ client = "game" /\ ~Asked
      BY <1>1, <2>1 DEF LoginOK
    <2>3. ~Left(p, client, logins)
      BY <1>1, <1>2, <2>2 DEF LoginOK, Old
    <2> QED BY <1>4, <1>5, <2>2, <2>3 DEF Left, Game
  <1>8. HandlersInTheirThread'
    <2>1. CASE updater = "map"
      <3>1. player = "world"
        BY <1>1, <2>1 DEF WorldOK
      <3>2. Opcodes[p.opcode].processing \in {"INPLACE", "THREADSAFE"}
        BY <1>1, <2>1 DEF Filter, MapSessionFilter
      <3> QED BY <1>3, <2>1, <3>1, <3>2 DEF HandlersInTheirThread
    <2>2. CASE updater = "world"
      <3>1. Opcodes[p.opcode].processing \in {"INPLACE", "THREADUNSAFE"} \/ player # "world"
        BY <1>1, <2>2 DEF Filter, WorldSessionFilter
      <3> QED BY <1>3, <2>2, <3>1 DEF HandlersInTheirThread
    <2> QED BY <1>1, <2>1, <2>2
  <1>9. InOrderStep
    <2>1. InTurn(p)
      BY <1>1, <1>2 DEF OrderOK
    <2> QED BY <1>6, <2>1 DEF InTurn, InOrderStep, Status
  <1>10. ASSUME NEW r, InTurn(r), Follows(r, p, passed) PROVE InTurn(r)'
    BY <1>3, <1>10 DEF InTurn, Follows
  <1> QED BY <1>3, <1>6, <1>7, <1>8, <1>9, <1>10 DEF CallOK, p

(* The client is kicked because of the packet that was taken. *)
LEMMA RefuseKeeps ==
    ASSUME SessionInv, RefuseOpcode, UNCHANGED <<world, master, kicked>>
    PROVE  SessionInv'
  <1>1. /\ UNCHANGED <<net, incoming, alive, player, character, loading,
                    loginQuery, recentlyLogout, enumAllowed, logoutTimer, updater, firstDelayed,
                    client, logins, logouts, received, call, handled, handledGame, passed, queued>>
        /\ updater \in {"world", "map"} /\ HasNext /\ recvQueue' = Tail(recvQueue)
        /\ ~closing /\ closing' = TRUE /\ m_Session' = FALSE
    BY DEF RefuseOpcode, HasNext, InLoop, CloseSocket, playerVars, updateVars, clientVars, traceVars
  <1>2. recvQueue' \in Seq(Packets) /\ \A p \in InFlight' : p.id \in 1..received' /\ p.login <= logins'
    BY <1>1, TakeFirst
  <1>3. SessionTypeOK'
    <2>1. closing' \in BOOLEAN /\ m_Session' \in BOOLEAN
      BY <1>1
    <2> QED BY <1>1, <1>2, <2>1 DEF SessionInv, SessionTypeOK
  <1>4. PacketsOK' /\ CallOK'
    BY <1>1, <1>2 DEF SessionInv, PacketsOK, CallOK, OwnCharacter, HandlersInTheirThread
  <1>5. SocketOK' /\ WorldOK'
    BY <1>1 DEF SessionInv, SocketOK, WorldOK
  <1> QED BY <1>1, <1>3, <1>4, <1>5 DEF SessionInv, FlowOK

LEMMA KickKeeps ==
    ASSUME SessionInv, KickAtLogin \/ KickByWarden, UNCHANGED <<world, master, kicked>>
    PROVE  SessionInv' /\ InOrderStep
  <1>1. /\ UNCHANGED <<net, incoming, alive, queued, player, character,
                    loginQuery, recentlyLogout, enumAllowed, logoutTimer, updater, firstDelayed,
                    client, logins, logouts, received>>
        /\ InLoop /\ HasNext /\ recvQueue' = Tail(recvQueue) /\ recvQueue # <<>>
        /\ updater \in {"world", "map"}
        /\ Head(recvQueue).opcode \in {"PLAYER_LOGIN", "WARDEN_DATA"}
        /\ ~closing /\ closing' = TRUE /\ m_Session' = FALSE /\ (loading' = TRUE \/ loading' = loading)
        /\ RecordCall(Head(recvQueue))
    BY DEF KickAtLogin, KickByWarden, HasNext, InLoop, CloseSocket, playerVars, updateVars, clientVars
  <1>2. /\ recvQueue' \in Seq(Packets) /\ Head(recvQueue) \in Packets /\ Head(recvQueue) \in InFlight
        /\ \A p \in InFlight' : p.id \in 1..received' /\ p.login <= logins'
    BY <1>1, TakeFirst
  <1>3. Expected(Head(recvQueue))
    <2>1. Status(Head(recvQueue)) = "AUTHED"
      BY <1>1, OpcodeFacts DEF Status
    <2> QED BY <2>1 DEF Expected
  <1>4. /\ call' \in Calls /\ handled' \subseteq 1..received /\ handledGame' \subseteq handled'
        /\ passed' = passed /\ call'.id <= received
        /\ CallOK' /\ InOrderStep
    BY <1>1, <1>3, RecordKeeps
  <1>5. SessionTypeOK'
    <2>1. closing' \in BOOLEAN /\ m_Session' \in BOOLEAN /\ loading' \in BOOLEAN
      BY <1>1 DEF SessionInv, SessionTypeOK
    <2> QED BY <1>1, <1>2, <1>4, <2>1 DEF SessionInv, SessionTypeOK
  <1>6. PacketsOK'
    BY <1>1, <1>2, <1>4 DEF PacketsOK
  <1>7. SocketOK' /\ WorldOK'
    BY <1>1 DEF SessionInv, SocketOK, WorldOK
  <1> QED BY <1>1, <1>4, <1>5, <1>6, <1>7 DEF SessionInv, FlowOK

LEMMA IgnoreKeeps ==
    ASSUME SessionInv, IgnorePacket, UNCHANGED <<world, master, kicked>>
    PROVE  SessionInv'
  <1> DEFINE h == Head(recvQueue)
  <1>1. /\ UNCHANGED <<closing, m_Session, net, incoming, alive, player, character, loading,
                    loginQuery, recentlyLogout, enumAllowed, logoutTimer, updater, firstDelayed,
                    client, logins, logouts, received, call, handled, handledGame, passed, queued>>
        /\ updater \in {"world", "map"} /\ HasNext /\ recvQueue' = Tail(recvQueue) /\ ~closing
        /\ Unexpected(h)
    BY DEF IgnorePacket, HasNext, InLoop, socketVars, playerVars, updateVars, clientVars, traceVars
  <1>2. /\ recvQueue' \in Seq(Packets) /\ h \in Packets
        /\ \A p \in InFlight' : p.id \in 1..received' /\ p.login <= logins'
        /\ InFlight' \subseteq InFlight /\ InFlight \subseteq InFlight' \cup {h}
        /\ FlightOrder'
    BY <1>1, TakeFirst
  <1>3. FlightOrder /\ OldMeansRecent /\ LoginOK /\ OrderOK /\ DelayOK
    BY <1>1 DEF SessionInv, FlowOK
  <1>4. h.opcode # "PLAYER_LOGIN" /\ Status(h) # "AUTHED"
    <2>1. Status(h) # "AUTHED"
      BY <1>1 DEF Unexpected
    <2> QED BY <1>2, <2>1, StatusFacts DEF Packets
  <1>5. Asked' <=> Asked
    BY <1>2, <1>4 DEF Asked
  <1>6. SessionTypeOK'
    BY <1>1, <1>2 DEF SessionInv, SessionTypeOK
  <1>7. PacketsOK' /\ CallOK'
    BY <1>1, <1>2 DEF SessionInv, PacketsOK, CallOK, OwnCharacter, HandlersInTheirThread
  <1>8. SocketOK' /\ WorldOK'
    BY <1>1 DEF SessionInv, SocketOK, WorldOK
  <1>9. OldMeansRecent' /\ DelayOK'
    BY <1>1, <1>2, <1>3, <1>5 DEF OldMeansRecent, DelayOK, Old
  <1>10. LoginOK'
    BY <1>1, <1>2, <1>3, <1>5 DEF LoginOK, Old
  <1>11. OrderOK'
    <2>1. \A p \in InFlight' : InTurn(p)
      BY <1>2, <1>3 DEF OrderOK
    <2>2. \A p \in InFlight' : InTurn(p)'
      BY <1>1, <2>1 DEF InTurn
    <2>3. /\ net = "incoming" => \A i \in 1..Len(recvQueue') : recvQueue'[i].id < incoming.id
          /\ Distinct(recvQueue')
          /\ firstDelayed = 0 => Sorted(recvQueue', passed)
          /\ firstDelayed # 0 => \E k \in 1..Len(recvQueue') :
                 recvQueue'[k].id = firstDelayed /\ Rotated(recvQueue', k, passed)
      BY <1>1, TakeInOrder
    <2> QED BY <1>1, <2>2, <2>3 DEF OrderOK
  <1> QED BY <1>2, <1>6, <1>7, <1>8, <1>9, <1>10, <1>11 DEF SessionInv, FlowOK

(* What a handler does to the session *)
LEMMA HandlerOutcome ==
    ASSUME SessionTypeOK, LoginOK, NEW h \in Packets, Handler(h), Expected(h), Filter(h),
           updater \in {"world", "map"}
    PROVE  \/ Stay
           \/ updater = "world" /\ player # "none" /\ \E where \in {"world", "transfer"} : MoveTo(where)
           \/ updater = "world" /\ player # "none" /\ LogoutPlayer
           \/ updater = "world" /\ player # "none" /\ \E on \in BOOLEAN : SetLogoutTimer(on)
           \/ updater = "world" /\ h.opcode = "CHAR_ENUM" /\ HandleCharEnum
           \/ /\ updater = "world" /\ h.opcode = "PLAYER_LOGIN"
              /\ loading' = TRUE /\ loginQuery' = "pending" /\ character' = h.login
              /\ UNCHANGED <<player, recentlyLogout, enumAllowed, logoutTimer, logouts>>
  <1>1. h.opcode \in DOMAIN Opcodes
    BY DEF Packets
  <1>2. Opcodes[h.opcode].processing = "THREADUNSAFE" => updater = "world"
    BY DEF Filter, MapSessionFilter
  <1>3. Status(h) \in {"LOGGEDIN", "TRANSFER"} => player # "none"
    BY DEF Expected
  <1>4. CASE h.opcode = "CHAR_ENUM"
    BY <1>1, <1>2, <1>4, OpcodeFacts, StatusFacts DEF Handler
  <1>5. CASE h.opcode = "PLAYER_LOGIN"
    <2>1. HandlePlayerLogin(h.login) /\ updater = "world"
      BY <1>2, <1>5, OpcodeFacts DEF Handler
    <2> QED BY <1>5, <2>1 DEF HandlePlayerLogin
  <1>6. CASE h.opcode = "MESSAGECHAT"
    <2>1. MayTeleportFar /\ updater = "world" /\ player # "none"
      BY <1>1, <1>2, <1>3, <1>6, OpcodeFacts, StatusFacts DEF Handler
    <2> QED BY <2>1 DEF MayTeleportFar
  <1>7. CASE h.opcode = "LOGOUT_REQUEST"
    <2>1. HandleLogoutRequest /\ updater = "world" /\ player # "none"
      BY <1>1, <1>2, <1>3, <1>7, OpcodeFacts, StatusFacts DEF Handler
    <2> QED BY <2>1 DEF HandleLogoutRequest
  <1>8. CASE h.opcode = "LOGOUT_CANCEL"
    <2>1. HandleLogoutCancel /\ updater = "world"
      BY <1>1, <1>2, <1>8, OpcodeFacts DEF Handler
    <2>2. FALSE \in BOOLEAN
      OBVIOUS
    <2> QED BY <2>1, <2>2 DEF HandleLogoutCancel
  <1>9. CASE h.opcode = "WORLDPORT_ACK"
    <2>1. HandleMoveWorldportAck /\ updater = "world" /\ player # "none"
      BY <1>1, <1>2, <1>3, <1>9, OpcodeFacts, StatusFacts DEF Handler
    <2> QED BY <2>1 DEF HandleMoveWorldportAck
  <1>10. CASE h.opcode \in {"MOVE", "TIME_SYNC", "GUILD_QUERY", "WARDEN_DATA"}
    BY <1>10 DEF Handler
  <1> QED BY <1>1, <1>4, <1>5, <1>6, <1>7, <1>8, <1>9, <1>10, OpcodeFacts

(* While packets are put back, only handlers that need no character are     *)
(* called.                                                                  *)
LEMMA NothingDelayed ==
    ASSUME SessionInv, HasNext, Expected(Head(recvQueue))
    PROVE  firstDelayed = 0 \/ (Status(Head(recvQueue)) = "AUTHED" /\ ~List(Head(recvQueue)))
  <1> DEFINE h == Head(recvQueue)
  <1>1. ~closing /\ recvQueue # <<>> /\ SessionTypeOK /\ LoginOK /\ DelayOK /\ Expected(h)
    BY DEF SessionInv, FlowOK, HasNext
  <1>2. h \in Packets /\ h \in InFlight
    BY <1>1, FlightFacts
  <1> HIDE DEF h
  <1> SUFFICES ASSUME firstDelayed # 0 PROVE Status(h) = "AUTHED" /\ ~List(h)
    BY DEF h
  <1>3. player = "none" /\ ~recentlyLogout /\ client = "game" /\ ~Asked
    BY <1>1 DEF DelayOK
  <1>4. ~List(h)
    BY <1>1, <1>2, <1>3 DEF LoginOK
  <1>5. Status(h) \in {"AUTHED", "RECENTLY", "TRANSFER", "LOGGEDIN"}
    BY <1>2, StatusFacts DEF Packets
  <1> QED BY <1>1, <1>3, <1>4, <1>5 DEF Expected

LEMMA CallKeeps ==
    ASSUME SessionInv, CallHandler, UNCHANGED <<world, master, kicked>>
    PROVE  SessionInv' /\ InOrderStep
  <1> DEFINE h == Head(recvQueue)
  <1>1. /\ UNCHANGED <<closing, m_Session, net, incoming, alive, queued, updater, firstDelayed,
                    client, logins, received>>
        /\ InLoop /\ updater \in {"world", "map"} /\ HasNext /\ recvQueue' = Tail(recvQueue)
        /\ ~closing /\ recvQueue # <<>> /\ Expected(h) /\ Filter(h) /\ Handler(h) /\ RecordCall(h)
    BY DEF CallHandler, HasNext, InLoop, socketVars, updateVars
  <1>2. /\ FlightOrder /\ OldMeansRecent /\ LoginOK /\ OrderOK /\ DelayOK /\ SessionTypeOK
        /\ SocketOK /\ WorldOK /\ alive
    BY <1>1 DEF SessionInv, FlowOK, SocketOK
  <1>3. /\ recvQueue' \in Seq(Packets) /\ h \in Packets /\ h \in InFlight
        /\ \A p \in InFlight' : p.id \in 1..received' /\ p.login <= logins'
        /\ InFlight' \subseteq InFlight /\ InFlight \subseteq InFlight' \cup {h}
        /\ FlightOrder'
        /\ \A p \in InFlight' :
                 /\ List(h) => ~Old(p)
                 /\ h.opcode = "PLAYER_LOGIN" => ~List(p)
    BY <1>1, TakeFirst
  <1>4. /\ call' \in Calls /\ handled' \subseteq 1..received /\ handledGame' \subseteq handled'
        /\ passed' = passed /\ call'.id <= received /\ CallOK' /\ InOrderStep
        /\ \A p : InTurn(p) /\ Follows(p, h, passed) => InTurn(p)'
    BY <1>1, RecordKeeps
  <1>5. firstDelayed = 0 \/ (Status(h) = "AUTHED" /\ ~List(h))
    BY <1>1, NothingDelayed
  <1>6. \/ Stay
        \/ updater = "world" /\ player # "none" /\ \E where \in {"world", "transfer"} : MoveTo(where)
        \/ updater = "world" /\ player # "none" /\ LogoutPlayer
        \/ updater = "world" /\ player # "none" /\ \E on \in BOOLEAN : SetLogoutTimer(on)
        \/ updater = "world" /\ h.opcode = "CHAR_ENUM" /\ HandleCharEnum
        \/ /\ updater = "world" /\ h.opcode = "PLAYER_LOGIN"
           /\ loading' = TRUE /\ loginQuery' = "pending" /\ character' = h.login
           /\ UNCHANGED <<player, recentlyLogout, enumAllowed, logoutTimer, logouts>>
    BY <1>1, <1>2, <1>3, HandlerOutcome
  <1>7. OrderOK'
    <2>1. /\ net = "incoming" => \A i \in 1..Len(recvQueue') : recvQueue'[i].id < incoming.id
          /\ Distinct(recvQueue')
          /\ firstDelayed = 0 => Sorted(recvQueue', passed)
          /\ firstDelayed # 0 => \E k \in 1..Len(recvQueue') :
                 recvQueue'[k].id = firstDelayed /\ Rotated(recvQueue', k, passed)
          /\ \A p \in InFlight' : Follows(p, h, passed)
      BY <1>1, <1>5, TakeInOrder
    <2>2. \A p \in InFlight' : InTurn(p)
      BY <1>2, <1>3 DEF OrderOK
    <2>3. \A p \in InFlight' : InTurn(p)'
      BY <1>4, <2>1, <2>2
    <2> QED BY <1>1, <1>4, <2>1, <2>3 DEF OrderOK
  <1>8. DelayOK'
    <2> SUFFICES ASSUME firstDelayed # 0 PROVE DelayOK'
      BY <1>1 DEF DelayOK
    <2>1. updater = "world" /\ player = "none" /\ ~recentlyLogout /\ client = "game" /\ ~Asked
      BY <1>2 DEF DelayOK
    <2>2. Stay
      BY <1>5, <1>6, <2>1 DEF List
    <2>3. ~Asked'
      BY <1>3, <2>1 DEF Asked
    <2> QED BY <1>1, <2>1, <2>2, <2>3 DEF DelayOK, Stay, playerVars
  <1>9. PacketsOK' /\ SocketOK'
    BY <1>1, <1>2, <1>3, <1>4 DEF PacketsOK, SocketOK
  <1> HIDE DEF h
  (* The client's login, seen from the packets that are left *)
  <1>10. \A p \in InFlight' : ~List(p) => p.opcode # "PLAYER_LOGIN"
    BY DEF List
  <1>11. h.opcode = "PLAYER_LOGIN" => Asked /\ ~Asked' /\ h.login = logins /\ List(h)
    <2>1. h.opcode = "PLAYER_LOGIN" => List(h)
      BY DEF List
    <2> QED BY <1>2, <1>3, <1>10, <2>1 DEF Asked, LoginOK
  <1>12. Asked' => Asked
    BY <1>3 DEF Asked
  <1>13. /\ \A p \in InFlight' : p.opcode = "PLAYER_LOGIN" => p.login = logins
         /\ client = "game" /\ ~Asked' => \A p \in InFlight' : ~List(p) /\ ~Left(p, client, logins)
    <2>1. CASE h.opcode = "PLAYER_LOGIN"
      BY <1>2, <1>3, <1>11, <2>1 DEF LoginOK, Old
    <2>2. CASE h.opcode # "PLAYER_LOGIN"
      <3>1. Asked => Asked'
        BY <1>3, <2>2 DEF Asked
      <3> QED BY <1>2, <1>3, <3>1 DEF LoginOK, Old
    <2> QED BY <2>1, <2>2
  <1>14. SUFFICES /\ player' \in Players /\ character' \in 0..logins /\ loading' \in BOOLEAN
                  /\ loginQuery' \in Queries /\ recentlyLogout' \in BOOLEAN /\ enumAllowed' \in BOOLEAN
                  /\ logoutTimer' \in BOOLEAN /\ logouts' \in Nat
                  /\ updater = "map" => player' = player
                  /\ \A p \in InFlight' : Left(p, client, logins) => recentlyLogout'
                  /\ Asked' => client = "game" /\ logouts' = 0 /\ player' = "none" /\ ~loading'
                  /\ player' # "none" \/ loading' => character' = logins /\ client = "game" /\ logouts' = 0
                  /\ client # "game" => logouts' = 0
                  /\ logouts' # 0 => logouts' = 1 /\ recentlyLogout'
                  /\ loginQuery' # "none" => loading'
                  /\ loading' => player' = "none"
                  /\ logoutTimer' => player' # "none"
    <2>1. SessionTypeOK'
      BY <1>1, <1>2, <1>3, <1>4, <1>14 DEF SessionTypeOK
    <2>2. WorldOK'
      <3>1. client = "connecting" => player' = "none" /\ loginQuery' = "none" /\ logouts' = 0
        BY <1>14
      <3>2. updater = "map" => player' = player
        BY <1>14
      <3> QED BY <1>1, <1>2, <3>1, <3>2 DEF WorldOK
    <2>3. OldMeansRecent'
      BY <1>1, <1>14 DEF OldMeansRecent, Old
    <2>4. LoginOK'
      BY <1>1, <1>13, <1>14 DEF LoginOK, Old
    <2> QED BY <1>3, <1>4, <1>7, <1>8, <1>9, <2>1, <2>2, <2>3, <2>4 DEF SessionInv, FlowOK
  <1>15. /\ player \in Players /\ character \in 0..logins /\ loading \in BOOLEAN
         /\ loginQuery \in Queries /\ recentlyLogout \in BOOLEAN /\ enumAllowed \in BOOLEAN
         /\ logoutTimer \in BOOLEAN /\ logouts \in Nat /\ logins \in Nat /\ client \in Screens
    BY <1>2 DEF SessionTypeOK
  <1>16. \A p \in InFlight' : Left(p, client, logins) => recentlyLogout
    BY <1>2, <1>3 DEF OldMeansRecent, Old
  <1>17. player # "none" => /\ ~Asked' /\ ~loading /\ loginQuery = "none" /\ character = logins
                            /\ client = "game" /\ logouts = 0
    BY <1>2, <1>12 DEF LoginOK
  <1>18. CASE Stay
    BY <1>2, <1>12, <1>15, <1>16, <1>18 DEF Stay, playerVars, LoginOK
  <1>19. CASE updater = "world" /\ player # "none" /\ \E where \in {"world", "transfer"} : MoveTo(where)
    <2>1. /\ player' \in {"world", "transfer"}
          /\ UNCHANGED <<character, loading, loginQuery, recentlyLogout, enumAllowed, logoutTimer, logouts>>
      BY <1>19 DEF MoveTo
    <2>2. player' \in Players
      BY <2>1 DEF Players
    <2> QED BY <1>15, <1>16, <1>17, <1>19, <2>1, <2>2
  <1>20. CASE updater = "world" /\ player # "none" /\ LogoutPlayer
    <2>1. logouts' = 1 /\ character' \in 0..logins /\ logouts' \in Nat
      BY <1>15, <1>17, <1>20 DEF LogoutPlayer
    <2>2. /\ player' \in Players /\ recentlyLogout' \in BOOLEAN /\ enumAllowed' \in BOOLEAN
          /\ logoutTimer' \in BOOLEAN
      BY <1>20 DEF LogoutPlayer, Players
    <2> QED BY <1>15, <1>17, <1>20, <2>1, <2>2 DEF LogoutPlayer
  <1>21. CASE updater = "world" /\ player # "none" /\ \E on \in BOOLEAN : SetLogoutTimer(on)
    <2>1. /\ logoutTimer' \in BOOLEAN
          /\ UNCHANGED <<player, character, loading, loginQuery, recentlyLogout, enumAllowed, logouts>>
      BY <1>21 DEF SetLogoutTimer
    <2> QED BY <1>15, <1>16, <1>17, <1>21, <2>1
  <1>22. CASE updater = "world" /\ h.opcode = "CHAR_ENUM" /\ HandleCharEnum
    <2>0. List(h)
      BY <1>22 DEF List
    <2>1. logouts = 0
      BY <1>2, <1>3, <2>0 DEF LoginOK
    <2>2. recentlyLogout' \in BOOLEAN /\ enumAllowed' \in BOOLEAN
      BY <1>22 DEF HandleCharEnum
    <2>3. \A p \in InFlight' : ~Left(p, client, logins)
      BY <1>3, <2>0 DEF Old
    <2> QED BY <1>2, <1>12, <1>15, <1>22, <2>1, <2>2, <2>3 DEF HandleCharEnum, LoginOK
  <1>23. CASE /\ updater = "world" /\ h.opcode = "PLAYER_LOGIN"
              /\ loading' = TRUE /\ loginQuery' = "pending" /\ character' = h.login
              /\ UNCHANGED <<player, recentlyLogout, enumAllowed, logoutTimer, logouts>>
    <2>1. player = "none" /\ client = "game" /\ logouts = 0 /\ ~Asked' /\ character' = logins
      BY <1>2, <1>11, <1>23 DEF LoginOK
    <2>2. character' \in 0..logins
      BY <1>15, <2>1
    <2>3. loading' \in BOOLEAN /\ loginQuery' \in Queries
      BY <1>23 DEF Queries
    <2>4. logoutTimer => player # "none"
      BY <1>2 DEF LoginOK
    <2> QED BY <1>15, <1>16, <1>23, <2>1, <2>2, <2>3, <2>4
  <1> QED BY <1>6, <1>18, <1>19, <1>20, <1>21, <1>22, <1>23

(* The packets that are put back stay in order, behind the others. *)
LEMMA PutBackRotates ==
    ASSUME SessionInv, HasNext, recvQueue' = Append(Tail(recvQueue), Head(recvQueue)),
           UNCHANGED <<net, incoming>>, Status(Head(recvQueue)) = "LOGGEDIN",
           firstDelayed' = IF firstDelayed = 0 THEN Head(recvQueue).id ELSE firstDelayed
    PROVE  /\ Distinct(recvQueue')
           /\ \E k \in 1..Len(recvQueue') :
                 recvQueue'[k].id = firstDelayed' /\ Rotated(recvQueue', k, passed)
  <1> DEFINE n == Len(recvQueue)
  <1>1. recvQueue # <<>> /\ ~closing /\ SessionTypeOK /\ OrderOK /\ Head(recvQueue).id # firstDelayed
    BY DEF HasNext, SessionInv, FlowOK, BeforeDelayed
  <1>2. /\ Len(recvQueue') = n /\ n > 0 /\ n \in Nat
        /\ \A i \in 1..(n - 1) : recvQueue'[i] = recvQueue[i + 1] /\ i + 1 \in 1..n
        /\ recvQueue'[n] = recvQueue[1] /\ 1 \in 1..n
        /\ \A i \in 1..n : i = n \/ i \in 1..(n - 1)
    BY <1>1, BackOfQueue
  <1>3. Head(recvQueue) = recvQueue[1] /\ Status(recvQueue[1]) = "LOGGEDIN"
    BY <1>1, FlightFacts
  <1>4. /\ firstDelayed = 0 => Sorted(recvQueue, passed)
        /\ firstDelayed # 0 => \E k \in 1..n : recvQueue[k].id = firstDelayed /\ Rotated(recvQueue, k, passed)
        /\ \A i, j \in 1..n : recvQueue[i].id = recvQueue[j].id => i = j
    BY <1>1 DEF OrderOK, Distinct
  <1>5. \A k \in 1..n : Rotated(recvQueue', k, passed) <=>
                          \A i, j \in 1..n : i < j => Turned(recvQueue', k, i, j, passed)
    BY <1>2 DEF Rotated
  <1>6. \A k \in 1..n : Rotated(recvQueue, k, passed) <=>
                          \A i, j \in 1..n : i < j => Turned(recvQueue, k, i, j, passed)
    BY DEF Rotated
  <1>7. Sorted(recvQueue, passed) <=>
           \A i, j \in 1..n : i < j => Follows(recvQueue[j], recvQueue[i], passed)
    BY DEF Sorted
  (* Whatever needs no character may go in front of the one put back. *)
  <1>8. \A p : Status(p) = "AUTHED" => Follows(recvQueue[1], p, passed)
    BY <1>3 DEF Follows
  <1>9. Distinct(recvQueue')
    <2> SUFFICES ASSUME NEW i \in 1..n, NEW j \in 1..n, recvQueue'[i].id = recvQueue'[j].id PROVE i = j
      BY <1>2 DEF Distinct
    <2>1. CASE i = n /\ j = n
      BY <2>1
    <2>2. CASE i = n /\ j \in 1..(n - 1)
      <3>1. 1 = j + 1
        BY <1>2, <1>4, <2>2
      <3> QED BY <1>2, <2>2, <3>1
    <2>3. CASE i \in 1..(n - 1) /\ j = n
      <3>1. i + 1 = 1
        BY <1>2, <1>4, <2>3
      <3> QED BY <1>2, <2>3, <3>1
    <2>4. CASE i \in 1..(n - 1) /\ j \in 1..(n - 1)
      <3>1. i + 1 = j + 1
        BY <1>2, <1>4, <2>4
      <3> QED BY <1>2, <2>4, <3>1
    <2> QED BY <1>2, <2>1, <2>2, <2>3, <2>4
  <1> HIDE DEF n
  <1>10. CASE firstDelayed = 0
    <2>1. n \in 1..n /\ recvQueue'[n].id = firstDelayed'
      BY <1>2, <1>3, <1>10
    <2>2. ASSUME NEW i \in 1..n, NEW j \in 1..n, i < j PROVE Turned(recvQueue', n, i, j, passed)
      <3>1. i \in 1..(n - 1) /\ recvQueue'[i] = recvQueue[i + 1] /\ i + 1 \in 1..n /\ 1 < i + 1 /\ i < n
        BY <1>2, <2>2
      <3>2. CASE j = n
        <4>1. Follows(recvQueue[i + 1], recvQueue[1], passed)
          BY <1>2, <1>4, <1>7, <1>10, <3>1
        <4>2. n <= j
          BY <1>2, <3>2
        <4> QED BY <1>2, <1>8, <3>1, <3>2, <4>1, <4>2 DEF Turned
      <3>3. CASE j # n
        <4>1. j \in 1..(n - 1) /\ recvQueue'[j] = recvQueue[j + 1] /\ j + 1 \in 1..n
          BY <1>2, <3>3
        <4>2. i + 1 < j + 1 /\ ~(n <= j)
          BY <1>2, <2>2, <3>3
        <4>3. Follows(recvQueue[j + 1], recvQueue[i + 1], passed)
          BY <1>4, <1>7, <1>10, <3>1, <4>1, <4>2
        <4> QED BY <3>1, <4>1, <4>2, <4>3 DEF Turned
      <3> QED BY <3>2, <3>3
    <2>3. Rotated(recvQueue', n, passed)
      BY <1>5, <2>1, <2>2
    <2> QED BY <1>2, <1>9, <2>1, <2>3
  <1>11. CASE firstDelayed # 0
    <2>1. PICK k \in 1..n : recvQueue[k].id = firstDelayed /\ Rotated(recvQueue, k, passed)
      BY <1>4, <1>11
    <2>2. k # 1
      BY <1>1, <1>3, <2>1
    <2>3. k - 1 \in 1..(n - 1) /\ k - 1 \in 1..n /\ (k - 1) + 1 = k /\ 1 < k
      BY <1>2, <2>1, <2>2
    <2>4. recvQueue'[k - 1].id = firstDelayed'
      BY <1>2, <1>11, <2>1, <2>3
    <2>5. ASSUME NEW i \in 1..n, NEW j \in 1..n, i < j PROVE Turned(recvQueue', k - 1, i, j, passed)
      <3>1. i \in 1..(n - 1) /\ recvQueue'[i] = recvQueue[i + 1] /\ i + 1 \in 1..n /\ 1 < i + 1 /\ i < n
        BY <1>2, <2>5
      <3>2. i < k - 1 <=> i + 1 < k
        BY <1>2, <2>1
      <3>3. CASE j = n
        <4>1. k - 1 <= j
          BY <1>2, <2>1, <3>3
        <4>2. Turned(recvQueue, k, 1, i + 1, passed)
          BY <1>2, <1>6, <2>1, <3>1
        <4>3. CASE i + 1 < k
          <5>1. Follows(recvQueue[i + 1], recvQueue[1], passed)
            <6>1. ~(k <= i + 1)
              BY <1>2, <2>1, <4>3
            <6> QED BY <4>2, <6>1 DEF Turned
          <5> QED BY <1>2, <1>8, <3>1, <3>2, <3>3, <4>1, <4>3, <5>1 DEF Turned
        <4>4. CASE ~(i + 1 < k)
          <5>1. Follows(recvQueue[1], recvQueue[i + 1], passed)
            <6>1. k <= i + 1
              BY <1>2, <2>1, <4>4
            <6>2. 1 < k /\ Status(recvQueue[1]) = "LOGGEDIN"
              BY <1>3, <2>3
            <6> QED BY <4>2, <6>1, <6>2 DEF Turned
          <5> QED BY <1>2, <3>1, <3>2, <3>3, <4>4, <5>1 DEF Turned
        <4> QED BY <4>3, <4>4
      <3>4. CASE j # n
        <4>1. j \in 1..(n - 1) /\ recvQueue'[j] = recvQueue[j + 1] /\ j + 1 \in 1..n
          BY <1>2, <3>4
        <4>2. i + 1 < j + 1 /\ (k - 1 <= j <=> k <= j + 1)
          BY <1>2, <2>1, <2>5
        <4>3. Turned(recvQueue, k, i + 1, j + 1, passed)
          BY <1>6, <2>1, <3>1, <4>1, <4>2
        <4> QED BY <3>1, <3>2, <4>1, <4>2, <4>3 DEF Turned
      <3> QED BY <3>3, <3>4
    <2>6. Rotated(recvQueue', k - 1, passed)
      BY <1>5, <2>3, <2>5
    <2> QED BY <1>2, <1>9, <2>3, <2>4, <2>6
  <1> QED BY <1>10, <1>11

LEMMA PutBackKeeps ==
    ASSUME SessionInv, PutBack, UNCHANGED <<world, master, kicked>>
    PROVE  SessionInv'
  <1> DEFINE h == Head(recvQueue)
  <1>1. /\ UNCHANGED <<closing, m_Session, net, incoming, alive, player, character, loading,
                    loginQuery, recentlyLogout, enumAllowed, logoutTimer, updater,
                    client, logins, logouts, received, call, handled, handledGame, passed, queued>>
        /\ updater \in {"world", "map"} /\ HasNext /\ recvQueue' = Append(Tail(recvQueue), h)
        /\ ~closing /\ recvQueue # <<>>
        /\ Status(h) = "LOGGEDIN" /\ player = "none" /\ ~recentlyLogout
        /\ firstDelayed' = IF firstDelayed = 0 THEN h.id ELSE firstDelayed
    BY DEF PutBack, HasNext, InLoop, DelayPacket, socketVars, playerVars, clientVars, traceVars
  <1>2. /\ FlightOrder /\ OldMeansRecent /\ LoginOK /\ OrderOK /\ DelayOK /\ SessionTypeOK
        /\ PacketsOK /\ SocketOK /\ WorldOK /\ CallOK
    BY <1>1 DEF SessionInv, FlowOK
  <1>3. recvQueue' \in Seq(Packets) /\ InFlight' = InFlight
    BY <1>1, <1>2, BackOfQueue
  <1>4. h \in Packets /\ h \in InFlight /\ h = Flight[1] /\ 1 \in 1..Len(Flight) /\ Len(Flight) \in Nat
        /\ InFlight \subseteq Packets
    BY <1>1, <1>2, FlightFacts
  <1>5. h.id \in 1..received /\ received \in Nat
    BY <1>2, <1>4 DEF PacketsOK, SessionTypeOK
  <1>6. updater = "world"
    BY <1>1, <1>2 DEF WorldOK
  <1>7. ~Old(h) /\ Game(h) /\ client = "game"
    <2>1. ~Left(h, client, logins)
      BY <1>1, <1>2, <1>4 DEF OldMeansRecent, Old
    <2>2. client \in Screens
      BY <1>2 DEF SessionTypeOK
    <2> QED BY <1>1, <2>1, <2>2 DEF Left, Game, Old, Screens
  <1>8. \A p \in InFlight : ~List(p)
    <2> SUFFICES ASSUME NEW i \in 1..Len(Flight) PROVE ~List(Flight[i])
      BY DEF InFlight
    <2>1. CASE i = 1
      BY <1>1, <1>4, <2>1, OpcodeFacts DEF List, Status
    <2>2. CASE i # 1
      <3>1. 1 < i
        BY <1>4, <2>2
      <3> QED BY <1>2, <1>4, <1>7, <3>1 DEF FlightOrder
    <2> QED BY <2>1, <2>2
  <1>9. \A p \in InFlight : p.opcode # "PLAYER_LOGIN"
    BY <1>8 DEF List
  <1>10. ~Asked /\ ~Asked'
    BY <1>3, <1>9 DEF Asked
  <1>11. SessionTypeOK'
    <2>1. firstDelayed' \in 0..received'
      <3>1. firstDelayed \in 0..received
        BY <1>2 DEF SessionTypeOK
      <3> QED BY <1>1, <1>5, <3>1
    <2> QED BY <1>1, <1>2, <1>3, <2>1 DEF SessionTypeOK
  <1>12. PacketsOK' /\ SocketOK' /\ WorldOK' /\ CallOK'
    BY <1>1, <1>2, <1>3 DEF PacketsOK, SocketOK, WorldOK, CallOK, OwnCharacter, HandlersInTheirThread
  <1>13. FlightOrder'
    <2>1. \A i \in 1..Len(Flight') : Flight'[i] \in InFlight'
      BY DEF InFlight
    <2>2. \A i \in 1..Len(Flight') : ~List(Flight'[i]) /\ Flight'[i].opcode # "PLAYER_LOGIN"
      BY <1>3, <1>8, <1>9, <2>1
    <2> QED BY <2>2 DEF FlightOrder
  <1>14. OldMeansRecent' /\ DelayOK'
    BY <1>1, <1>2, <1>3, <1>6, <1>7, <1>10 DEF OldMeansRecent, DelayOK, Old
  <1>15. LoginOK'
    BY <1>1, <1>2, <1>3, <1>10 DEF LoginOK, Old
  <1>16. OrderOK'
    <2>1. firstDelayed' # 0
      BY <1>1, <1>5
    <2>2. /\ Distinct(recvQueue')
          /\ \E k \in 1..Len(recvQueue') :
                recvQueue'[k].id = firstDelayed' /\ Rotated(recvQueue', k, passed)
      BY <1>1, PutBackRotates
    <2>3. net = "incoming" => \A i \in 1..Len(recvQueue') : recvQueue'[i].id < incoming.id
      <3> DEFINE n == Len(recvQueue)
      <3>1. /\ Len(recvQueue') = n
            /\ \A i \in 1..(n - 1) : recvQueue'[i] = recvQueue[i + 1] /\ i + 1 \in 1..n
            /\ recvQueue'[n] = recvQueue[1] /\ 1 \in 1..n
            /\ \A i \in 1..n : i = n \/ i \in 1..(n - 1)
        BY <1>1, <1>2, BackOfQueue
      <3>2. net = "incoming" => \A i \in 1..n : recvQueue[i].id < incoming.id
        BY <1>2 DEF OrderOK
      <3> QED BY <3>1, <3>2
    <2>4. \A p \in InFlight' : InTurn(p)'
      BY <1>1, <1>2, <1>3 DEF OrderOK, InTurn
    <2> QED BY <1>1, <2>1, <2>2, <2>3, <2>4 DEF OrderOK
  <1> QED BY <1>1, <1>11, <1>12, <1>13, <1>14, <1>15, <1>16 DEF SessionInv, FlowOK

(* The loop ends at the first packet that was put back, in the first place. *)
LEMMA BackInOrder ==
    ASSUME SessionInv, ~closing, updater = "world", ~HasNext
    PROVE  Sorted(recvQueue, passed)
  <1>1. SessionTypeOK /\ OrderOK /\ DelayOK
    BY DEF SessionInv, FlowOK
  <1>2. CASE firstDelayed = 0
    BY <1>1, <1>2 DEF OrderOK
  <1>3. CASE firstDelayed # 0
    <2>1. PICK k \in 1..Len(recvQueue) : recvQueue[k].id = firstDelayed /\ Rotated(recvQueue, k, passed)
      BY <1>1, <1>3 DEF OrderOK
    <2>2. recvQueue # <<>>
      BY <1>1, <2>1, SeqFacts DEF SessionTypeOK
    <2>3. Head(recvQueue) = recvQueue[1] /\ 1 \in 1..Len(recvQueue) /\ Len(recvQueue) \in Nat
      BY <1>1, <2>2, FlightFacts
    <2>4. Filter(Head(recvQueue))
      BY <1>1, <1>3 DEF DelayOK, Filter, WorldSessionFilter
    <2>5. recvQueue[1].id = firstDelayed
      BY <2>2, <2>3, <2>4 DEF HasNext, BeforeDelayed
    <2>6. k = 1
      BY <1>1, <2>1, <2>3, <2>5 DEF OrderOK, Distinct
    <2>7. \A i \in 1..Len(recvQueue) : ~(i < k)
      BY <2>3, <2>6
    <2> QED BY <2>1, <2>7 DEF Rotated, Turned, Sorted
  <1> QED BY <1>2, <1>3

LEMMA CallbacksKeep ==
    ASSUME SessionInv, ProcessQueryCallbacks, UNCHANGED <<world, master, kicked>>
    PROVE  SessionInv'
  <1>1. /\ UNCHANGED <<net, incoming, alive, recvQueue, client, logins, logouts, received, call, handled, handledGame, passed, queued>>
        /\ updater = "world" /\ ~HasNext /\ updater' = "worldEnd" /\ firstDelayed' = 0
        /\ UNCHANGED <<recentlyLogout, enumAllowed, logoutTimer>>
        /\ \/ loginQuery = "ready" /\ LoadCharacter
           \/ loginQuery = "ready" /\ LoadFails
           \/ KeepSocket /\ UNCHANGED <<player, character, loading, loginQuery>>
    BY DEF ProcessQueryCallbacks, LoadCharacter, LoadFails, playerVars, clientVars, traceVars
  <1>2. /\ SocketOK /\ WorldOK /\ PacketsOK /\ CallOK /\ SessionTypeOK /\ alive
        /\ closing \in BOOLEAN /\ m_Session \in BOOLEAN /\ received \in Nat /\ logins \in Nat
    BY <1>1 DEF SessionInv, SessionTypeOK, SocketOK
  <1>3. /\ closing' \in BOOLEAN /\ m_Session' \in BOOLEAN
        /\ closing => closing'
        /\ closing' /\ net # "closing" => ~m_Session'
    <2>1. CASE CloseSocket
      BY <1>1, <1>2, <2>1 DEF CloseSocket, SocketOK
    <2>2. CASE KeepSocket
      BY <1>1, <1>2, <2>2 DEF KeepSocket, SocketOK
    <2> QED BY <1>1, <2>1, <2>2 DEF LoadCharacter, LoadFails
  <1>4. Flight' = Flight /\ InFlight' = InFlight /\ (Asked' <=> Asked)
    BY <1>1, SameFlight
  <1>5. /\ player' \in Players /\ character' \in 0..logins /\ loading' \in BOOLEAN /\ loginQuery' \in Queries
    <2>1. player \in Players /\ character \in 0..logins /\ loading \in BOOLEAN /\ loginQuery \in Queries
      BY <1>2 DEF SessionTypeOK
    <2>2. CASE LoadCharacter
      BY <2>1, <2>2 DEF LoadCharacter, Players, Queries
    <2>3. CASE LoadFails
      <3>1. character' \in 0..logins
        BY <1>2, <2>3 DEF LoadFails
      <3> QED BY <2>1, <2>3, <3>1 DEF LoadFails, Queries
    <2>4. CASE UNCHANGED <<player, character, loading, loginQuery>>
      BY <2>1, <2>4
    <2> QED BY <1>1, <2>2, <2>3, <2>4
  <1>6. SessionTypeOK'
    <2>1. updater' \in Updaters /\ firstDelayed' \in 0..received'
      BY <1>1, <1>2 DEF Updaters
    <2> QED BY <1>1, <1>2, <1>3, <1>5, <2>1 DEF SessionTypeOK
  <1>7. PacketsOK' /\ CallOK'
    BY <1>1, <1>2, <1>4 DEF PacketsOK, CallOK, OwnCharacter, HandlersInTheirThread
  <1>8. SocketOK'
    <2>1. ~closing' => m_Session' = m_Session
      BY <1>1, <1>3 DEF LoadCharacter, LoadFails, CloseSocket, KeepSocket
    <2> QED BY <1>1, <1>2, <1>3, <2>1 DEF SocketOK
  <1>9. WorldOK'
    <2>1. client = "connecting" => player' = "none" /\ loginQuery' = "none"
      BY <1>1, <1>2 DEF WorldOK
    <2> QED BY <1>1, <1>2, <1>3, <2>1 DEF WorldOK
  <1>10. FlowOK'
    <2> SUFFICES ASSUME ~closing' PROVE FlightOrder' /\ OldMeansRecent' /\ LoginOK' /\ OrderOK' /\ DelayOK'
      BY DEF FlowOK
    <2>1. ~closing /\ FlightOrder /\ OldMeansRecent /\ LoginOK /\ OrderOK
      BY <1>3 DEF SessionInv, FlowOK
    <2>2. FlightOrder' /\ OldMeansRecent' /\ DelayOK'
      BY <1>1, <1>4, <2>1 DEF FlightOrder, OldMeansRecent, Old, DelayOK
    <2>3. OrderOK'
      <3>1. Sorted(recvQueue, passed)
        BY <1>1, <2>1, BackInOrder
      <3> QED BY <1>1, <1>4, <2>1, <3>1 DEF OrderOK, InTurn
    <2>4. LoginOK'
      <3>1. CASE loginQuery = "ready" /\ LoadCharacter
        <4>1. loading /\ player = "none" /\ ~Asked /\ character = logins /\ client = "game" /\ logouts = 0
              /\ ~logoutTimer
          BY <2>1, <3>1 DEF LoginOK
        <4> QED BY <1>1, <1>4, <2>1, <3>1, <4>1 DEF LoginOK, LoadCharacter, Old
      <3>2. CASE LoadFails
        BY <3>2 DEF LoadFails, CloseSocket
      <3>3. CASE UNCHANGED <<player, character, loading, loginQuery>>
        BY <1>1, <1>4, <2>1, <3>3 DEF LoginOK, Old
      <3> QED BY <1>1, <3>1, <3>2, <3>3
    <2> QED BY <2>2, <2>3, <2>4
  <1> QED BY <1>6, <1>7, <1>8, <1>9, <1>10 DEF SessionInv

LEMMA DeleteKeeps ==
    ASSUME SessionInv, EndUpdate, closing, UNCHANGED <<world, master, kicked>>
    PROVE  SessionInv'
  <1>1. /\ UNCHANGED <<closing, m_Session, net, incoming, client, logins, logouts, received, call, handled, handledGame, passed, queued,
                       firstDelayed>>
        /\ updater = "worldEnd" /\ updater' = "none"
        /\ alive' = FALSE /\ recvQueue' = <<>>
        /\ player' = "none" /\ character' = 0 /\ loading' = FALSE /\ loginQuery' = "none"
        /\ recentlyLogout' = FALSE /\ enumAllowed' = TRUE /\ logoutTimer' = FALSE
    BY DEF EndUpdate, DeleteSession, socketVars, traceVars
  <1>2. SessionTypeOK /\ PacketsOK /\ SocketOK /\ WorldOK /\ CallOK /\ logins \in Nat
    BY DEF SessionInv, SessionTypeOK
  <1>3. recvQueue' \in Seq(Packets) /\ Len(recvQueue') = 0
    <2> DEFINE S == Packets
    <2> HIDE DEF S
    <2>1. recvQueue' \in Seq(S) /\ Len(recvQueue') = 0
      BY <1>1
    <2> QED BY <2>1 DEF S
  <1>4. InFlight' \subseteq InFlight
    <2>1. CASE net = "incoming"
      <3>1. Flight' = Append(recvQueue', incoming)
        BY <1>1, <2>1 DEF Flight
      <3>2. Len(Append(recvQueue', incoming)) = Len(recvQueue') + 1
            /\ Append(recvQueue', incoming)[Len(recvQueue') + 1] = incoming
        BY <1>2, <1>3, SeqFacts DEF SessionTypeOK
      <3>3. Len(Flight') = 1 /\ Flight'[1] = incoming
        BY <1>3, <3>1, <3>2
      <3>4. InFlight' = {Flight'[i] : i \in 1..1}
        BY <3>3 DEF InFlight
      <3>5. InFlight' \subseteq {incoming}
        BY <3>3, <3>4
      <3> QED BY <1>2, <2>1, <3>5, FlightFacts
    <2>2. CASE net # "incoming"
      <3>1. Flight' = recvQueue'
        BY <1>1, <2>2 DEF Flight
      <3>2. InFlight' = {Flight'[i] : i \in 1..0}
        BY <1>3, <3>1 DEF InFlight
      <3> QED BY <3>2
    <2> QED BY <2>1, <2>2
  <1>5. SessionTypeOK'
    <2>1. /\ alive' \in BOOLEAN /\ loading' \in BOOLEAN /\ recentlyLogout' \in BOOLEAN
          /\ enumAllowed' \in BOOLEAN /\ logoutTimer' \in BOOLEAN
      BY <1>1
    <2>2. player' \in Players /\ loginQuery' \in Queries /\ updater' \in Updaters
      BY <1>1 DEF Players, Queries, Updaters
    <2>3. character' \in 0..logins'
      BY <1>1, <1>2
    <2> QED BY <1>1, <1>2, <1>3, <2>1, <2>2, <2>3 DEF SessionTypeOK
  <1>6. PacketsOK' /\ CallOK'
    BY <1>1, <1>2, <1>4 DEF PacketsOK, CallOK, OwnCharacter, HandlersInTheirThread
  <1>7. SocketOK' /\ WorldOK'
    BY <1>1, <1>2 DEF SocketOK, WorldOK
  <1> QED BY <1>1, <1>5, <1>6, <1>7 DEF SessionInv, FlowOK

LEMMA EndKeeps ==
    ASSUME SessionInv, EndUpdate, ~closing, UNCHANGED <<world, master, kicked>>
    PROVE  SessionInv'
  <1>1. /\ UNCHANGED <<closing, m_Session, net, incoming, alive, recvQueue, client, logins, received,
                       call, handled, handledGame, passed, queued, firstDelayed, loading, loginQuery>>
        /\ updater = "worldEnd" /\ updater' = "none"
        /\ Stay \/ (logoutTimer /\ LogoutPlayer)
    BY DEF EndUpdate, socketVars, Stay, playerVars, LogoutPlayer, traceVars
  <1>2. /\ FlightOrder /\ OldMeansRecent /\ LoginOK /\ OrderOK /\ DelayOK /\ SessionTypeOK
        /\ PacketsOK /\ SocketOK /\ WorldOK /\ CallOK /\ alive
    BY <1>1 DEF SessionInv, FlowOK, SocketOK
  <1>3. Flight' = Flight /\ InFlight' = InFlight /\ (Asked' <=> Asked)
    BY <1>1, SameFlight
  <1>4. firstDelayed = 0
    BY <1>1, <1>2 DEF DelayOK
  <1>5. updater' \in Updaters
    BY <1>1 DEF Updaters
  <1>6. PacketsOK' /\ CallOK'
    BY <1>1, <1>2, <1>3 DEF PacketsOK, CallOK, OwnCharacter, HandlersInTheirThread
  <1>7. SocketOK' /\ WorldOK'
    <2>1. player' = player \/ player' = "none"
      BY <1>1 DEF Stay, playerVars, LogoutPlayer
    <2>0. client = "connecting" => logouts' = logouts
      BY <1>1, <1>2 DEF Stay, LoginOK
    <2>2. world = "lastSession" => client = "connecting"
      BY <1>1, <1>2 DEF WorldOK
    <2> QED BY <1>1, <1>2, <2>0, <2>1, <2>2 DEF SocketOK, WorldOK
  <1>8. FlightOrder' /\ OrderOK' /\ DelayOK'
    BY <1>1, <1>2, <1>3, <1>4 DEF FlightOrder, Old, OrderOK, InTurn, DelayOK
  <1>9. SessionTypeOK' /\ OldMeansRecent' /\ LoginOK'
    <2>1. CASE Stay
      <3>1. UNCHANGED <<player, character, recentlyLogout, enumAllowed, logoutTimer, logouts>>
        BY <2>1 DEF Stay, playerVars
      <3>2. SessionTypeOK'
        BY <1>1, <1>2, <1>5, <3>1 DEF SessionTypeOK
      <3> QED BY <1>1, <1>2, <1>3, <3>1, <3>2 DEF OldMeansRecent, LoginOK, Old
    <2>2. CASE logoutTimer /\ LogoutPlayer
      <3>1. player # "none" /\ ~Asked /\ ~loading /\ client = "game" /\ logouts = 0
        BY <1>2, <2>2 DEF LoginOK
      <3>2. /\ logouts' = 1 /\ character' = 0 /\ player' = "none" /\ recentlyLogout' = TRUE
            /\ enumAllowed' = TRUE /\ logoutTimer' = FALSE
        BY <2>2, <3>1 DEF LogoutPlayer
      <3>3. /\ character' \in 0..logins /\ logouts' \in Nat
        BY <1>2, <3>2 DEF SessionTypeOK
      <3>4. player' \in Players /\ recentlyLogout' \in BOOLEAN /\ enumAllowed' \in BOOLEAN
            /\ logoutTimer' \in BOOLEAN
        BY <3>2 DEF Players
      <3>5. SessionTypeOK'
        BY <1>1, <1>2, <1>5, <3>3, <3>4 DEF SessionTypeOK
      <3> QED BY <1>1, <1>2, <1>3, <3>1, <3>2, <3>5 DEF OldMeansRecent, LoginOK, Old
    <2> QED BY <1>1, <2>1, <2>2
  <1> QED BY <1>6, <1>7, <1>8, <1>9 DEF SessionInv, FlowOK

LEMMA MapEndKeeps ==
    ASSUME SessionInv, EndMapUpdate, UNCHANGED <<world, master, kicked>>
    PROVE  SessionInv'
  <1>1. /\ UNCHANGED <<closing, m_Session, net, incoming, alive, recvQueue, character, loading,
                    loginQuery, recentlyLogout, enumAllowed, logoutTimer,
                    client, logins, logouts, received, call, handled, handledGame, passed, queued>>
        /\ updater = "map" /\ updater' = "none" /\ firstDelayed' = 0
        /\ player' \in {"world", "transfer"}
    BY DEF EndMapUpdate, MoveTo, socketVars, traceVars
  <1>2. /\ SessionTypeOK /\ PacketsOK /\ SocketOK /\ WorldOK /\ CallOK /\ alive
        /\ player = "world" /\ world = "map" /\ received \in Nat
    BY <1>1 DEF SessionInv, SocketOK, WorldOK, SessionTypeOK
  <1>3. Flight' = Flight /\ InFlight' = InFlight /\ (Asked' <=> Asked)
    BY <1>1, SameFlight
  <1>4. SessionTypeOK'
    <2>1. updater' \in Updaters /\ player' \in Players /\ firstDelayed' \in 0..received'
      BY <1>1, <1>2 DEF Updaters, Players
    <2> QED BY <1>1, <1>2, <2>1 DEF SessionTypeOK
  <1>5. PacketsOK' /\ CallOK'
    BY <1>1, <1>2, <1>3 DEF PacketsOK, CallOK, OwnCharacter, HandlersInTheirThread
  <1>6. SocketOK' /\ WorldOK'
    BY <1>1, <1>2 DEF SocketOK, WorldOK
  <1>7. FlowOK'
    <2> SUFFICES ASSUME ~closing PROVE FlightOrder' /\ OldMeansRecent' /\ LoginOK' /\ OrderOK' /\ DelayOK'
      BY <1>1 DEF FlowOK
    <2>1. FlightOrder /\ OldMeansRecent /\ LoginOK /\ OrderOK /\ DelayOK
      BY DEF SessionInv, FlowOK
    <2>2. firstDelayed = 0
      BY <1>1, <2>1 DEF DelayOK
    <2>3. FlightOrder' /\ OldMeansRecent' /\ OrderOK' /\ DelayOK'
      BY <1>1, <1>3, <2>1, <2>2 DEF FlightOrder, OldMeansRecent, Old, OrderOK, InTurn, DelayOK
    <2>4. ~Asked /\ ~loading
      BY <1>2, <2>1 DEF LoginOK
    <2>5. LoginOK'
      BY <1>1, <1>2, <1>3, <2>1, <2>4 DEF LoginOK, Old
    <2> QED BY <2>3, <2>5
  <1> QED BY <1>4, <1>5, <1>6, <1>7 DEF SessionInv

LEMMA UpdateKeeps ==
    ASSUME SessionInv, UpdateStep, UNCHANGED <<world, master, kicked>>
    PROVE  SessionInv' /\ InOrderStep
  <1>1. ASSUME handled' = handled PROVE InOrderStep
    BY <1>1 DEF InOrderStep
  <1>2. CASE PutBack
    BY <1>1, <1>2, PutBackKeeps DEF PutBack, traceVars
  <1>3. CASE IgnorePacket
    BY <1>1, <1>3, IgnoreKeeps DEF IgnorePacket, traceVars
  <1>4. CASE RefuseOpcode
    BY <1>1, <1>4, RefuseKeeps DEF RefuseOpcode, traceVars
  <1>5. CASE CallHandler
    BY <1>5, CallKeeps
  <1>6. CASE KickAtLogin \/ KickByWarden
    BY <1>6, KickKeeps
  <1>7. CASE ProcessQueryCallbacks
    BY <1>1, <1>7, CallbacksKeep DEF ProcessQueryCallbacks, traceVars
  <1>8. CASE EndUpdate
    <2>1. handled' = handled
      BY <1>8 DEF EndUpdate, traceVars
    <2> QED BY <1>1, <1>8, <2>1, DeleteKeeps, EndKeeps
  <1>9. CASE EndMapUpdate
    BY <1>1, <1>9, MapEndKeeps DEF EndMapUpdate, traceVars
  <1> QED BY <1>2, <1>3, <1>4, <1>5, <1>6, <1>7, <1>8, <1>9 DEF UpdateStep

-----------------------------------------------------------------------------
(* Every step *)

LEMMA WorldThreadKeeps ==
    ASSUME SessionInv, WorldThread
    PROVE  SessionInv' /\ InOrderStep
  <1>1. UNCHANGED master /\ WorldOK /\ (UNCHANGED kicked \/ KickAll)
    BY DEF WorldThread, SessionInv
  <1>2. ASSUME UNCHANGED sessionVars, WorldOK'
        PROVE  SessionInv' /\ InOrderStep
    <2>1. InOrderStep
      BY <1>2 DEF sessionVars, traceVars, InOrderStep
    <2> QED BY <1>2, <2>1, SessionKept
  <1>3. ASSUME UNCHANGED sessionVars PROVE UNCHANGED <<updater, player, closing, alive, queued, client, loginQuery, logouts>>
    BY <1>3 DEF sessionVars, socketVars, playerVars, updateVars, clientVars
  <1>4. ASSUME NEW who, BeginUpdate(who) PROVE InOrderStep
    BY <1>4 DEF BeginUpdate, traceVars, InOrderStep
  <1> SUFFICES ASSUME ~KickAll, UNCHANGED kicked PROVE SessionInv' /\ InOrderStep
    BY <1>1, KickAllKeeps DEF KickAll, traceVars, InOrderStep
  <1>5. CASE UpdateGameTime
    <2>1. UNCHANGED sessionVars /\ world = "time" /\ world' = "sessions"
      BY <1>5 DEF UpdateGameTime, GoTo
    <2>2. WorldOK'
      BY <1>1, <1>3, <2>1 DEF WorldOK, WorldStates
    <2> QED BY <1>2, <2>1, <2>2
  <1>6. CASE UpdateSessions
    <2>1. CASE GoTo("sessions", "session") /\ BeginUpdate("world")
      BY <1>1, <1>4, <2>1, BeginKeeps DEF GoTo
    <2>2. CASE GoTo("sessions", "maps") /\ ~alive /\ UNCHANGED sessionVars
      <3>1. WorldOK'
        BY <1>1, <1>3, <2>2 DEF WorldOK, WorldStates, GoTo
      <3> QED BY <1>2, <2>2, <3>1
    <2>3. CASE GoTo("session", "maps") /\ updater = "none" /\ UNCHANGED sessionVars
      <3>1. WorldOK'
        BY <1>1, <1>3, <2>3 DEF WorldOK, WorldStates, GoTo
      <3> QED BY <1>2, <2>3, <3>1
    <2> QED BY <1>6, <2>1, <2>2, <2>3 DEF UpdateSessions
  <1>7. CASE UpdateMaps
    <2>1. CASE GoTo("maps", "map") /\ player = "world" /\ BeginUpdate("map")
      BY <1>1, <1>4, <2>1, BeginKeeps DEF GoTo
    <2>2. CASE GoTo("maps", "cli") /\ player # "world" /\ UNCHANGED sessionVars
      <3>1. WorldOK'
        BY <1>1, <1>3, <2>2 DEF WorldOK, WorldStates, GoTo
      <3> QED BY <1>2, <2>2, <3>1
    <2>3. CASE GoTo("map", "cli") /\ updater = "none" /\ UNCHANGED sessionVars
      <3>1. WorldOK'
        BY <1>1, <1>3, <2>3 DEF WorldOK, WorldStates, GoTo
      <3> QED BY <1>2, <2>3, <3>1
    <2> QED BY <1>7, <2>1, <2>2, <2>3 DEF UpdateMaps
  <1>8. CASE UpdateSession
    BY <1>1, <1>8, UpdateKeeps DEF UpdateSession
  <1>9. CASE Commanding
    <2>1. UNCHANGED sessionVars /\ UNCHANGED world
      BY <1>9 DEF Commanding
    <2>2. WorldOK'
      BY <1>1, <1>3, <2>1 DEF WorldOK
    <2> QED BY <1>2, <2>1, <2>2
  <1>10. CASE EndTick \/ Loop
    <2>1. UNCHANGED sessionVars /\ world \in {"cli", "loop"} /\ world' \in {"loop", "kick", "time"}
      BY <1>10 DEF EndTick, Loop, GoTo
    <2>2. WorldOK'
      BY <1>1, <1>3, <2>1 DEF WorldOK, WorldStates
    <2> QED BY <1>2, <2>1, <2>2
  <1>11. CASE LastUpdate
    <2>1. CASE GoTo("last", "lastSession") /\ BeginUpdate("world")
      BY <1>1, <1>4, <2>1, BeginKeeps DEF GoTo
    <2>2. CASE GoTo("last", "network") /\ ~alive /\ UNCHANGED sessionVars
      <3>1. WorldOK'
        BY <1>1, <1>3, <2>2 DEF SessionInv, SocketOK, WorldOK, WorldStates, GoTo
      <3> QED BY <1>2, <2>2, <3>1
    <2>3. CASE GoTo("lastSession", "network") /\ updater = "none" /\ UNCHANGED sessionVars
      <3>1. WorldOK'
        BY <1>1, <1>3, <2>3 DEF WorldOK, WorldStates, GoTo
      <3> QED BY <1>2, <2>3, <3>1
    <2> QED BY <1>11, <2>1, <2>2, <2>3 DEF LastUpdate
  <1>12. CASE StopNetwork
    BY <1>1, <1>12, StopNetworkKeeps DEF StopNetwork, traceVars, InOrderStep
  <1> QED BY <1>5, <1>6, <1>7, <1>8, <1>9, <1>10, <1>11, <1>12 DEF WorldThread

LEMMA OthersKeep ==
    ASSUME SessionInv, scenario \in Scenarios, UNCHANGED <<world, master, kicked>>,
           \/ \E o \in scenario.opcodes : ReceivePacket(o)
           \/ HandleAuthSession \/ ClientSeesCharacters \/ ClientSeesLogout
           \/ HandleClose \/ NetworkStep \/ LoginQueryDone
    PROVE  SessionInv' /\ handled' = handled
  <1>1. CASE \E o \in scenario.opcodes : ReceivePacket(o)
    <2>1. scenario.opcodes \subseteq DOMAIN Opcodes
      <3>1. scenario \in ScenarioType
        BY ScenarioAssumption
      <3> QED BY <3>1 DEF ScenarioType
    <2> QED BY <1>1, <2>1, ReceiveKeeps DEF ReceivePacket, traceVars
  <1>2. CASE ClientSeesLogout
    BY <1>2, SeesLogoutKeeps DEF ClientSeesLogout, traceVars
  <1>3. CASE HandleClose
    BY <1>3, NetworkClosingKeeps DEF HandleClose, traceVars
  <1>4. CASE NetworkStep
    <2>1. CASE QueuePacket
      BY <2>1, QueueKeeps DEF QueuePacket
    <2>2. CASE RefusePacket
      BY <2>2, NetworkClosingKeeps DEF RefusePacket, traceVars
    <2>3. CASE HandleCloseSession
      BY <2>3, NetworkClosingKeeps DEF HandleCloseSession, traceVars
    <2> QED BY <1>4, <2>1, <2>2, <2>3 DEF NetworkStep
  <1>5. CASE LoginQueryDone
    BY <1>5, LoginQueryKeeps DEF LoginQueryDone, traceVars
  <1>6. CASE HandleAuthSession
    BY <1>6, AuthSessionKeeps DEF HandleAuthSession, traceVars
  <1>7. CASE ClientSeesCharacters
    BY <1>7, SeesCharactersKeeps DEF ClientSeesCharacters, traceVars
  <1> QED BY <1>1, <1>2, <1>3, <1>4, <1>5, <1>6, <1>7

LEMMA NextSession ==
    ASSUME SessionInv, scenario \in Scenarios, [Next]_vars
    PROVE  SessionInv' /\ InOrderStep
  <1>1. CASE WorldThread
    BY <1>1, WorldThreadKeeps
  <1>2. CASE ClientStep
    BY <1>2, OthersKeep DEF ClientStep, InOrderStep
  <1>3. CASE NetworkThread \/ DatabaseThread
    BY <1>3, OthersKeep DEF NetworkThread, DatabaseThread, InOrderStep
  <1>4. ASSUME UNCHANGED sessionVars, world' = world, kicked' = kicked,
               master' \in {"world", "ra", "soap", "databases", "returned"}
        PROVE  SessionInv' /\ InOrderStep
    <2>1. UNCHANGED <<updater, player, closing, alive, queued, client, loginQuery, logouts, handled>>
      BY <1>4 DEF sessionVars, socketVars, playerVars, updateVars, clientVars, traceVars
    <2>2. WorldOK'
      BY <1>4, <2>1 DEF SessionInv, WorldOK
    <2> QED BY <1>4, <2>1, <2>2, SessionKept DEF InOrderStep
  <1>5. master \in {"world", "ra", "soap", "databases", "returned"}
    BY DEF SessionInv, WorldOK
  <1>6. CASE MasterThread
    BY <1>4, <1>6 DEF MasterThread, WaitFor
  <1>7. CASE Operator
    BY <1>4, <1>5, <1>7 DEF Operator
  <1>8. CASE RaThread \/ RaSocketThread \/ SoapThread
    BY <1>4, <1>5, <1>8 DEF RaThread, RaSocketThread, SoapThread, Alone
  <1>9. CASE UNCHANGED vars
    BY <1>4, <1>5, <1>9 DEF vars
  <1> QED BY <1>1, <1>2, <1>3, <1>6, <1>7, <1>8, <1>9 DEF Next

LEMMA InitSession == Init => SessionInv
  <1> SUFFICES ASSUME Init PROVE SessionInv
    OBVIOUS
  <1>1. SessionInit /\ world = "time" /\ master = "world" /\ kicked = FALSE
    BY DEF Init
  <1>2. /\ closing = FALSE /\ net = "idle" /\ incoming = NoPacket
        /\ queued = FALSE /\ recvQueue = <<>>
        /\ alive = (client # "connecting") /\ m_Session = alive
        /\ \/ player = "none" /\ character = 0 /\ client \in {"connecting", "characters"} /\ logins = 0
           \/ player = "world" /\ character = 1 /\ client = "game" /\ logins = 1
        /\ loading = FALSE /\ loginQuery = "none"
        /\ recentlyLogout = FALSE /\ enumAllowed = TRUE /\ logoutTimer = FALSE
        /\ updater = "none" /\ firstDelayed = 0 /\ logouts = 0 /\ received = 0
        /\ call = NoCall /\ handled = {} /\ handledGame = {} /\ passed = {}
    BY <1>1 DEF SessionInit
  <1>3. recvQueue \in Seq(Packets) /\ Len(recvQueue) = 0
    <2> DEFINE S == Packets
    <2> HIDE DEF S
    <2>1. recvQueue \in Seq(S) /\ Len(recvQueue) = 0
      BY <1>2
    <2> QED BY <2>1 DEF S
  <1>4. SessionTypeOK
    <2>1. /\ closing \in BOOLEAN /\ m_Session \in BOOLEAN /\ alive \in BOOLEAN /\ loading \in BOOLEAN
          /\ recentlyLogout \in BOOLEAN /\ enumAllowed \in BOOLEAN /\ logoutTimer \in BOOLEAN
          /\ queued \in BOOLEAN
      BY <1>2
    <2>2. net \in NetStates /\ player \in Players /\ loginQuery \in Queries /\ updater \in Updaters
          /\ client \in Screens
      BY <1>2 DEF NetStates, Players, Queries, Updaters, Screens
    <2>3. /\ character \in 0..logins /\ firstDelayed \in 0..received /\ logins \in Nat /\ logouts \in Nat
          /\ received \in Nat /\ handled \subseteq 1..received /\ handledGame \subseteq handled
          /\ passed \subseteq 1..received
      BY <1>2
    <2>4. call \in Calls
      BY <1>2, OpcodeFacts DEF Calls, NoCall, Updaters, Players
    <2> QED BY <1>2, <1>3, <2>1, <2>2, <2>3, <2>4, NoPacketType DEF SessionTypeOK
  <1>5. Flight = recvQueue /\ InFlight = {} /\ ~Asked
    BY <1>2, <1>3 DEF Flight, InFlight, Asked
  <1>6. PacketsOK
    BY <1>2, <1>5 DEF PacketsOK, NoCall
  <1>7. SocketOK /\ WorldOK
    BY <1>1, <1>2 DEF SocketOK, WorldOK, WorldStates
  <1>8. CallOK
    BY <1>2, OpcodeFacts DEF CallOK, OwnCharacter, HandlersInTheirThread, NoCall
  <1>9. FlightOrder /\ OldMeansRecent /\ OrderOK /\ DelayOK
    BY <1>2, <1>3, <1>5 DEF FlightOrder, OldMeansRecent, OrderOK, Sorted, Distinct, DelayOK
  <1>10. LoginOK
    BY <1>2, <1>5 DEF LoginOK
  <1> QED BY <1>4, <1>6, <1>7, <1>8, <1>9, <1>10 DEF SessionInv, FlowOK

-----------------------------------------------------------------------------
(* Every behaviour *)

LEMMA AlwaysSession == Spec => [](ConsoleInv /\ SessionInv)
  <1>1. Init => ConsoleInv /\ SessionInv
    BY InitConsoles, InitSession
  <1>2. ConsoleInv /\ SessionInv /\ [Next]_vars => (ConsoleInv /\ SessionInv)'
    BY NextConsoles, NextSession DEF ConsoleInv
  <1> QED BY <1>1, <1>2, PTL DEF Spec

(* Every variable of the session, the consoles and the world thread keeps   *)
(* its type; the shutdown timer does not pass below zero.                   *)
THEOREM WorldTypes == Spec => []TypeOK
  <1>1. ConsoleInv /\ SessionInv => TypeOK
    BY DEF ConsoleInv, SessionInv, WorldOK, TypeOK
  <1> QED BY <1>1, AlwaysSession, PTL

(* Whoever closes the connection, and wherever the network thread is, a     *)
(* WorldSocket that can still queue a packet points to a session that       *)
(* UpdateSessions has not deleted.                                          *)
THEOREM PointerGoesFirst == Spec => []SessionPointer
  <1>1. SessionInv => SessionPointer
    BY DEF SessionInv, SocketOK, SessionPointer
  <1> QED BY <1>1, AlwaysSession, PTL

(* Over any number of logins and logouts, a packet about a character        *)
(* reaches a handler only for that character.                               *)
THEOREM CharactersNotMixed == Spec => []OwnCharacter
  <1>1. SessionInv => OwnCharacter
    BY DEF SessionInv, CallOK
  <1> QED BY <1>1, AlwaysSession, PTL

(* The two packet filters share the handlers out: a map's thread calls only *)
(* thread-safe ones and only for a player in the map, the world thread the  *)
(* others.                                                                  *)
THEOREM ThreadsKeptApart == Spec => []HandlersInTheirThread
  <1>1. SessionInv => HandlersInTheirThread
    BY DEF SessionInv, CallOK
  <1> QED BY <1>1, AlwaysSession, PTL

(* Whatever the stop of the world finds, no player is left when its thread  *)
(* ends: KickAll and one more UpdateSessions delete every session that was  *)
(* in m_sessions, and one that comes out of addSessQueue only then has not  *)
(* got as far as a character.                                               *)
THEOREM NoPlayerLeft == Spec => []EveryoneLoggedOut
  <1>1. SessionInv => EveryoneLoggedOut
    BY DEF SessionInv, WorldOK, SocketOK, EveryoneLoggedOut
  <1> QED BY <1>1, AlwaysSession, PTL

(* The packets that Update puts back until the login has come through are   *)
(* handled in the order in which they were sent all the same.  They are     *)
(* overtaken by packets that need no character, and by one that arrives     *)
(* while they are being put back, and by no others.                         *)
THEOREM HandledAsSent == Spec => InOrder
  <1>1. ConsoleInv /\ SessionInv /\ [Next]_vars => [InOrderStep]_vars
    BY NextSession DEF ConsoleInv
  <1> QED BY <1>1, AlwaysSession, PTL DEF Spec, InOrder, InOrderStep
=============================================================================
