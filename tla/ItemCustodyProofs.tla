------------------------- MODULE ItemCustodyProofs -------------------------
(***************************************************************************)
(* Theorems about ItemCustody, for any players, items, trade slots, backpack *)
(* sizes, amounts, mails, queue lengths, scenarios and crashes.             *)
(*                                                                         *)
(*   - what is accepted is what is traded (AcceptedAsOffered);             *)
(*   - Inv, the invariant behind the others: the tables are well-formed    *)
(*     after every prefix of the queue, and memory agrees with the tables  *)
(*     the whole queue leaves.  Every step keeps it that does not go       *)
(*     astray (StepInv); ItemGoldProofs has the theorems that follow.      *)
(*                                                                         *)
(* The lemmas come in this order: trades; induction, transactions and      *)
(* queues; what each statement does; Inv and its first steps (the database *)
(* worker, logins, crashes, trades in progress); auctions; mails; the end  *)
(* of a trade; expired mails; what Inv implies.                            *)
(***************************************************************************)
EXTENDS ItemCustody, TLAPS, FiniteSetTheorems, WellFoundedInduction

(* Who trades does so with another player, who trades with them:             *)
(* HandleInitiateTradeOpcode creates the two TradeData together, and         *)
(* TradeCancel and HandleAcceptTradeOpcode delete them together.             *)
Paired(t) ==
    /\ t \in [Players -> TradeData \cup {None}]
    /\ \A p \in Players : t[p] # None =>
          /\ t[p].trader # p
          /\ t[t[p].trader] # None
          /\ t[t[p].trader].trader = p

(* An acceptance that lasts from t to u is for offers that do not change.    *)
Binds(t, u) ==
    \A p \in Players :
        t[p] # None /\ t[p].accepted /\ u[p] # None /\ u[p].accepted
        => /\ u[p].items = t[p].items /\ u[p].money = t[p].money
           /\ u[t[p].trader].items = t[t[p].trader].items
           /\ u[t[p].trader].money = t[t[p].trader].money

(* A side of a trade has the type of TradeData.                              *)
LEMMA SideType ==
    ASSUME Paired(m_trade), NEW p \in Players, m_trade[p] # None
    PROVE  /\ m_trade[p] \in TradeData
           /\ m_trade[p].trader \in Players
           /\ m_trade[m_trade[p].trader] \in TradeData
  <1>1. m_trade[p] \in TradeData
    BY DEF Paired
  <1>2. m_trade[p].trader \in Players
    BY <1>1 DEF TradeData
  <1> QED BY <1>1, <1>2 DEF Paired

(* The steps that only set or clear acceptances, of one or of both sides     *)
LEMMA OnlyAccepted ==
    ASSUME Paired(m_trade), NEW t, t \in [Players -> TradeData \cup {None}],
           \A p \in Players :
              /\ t[p] = None <=> m_trade[p] = None
              /\ m_trade[p] # None => /\ t[p].trader = m_trade[p].trader
                                      /\ t[p].items = m_trade[p].items
                                      /\ t[p].money = m_trade[p].money
    PROVE  Paired(t) /\ Binds(m_trade, t)
  <1>1. \A p \in Players : m_trade[p] # None => m_trade[p].trader \in Players
    BY SideType
  <1> QED BY <1>1 DEF Paired, Binds

(* Acceptances set or cleared, of one side or of both                        *)
LEMMA AcceptedChange ==
    ASSUME Paired(m_trade), NEW p \in Players, m_trade[p] # None, NEW q \in {p, m_trade[p].trader},
           NEW b \in BOOLEAN, NEW c \in BOOLEAN,
           m_trade' = [m_trade EXCEPT ![p].accepted = b, ![q].accepted = c]
    PROVE  /\ m_trade' \in [Players -> TradeData \cup {None}]
           /\ \A r \in Players :
                /\ m_trade'[r] = None <=> m_trade[r] = None
                /\ m_trade[r] # None => /\ m_trade'[r].trader = m_trade[r].trader
                                        /\ m_trade'[r].items = m_trade[r].items
                                        /\ m_trade'[r].money = m_trade[r].money
  <1>1. /\ m_trade[p] \in TradeData /\ q \in Players /\ m_trade[q] # None
        /\ m_trade[q] \in TradeData
    BY SideType DEF Paired
  <1>2. \A x \in TradeData, y \in BOOLEAN :
           LET z == [x EXCEPT !.accepted = y]
           IN  z \in TradeData /\ z.trader = x.trader /\ z.items = x.items /\ z.money = x.money
    BY DEF TradeData
  <1>3. m_trade \in [Players -> TradeData \cup {None}]
    BY DEF Paired
  <1> DEFINE u == [m_trade EXCEPT ![p].accepted = b]
             v == [u EXCEPT ![q].accepted = c]
  <1>4. /\ u \in [Players -> TradeData \cup {None}] /\ u[p] \in TradeData /\ u[q] \in TradeData
        /\ u[p].trader = m_trade[p].trader
        /\ u[p].items = m_trade[p].items /\ u[p].money = m_trade[p].money
        /\ \A r \in Players \ {p} : u[r] = m_trade[r]
    BY <1>1, <1>2, <1>3
  <1> HIDE DEF u
  <1>5. /\ v \in [Players -> TradeData \cup {None}] /\ v[q] \in TradeData
        /\ v[q].trader = u[q].trader
        /\ v[q].items = u[q].items /\ v[q].money = u[q].money
        /\ \A r \in Players \ {q} : v[r] = u[r]
    BY <1>1, <1>2, <1>4
  <1> HIDE DEF v
  <1>6. \A r \in Players :
            /\ v[r] = None <=> m_trade[r] = None
            /\ m_trade[r] # None => /\ v[r].trader = m_trade[r].trader
                                    /\ v[r].items = m_trade[r].items
                                    /\ v[r].money = m_trade[r].money
    BY <1>1, <1>4, <1>5, NullAssumption
  <1>7. m_trade' = v
    BY DEF u, v
  <1> QED BY <1>5, <1>6, <1>7, ZenonT(60)

(* A side p of a trade changes its offer: both acceptances end.              *)
LEMMA OfferChangedKeeps ==
    ASSUME Paired(m_trade), NEW p \in Players, m_trade[p] # None,
           NEW t \in TradeData, t.trader = m_trade[p].trader, OfferChanged(p, t)
    PROVE  Paired(m_trade') /\ Binds(m_trade, m_trade')
  <1> DEFINE q == m_trade[p].trader
             u == m_trade'
  <1>1. q \in Players /\ q # p /\ m_trade[q] # None /\ m_trade[q].trader = p
        /\ m_trade[q] \in TradeData
    BY SideType DEF Paired
  <1>2. /\ u \in [Players -> TradeData \cup {None}]
        /\ u[p] = [t EXCEPT !.accepted = FALSE]
        /\ u[q] = [m_trade[q] EXCEPT !.accepted = FALSE]
        /\ \A r \in Players \ {p, q} : u[r] = m_trade[r]
    BY <1>1 DEF OfferChanged, Trader, Paired, TradeData
  <1>3. /\ u[p] \in TradeData /\ u[p].trader = q /\ ~u[p].accepted
        /\ u[q] \in TradeData /\ u[q].trader = p /\ ~u[q].accepted
    BY <1>1, <1>2 DEF TradeData
  <1>4. u[p] # None /\ u[q] # None
    BY <1>3, NullAssumption
  <1>5. \A r \in Players \ {p, q} : m_trade[r] # None =>
          m_trade[r].trader \in Players \ {p, q}
    BY <1>1, SideType DEF Paired
  <1> HIDE DEF q, u
  <1>6. Paired(u)
    <2> SUFFICES ASSUME NEW r \in Players, u[r] # None
                 PROVE  /\ u[r].trader # r
                        /\ u[u[r].trader] # None
                        /\ u[u[r].trader].trader = r
      BY <1>2 DEF Paired
    <2>1. CASE r \in {p, q}
      BY <1>1, <1>3, <1>4, <2>1
    <2>2. CASE r \in Players \ {p, q}
      BY <1>2, <1>5, <2>2 DEF Paired
    <2> QED BY <2>1, <2>2
  <1>7. Binds(m_trade, u)
    BY <1>2, <1>3, <1>5 DEF Binds
  <1> QED BY <1>6, <1>7 DEF u

(* A trade is ended for both sides.                                          *)
LEMMA NoTradesKeeps ==
    ASSUME Paired(m_trade), NEW p \in Players, m_trade[p] # None
    PROVE  Paired(NoTrades(p)) /\ Binds(m_trade, NoTrades(p))
  <1> DEFINE q == m_trade[p].trader
             u == NoTrades(p)
  <1>1. q \in Players /\ q # p /\ m_trade[q] # None /\ m_trade[q].trader = p
    BY SideType DEF Paired
  <1>2. /\ u \in [Players -> TradeData \cup {None}]
        /\ u[p] = None /\ u[q] = None
        /\ \A r \in Players \ {p, q} : u[r] = m_trade[r]
    BY <1>1 DEF NoTrades, Trader, Paired
  <1>3. \A r \in Players \ {p, q} : m_trade[r] # None =>
          m_trade[r].trader \in Players \ {p, q}
    BY <1>1, SideType DEF Paired
  <1> HIDE DEF q, u
  <1>4. Paired(u)
    BY <1>2, <1>3 DEF Paired
  <1>5. Binds(m_trade, u)
    BY <1>2, <1>3 DEF Binds
  <1> QED BY <1>4, <1>5 DEF u

(* A new trade touches only players without one.                             *)
LEMMA InitiateKeeps ==
    ASSUME Paired(m_trade), NEW p \in Players, NEW q \in Players, HandleInitiateTrade(p, q)
    PROVE  Paired(m_trade') /\ Binds(m_trade, m_trade')
  <1> DEFINE u == m_trade'
  <1>1. p # q /\ m_trade[p] = None /\ m_trade[q] = None
    BY DEF HandleInitiateTrade
  <1>2. NewTrade(q) \in TradeData /\ NewTrade(p) \in TradeData
        /\ NewTrade(q).trader = q /\ NewTrade(p).trader = p
    BY DEF NewTrade, TradeData
  <1>3. /\ u \in [Players -> TradeData \cup {None}]
        /\ u[p] = NewTrade(q) /\ u[q] = NewTrade(p)
        /\ \A r \in Players \ {p, q} : u[r] = m_trade[r]
    BY <1>1, <1>2 DEF HandleInitiateTrade, Paired
  <1>4. u[p] # None /\ u[q] # None
    BY <1>2, <1>3, NullAssumption
  <1>5. \A r \in Players : m_trade[r] # None =>
          r \notin {p, q} /\ m_trade[r].trader \in Players \ {p, q}
    BY <1>1, SideType DEF Paired
  <1> HIDE DEF u
  <1>6. Paired(u)
    BY <1>1, <1>2, <1>3, <1>4, <1>5 DEF Paired
  <1>7. Binds(m_trade, u)
    BY <1>3, <1>5 DEF Binds
  <1> QED BY <1>6, <1>7 DEF u

(* Every step keeps the trades paired and the acceptances bound.             *)
LEMMA StepKeeps ==
    ASSUME Paired(m_trade), [Next]_vars
    PROVE  Paired(m_trade') /\ Binds(m_trade, m_trade')
  <1> DEFINE Good == Paired(m_trade') /\ Binds(m_trade, m_trade')
  <1>0. ASSUME m_trade' = m_trade PROVE Good
    BY <1>0, OnlyAccepted DEF Paired
  <1> SUFFICES ASSUME m_trade' # m_trade PROVE Good
    BY <1>0
  <1>1. ASSUME NEW p \in Players, NEW q \in Players, HandleInitiateTrade(p, q) PROVE Good
    BY <1>1, InitiateKeeps
  <1>2. ASSUME NEW p \in Players, m_trade[p] # None, NEW s \in TradeSlots,
               NEW i \in Items \cup {None}, OfferChanged(p, [m_trade[p] EXCEPT !.items[s] = i])
        PROVE  Good
    <2> DEFINE t == [m_trade[p] EXCEPT !.items[s] = i]
    <2>1. t \in TradeData /\ t.trader = m_trade[p].trader
      BY <1>2, SideType DEF TradeData
    <2> QED BY <1>2, <2>1, OfferChangedKeeps
  <1>3. ASSUME NEW p \in Players, m_trade[p] # None, NEW g \in Nat,
               OfferChanged(p, [m_trade[p] EXCEPT !.money = g])
        PROVE  Good
    <2> DEFINE t == [m_trade[p] EXCEPT !.money = g]
    <2>1. t \in TradeData /\ t.trader = m_trade[p].trader
      BY <1>3, SideType DEF TradeData
    <2> QED BY <1>3, <2>1, OfferChangedKeeps
  <1>4. ASSUME NEW p \in Players, m_trade[p] # None, NEW q \in {p, m_trade[p].trader},
               NEW b \in BOOLEAN, NEW c \in BOOLEAN,
               m_trade' = [m_trade EXCEPT ![p].accepted = b, ![q].accepted = c]
        PROVE  Good
    BY <1>4, AcceptedChange, OnlyAccepted
  <1>5. ASSUME NEW p \in Players, m_trade[p] # None, m_trade' = NoTrades(p) PROVE Good
    BY <1>5, NoTradesKeeps
  <1>6. CASE Crash
    <2>1. m_trade' = [p \in Players |-> None]
      BY <1>6 DEF Crash
    <2> QED BY <2>1 DEF Paired, Binds
  <1>7. ASSUME NEW p \in Players, m_trade[p] # None, NEW b \in BOOLEAN,
               m_trade' = [m_trade EXCEPT ![p].accepted = b]
        PROVE  Good
    <2>1. m_trade' = [m_trade EXCEPT ![p].accepted = b, ![p].accepted = b]
      BY <1>7, SideType DEF Paired, TradeData
    <2> QED BY <1>4, <1>7, <2>1
  <1>8. ASSUME NEW p \in Players, NEW s \in TradeSlots,
               \/ HandleClearTradeItem(p, s)
               \/ \E i \in Items : HandleSetTradeItem(p, s, i)
        PROVE  Good
    BY <1>2, <1>8 DEF HandleClearTradeItem, HandleSetTradeItem
  <1>9. ASSUME NEW p \in Players, NEW g \in Amounts, HandleSetTradeGold(p, g) PROVE Good
    BY <1>3, <1>9, CustodyAssumption DEF HandleSetTradeGold
  <1>10. ASSUME NEW p \in Players, HandleUnacceptTrade(p) \/ AcceptFirst(p) PROVE Good
    BY <1>7, <1>10 DEF HandleUnacceptTrade, AcceptFirst
  <1>11. ASSUME NEW p \in Players, AcceptRefused(p) \/ AcceptNoSpace(p) PROVE Good
    <2>1. AcceptRefused(p) => Refused(p) \in {p, m_trade[p].trader}
      BY DEF AcceptRefused, Refused, Trader
    <2>2. CASE AcceptRefused(p)
      BY <1>4, <2>1, <2>2 DEF AcceptRefused
    <2>3. CASE AcceptNoSpace(p)
      BY <1>4, <2>3 DEF AcceptNoSpace, AcceptsSecond, Trader
    <2> QED BY <1>11, <2>2, <2>3
  <1>12. ASSUME NEW p \in Players,
                HandleCancelTrade(p) \/ AcceptCompletes(p) \/ LogoutPlayer(p)
         PROVE  Good
    BY <1>5, <1>12 DEF HandleCancelTrade, AcceptCompletes, AcceptsSecond, LogoutPlayer
  <1>13. ASSUME NEW p \in Players, NEW i \in Items,
                \/ \E b \in Buyouts : HandleAuctionSellItem(p, i, b)
                \/ \E g \in Bids : PlaceBid(p, i, g) \/ Buyout(p, i, g)
                \/ HandleAuctionRemoveItem(p, i)
         PROVE  FALSE
    <2>1. ASSUME NEW b \in Buyouts, HandleAuctionSellItem(p, i, b) PROVE FALSE
      BY <2>1 DEF HandleAuctionSellItem, AuctionUnchanged
    <2>2. ASSUME NEW g \in Bids, PlaceBid(p, i, g) PROVE FALSE
      BY <2>2 DEF PlaceBid, AuctionUnchanged
    <2>3. ASSUME NEW g \in Bids, Buyout(p, i, g) PROVE FALSE
      BY <2>3 DEF Buyout, AuctionUnchanged
    <2>4. ~HandleAuctionRemoveItem(p, i)
      BY DEF HandleAuctionRemoveItem, AuctionUnchanged
    <2> QED BY <1>13, <2>1, <2>2, <2>3, <2>4
  <1>14. ASSUME NEW p \in Players, NEW m \in MailIds,
                \/ HandleMailDelete(p, m) \/ HandleMailMarkAsRead(p, m)
                \/ HandleMailTakeMoney(p, m) \/ HandleMailReturnToSender(p, m)
                \/ \E i \in Items : HandleMailTakeItem(p, m, i)
         PROVE  FALSE
    <2>1. ~HandleMailDelete(p, m) /\ ~HandleMailMarkAsRead(p, m)
      BY DEF HandleMailDelete, HandleMailMarkAsRead, MailUnchanged
    <2>2. ~HandleMailTakeMoney(p, m)
      BY DEF HandleMailTakeMoney, MailUnchanged
    <2>3. ~HandleMailReturnToSender(p, m)
      BY DEF HandleMailReturnToSender, MailUnchanged
    <2>4. ASSUME NEW i \in Items, HandleMailTakeItem(p, m, i) PROVE FALSE
      BY <2>4 DEF HandleMailTakeItem, MailUnchanged
    <2> QED BY <1>14, <2>1, <2>2, <2>3, <2>4
  <1>15. ASSUME DbExecute \/ LoadAuctions \/ UNCHANGED vars PROVE FALSE
    BY <1>15 DEF DbExecute, LoadAuctions, memory, vars
  <1>16. ASSUME NEW i \in Items, AuctionExpires(i) \/ DeleteExpiredAuctionsAtStartup(i)
         PROVE  FALSE
    BY <1>16 DEF AuctionExpires, DeleteExpiredAuctionsAtStartup, AuctionUnchanged
  <1>17. ASSUME NEW p \in Players, NEW to \in Players, NEW T \in SUBSET Items,
                NEW g \in scenario.sums, NEW cod \in Amounts, HandleSendMail(p, to, T, g, cod)
         PROVE  FALSE
    BY <1>17 DEF HandleSendMail, MailUnchanged
  <1>18. ASSUME NEW p \in Players,
                HandleGetMailList(p) \/ PlayerSaves(p) \/ HandlePlayerLogin(p)
         PROVE  FALSE
    BY <1>18 DEF HandleGetMailList, PlayerSaves, HandlePlayerLogin, MailUnchanged, memory
  <1>19. ASSUME NEW m \in MailIds, ReturnOrDeleteOldMails(m) PROVE FALSE
    BY <1>19 DEF ReturnOrDeleteOldMails, memory
  <1> QED BY <1>1, <1>6, <1>8, <1>9, <1>10, <1>11, <1>12, <1>13, <1>14, <1>15, <1>16, <1>17,
             <1>18, <1>19 DEF Next, Handlers

(* What a player accepted is what is traded: while an acceptance lasts,      *)
(* neither window changes, whatever either side, the auctions, the mail, the *)
(* database or a crash does in between (TradeData::SetItem and SetMoney take *)
(* back both acceptances).                                                   *)
THEOREM AcceptedAsOffered == Spec => AcceptanceBinds
  <1> DEFINE J == Paired(m_trade)
             B == Binds(m_trade, m_trade')
  <1>1. Init => J
    BY DEF Init, Paired
  <1>2. J /\ [Next]_vars => J' /\ B
    BY StepKeeps
  <1>3. AcceptanceBinds <=> [][B]_vars
    <2>1. B <=> \A p \in Players :
                  /\ m_trade[p] # None /\ m_trade[p].accepted
                  /\ m_trade'[p] # None /\ m_trade'[p].accepted
                  => /\ m_trade'[p].items = m_trade[p].items /\ m_trade'[p].money = m_trade[p].money
                     /\ m_trade'[Trader(p)].items = m_trade[Trader(p)].items
                     /\ m_trade'[Trader(p)].money = m_trade[Trader(p)].money
      BY DEF Binds, Trader
    <2> HIDE DEF B
    <2> QED BY <2>1, PTL DEF AcceptanceBinds
  <1> HIDE DEF J, B
  <1>4. J /\ [Next]_vars => J' /\ [B]_vars
    BY <1>2
  <1> QED BY <1>1, <1>3, <1>4, PTL DEF Spec

-----------------------------------------------------------------------------
(* Induction, and what a transaction and a queue of them do to the tables *)

(* Induction over the naturals, for a set in place of a predicate *)
LEMMA SetInduction ==
    ASSUME NEW T, 0 \in T, \A n \in Nat : n \in T => n + 1 \in T
    PROVE  \A n \in Nat : n \in T
  <1> DEFINE Less == {p \in Nat \X Nat : p[1] < p[2]}
             Out == {n \in Nat : n \notin T}
  <1> SUFFICES ASSUME Out # {} PROVE FALSE
    OBVIOUS
  <1>1. IsWellFoundedOn(Less, Nat)
    BY NatLessThanWellFounded DEF OpToRel
  <1>2. \A x, y \in Nat : x < y => <<x, y>> \in Less
    OBVIOUS
  <1>3. Out \subseteq Nat
    OBVIOUS
  <1> HIDE DEF Less
  <1>4. PICK m \in Out : \A y \in Out : ~(<<y, m>> \in Less)
    BY <1>1, <1>3, WFMin
  <1>5. m \in Nat /\ m # 0 /\ m \notin T
    BY <1>4
  <1>6. m - 1 \in Nat /\ (m - 1) + 1 = m /\ m - 1 < m
    BY <1>5
  <1>7. m - 1 \notin T
    BY <1>5, <1>6
  <1>8. m - 1 \in Out
    BY <1>6, <1>7
  <1> QED BY <1>2, <1>4, <1>5, <1>6, <1>8

(* The statements of a transaction, one after the other *)
IsRun(run, d, t, n) ==
    run = [k \in 0..n |-> IF k = 0 THEN d ELSE Run(run[k - 1], t[k])]

LEMMA RunExists ==
    ASSUME NEW d, NEW t
    PROVE  \A n \in Nat : \E run : IsRun(run, d, t, n)
  <1> DEFINE T == {n \in Nat : \E run : IsRun(run, d, t, n)}
  <1>1. 0 \in T
    <2> DEFINE r == [k \in 0..0 |-> d]
    <2>1. r = [k \in 0..0 |-> IF k = 0 THEN d ELSE Run(r[k - 1], t[k])]
      OBVIOUS
    <2> QED BY <2>1 DEF IsRun
  <1>2. ASSUME NEW n \in Nat, n \in T PROVE n + 1 \in T
    <2>1. PICK run : IsRun(run, d, t, n)
      BY <1>2
    <2> DEFINE r == [k \in 0..(n + 1) |-> IF k = n + 1 THEN Run(run[n], t[n + 1]) ELSE run[k]]
    <2>2. ASSUME NEW k \in 0..(n + 1) PROVE r[k] = IF k = 0 THEN d ELSE Run(r[k - 1], t[k])
      <3>1. CASE k = n + 1
        BY <3>1
      <3>2. CASE k # n + 1
        <4>1. k \in 0..n /\ r[k] = run[k] /\ (k # 0 => r[k - 1] = run[k - 1])
          BY <3>2
        <4>2. run[k] = IF k = 0 THEN d ELSE Run(run[k - 1], t[k])
          BY <2>1, <4>1 DEF IsRun
        <4> QED BY <4>1, <4>2
      <3> QED BY <3>1, <3>2
    <2>3. r = [k \in 0..(n + 1) |-> IF k = 0 THEN d ELSE Run(r[k - 1], t[k])]
      BY <2>2
    <2>4. IsRun(r, d, t, n + 1)
      BY <2>3 DEF IsRun
    <2> QED BY <2>4
  <1> HIDE DEF T
  <1>3. \A n \in Nat : n \in T
    BY <1>1, <1>2, SetInduction
  <1> QED BY <1>3 DEF T

LEMMA RunAllDef ==
    ASSUME NEW d, NEW t, Len(t) \in Nat
    PROVE  \E run : IsRun(run, d, t, Len(t)) /\ RunAll(d, t) = run[Len(t)]
  <1> DEFINE P(f) == IsRun(f, d, t, Len(t))
             c == CHOOSE f : P(f)
  <1>1. \E f : P(f)
    BY RunExists
  <1>2. P(c)
    BY <1>1
  <1>3. RunAll(d, t) = c[Len(t)]
    BY DEF RunAll, IsRun
  <1> QED BY <1>2, <1>3

(* Two runs of the same statements agree. *)
LEMMA RunsAgree ==
    ASSUME NEW d, NEW t, NEW u, NEW n \in Nat, NEW m \in Nat, n <= m,
           \A k \in 1..n : u[k] = t[k],
           NEW r, IsRun(r, d, t, n), NEW s, IsRun(s, d, u, m)
    PROVE  \A k \in 0..n : s[k] = r[k]
  <1> DEFINE T == {k \in Nat : k <= n => s[k] = r[k]}
  <1>1. 0 \in T
    BY DEF IsRun
  <1>2. ASSUME NEW k \in Nat, k \in T PROVE k + 1 \in T
    <2> SUFFICES ASSUME k + 1 <= n PROVE s[k + 1] = r[k + 1]
      OBVIOUS
    <2>1. k + 1 \in 0..n /\ k + 1 \in 0..m /\ k + 1 # 0 /\ (k + 1) - 1 = k /\ s[k] = r[k]
      BY <1>2
    <2>2. s[k + 1] = Run(s[k], u[k + 1]) /\ r[k + 1] = Run(r[k], t[k + 1])
      BY <2>1 DEF IsRun
    <2> QED BY <2>1, <2>2
  <1> HIDE DEF T
  <1>3. \A k \in Nat : k \in T
    BY <1>1, <1>2, SetInduction
  <1> QED BY <1>3 DEF T

LEMMA RunAllNone == \A d : RunAll(d, <<>>) = d
  <1> SUFFICES ASSUME NEW d PROVE RunAll(d, <<>>) = d
    OBVIOUS
  <1>1. Len(<<>>) = 0
    OBVIOUS
  <1>2. PICK run : IsRun(run, d, <<>>, 0) /\ RunAll(d, <<>>) = run[0]
    BY <1>1, RunAllDef
  <1> QED BY <1>2 DEF IsRun

LEMMA RunAllOne == ASSUME NEW d, NEW s PROVE RunAll(d, <<s>>) = Run(d, s)
  <1> DEFINE t == <<s>>
  <1>1. Len(t) = 1 /\ t[1] = s
    OBVIOUS
  <1> HIDE DEF t
  <1>2. PICK run : IsRun(run, d, t, 1) /\ RunAll(d, t) = run[1]
    BY <1>1, RunAllDef
  <1>3. run[0] = d /\ run[1] = Run(run[1 - 1], t[1])
    BY <1>2 DEF IsRun
  <1> QED BY <1>1, <1>2, <1>3 DEF t

(* A transaction in two parts *)
LEMMA RunAllConcat ==
    ASSUME NEW X, NEW t \in Seq(X), NEW u \in Seq(X), NEW d
    PROVE  RunAll(d, t \o u) = RunAll(RunAll(d, t), u)
  <1> DEFINE n == Len(t)
             l == Len(u)
             v == t \o u
             e == RunAll(d, t)
  <1>1. n \in Nat /\ l \in Nat /\ Len(v) = n + l
    OBVIOUS
  <1>2. (\A k \in 1..n : v[k] = t[k]) /\ (\A k \in 1..l : v[n + k] = u[k])
    OBVIOUS
  <1> HIDE DEF n, l, v
  <1>3. PICK r : IsRun(r, d, t, n) /\ e = r[n]
    BY <1>1, RunAllDef DEF n
  <1> HIDE DEF e
  <1>4. PICK s : IsRun(s, e, u, l) /\ RunAll(e, u) = s[l]
    BY <1>1, RunAllDef DEF l
  <1>5. PICK w : IsRun(w, d, v, n + l) /\ RunAll(d, v) = w[n + l]
    BY <1>1, RunAllDef
  <1>6. w[n] = e
    <2>1. n + l \in Nat /\ n <= n + l
      BY <1>1
    <2>2. \A k \in 0..n : w[k] = r[k]
      BY <1>1, <1>2, <1>3, <1>5, <2>1, RunsAgree
    <2> QED BY <1>1, <1>3, <2>2
  <1> DEFINE T == {k \in Nat : k <= l => w[n + k] = s[k]}
  <1>7. 0 \in T
    BY <1>1, <1>4, <1>6 DEF IsRun
  <1>8. ASSUME NEW k \in Nat, k \in T PROVE k + 1 \in T
    <2> SUFFICES ASSUME k + 1 <= l PROVE w[n + (k + 1)] = s[k + 1]
      OBVIOUS
    <2>1. /\ k + 1 \in 1..l /\ k + 1 \in 0..l /\ k + 1 # 0 /\ (k + 1) - 1 = k /\ w[n + k] = s[k]
          /\ n + (k + 1) \in 0..(n + l) /\ n + (k + 1) # 0 /\ (n + (k + 1)) - 1 = n + k
      BY <1>1, <1>8
    <2>2. w[n + (k + 1)] = Run(w[n + k], v[n + (k + 1)]) /\ s[k + 1] = Run(s[k], u[k + 1])
      BY <1>4, <1>5, <2>1 DEF IsRun
    <2> QED BY <1>2, <2>1, <2>2
  <1> HIDE DEF T
  <1>9. \A k \in Nat : k \in T
    BY <1>7, <1>8, SetInduction
  <1>10. w[n + l] = s[l]
    BY <1>1, <1>9 DEF T
  <1> QED BY <1>4, <1>5, <1>10 DEF v, e

(* The types of the statements *)
DraftMail == [row : MailRow, items : SUBSET Items]
SentMails == UNION {[D -> DraftMail] : D \in SUBSET MailIds}

Statement ==
    [stmt : {"REP_INVENTORY_ITEM"}, items : SUBSET Items, player : Players]
    \cup [stmt : {"DEL_CHAR_INVENTORY_BY_ITEM", "DEL_ITEM_INSTANCE"}, items : SUBSET Items]
    \cup [stmt : {"UPD_CHAR_MONEY"}, player : Players, money : Nat]
    \cup [stmt : {"INS_AUCTION"}, item : Items, row : Auction]
    \cup [stmt : {"UPD_AUCTION_BID"}, item : Items, bidder : Players, bid : Nat]
    \cup [stmt : {"DEL_AUCTION", "DEL_MAIL_ITEM"}, item : Items]
    \cup [stmt : {"INS_MAIL", "INS_MAIL_ITEM"}, mails : SentMails]
    \cup [stmt : {"UPD_MAIL"}, id : MailIds, row : MailRow]
    \cup [stmt : {"UPD_MAIL_RETURNED"}, id : MailIds, row : {r \in MailRow : r.sender # None}]
    \cup [stmt : {"DEL_MAIL_BY_ID", "DEL_MAIL_ITEM_BY_ID"}, ids : SUBSET MailIds]

LEMMA CarrierType ==
    ASSUME NEW mails \in SentMails, NEW i \in Carried(mails)
    PROVE  Carrier(mails, i) \in DOMAIN mails /\ i \in mails[Carrier(mails, i)].items
  BY DEF Carried, Carrier

LEMMA SentMailsType ==
    ASSUME NEW mails \in SentMails
    PROVE  /\ DOMAIN mails \subseteq MailIds
           /\ \A m \in DOMAIN mails : mails[m] \in DraftMail
  BY DEF SentMails

LEMMA PutType ==
    ASSUME NEW A, NEW B, NEW f \in [A -> B], NEW S, NEW v \in B
    PROVE  /\ Put(f, S, v) \in [A -> B]
           /\ \A x \in A : Put(f, S, v)[x] = IF x \in S THEN v ELSE f[x]
  BY DEF Put

(* What each statement does to the tables *)
LEMMA TablesFields ==
    ASSUME NEW d \in Tables
    PROVE  /\ d.character_inventory \in [Items -> Players \cup {None}]
           /\ d.money \in [Players -> Nat]
           /\ d.auctionhouse \in [Items -> Auction \cup {None}]
           /\ d.mail \in [MailIds -> MailRow \cup {None}]
           /\ d.mail_items \in [Items -> MailIds \cup {None}]
           /\ d.item_instance \in SUBSET Items
  BY DEF Tables

LEMMA RunInventory ==
    ASSUME NEW d \in Tables, NEW S \in SUBSET Items, NEW p \in Players, NEW e,
           e = Run(d, [stmt |-> "REP_INVENTORY_ITEM", items |-> S, player |-> p])
    PROVE  /\ e \in Tables
           /\ e.character_inventory = Put(d.character_inventory, S, p)
           /\ e.item_instance = d.item_instance \cup S
           /\ e.money = d.money /\ e.auctionhouse = d.auctionhouse
           /\ e.mail = d.mail /\ e.mail_items = d.mail_items
  <1>1. Put(d.character_inventory, S, p) \in [Items -> Players \cup {None}]
    BY TablesFields DEF Put
  <1>2. e = [d EXCEPT !.character_inventory = Put(d.character_inventory, S, p),
                      !.item_instance = d.item_instance \cup S]
    BY DEF Run
  <1> QED BY <1>1, <1>2 DEF Tables

LEMMA RunOfInventory ==
    ASSUME NEW d \in Tables, NEW S \in SUBSET Items, NEW e,
           e = Run(d, [stmt |-> "DEL_CHAR_INVENTORY_BY_ITEM", items |-> S])
    PROVE  /\ e \in Tables
           /\ e.character_inventory = Put(d.character_inventory, S, None)
           /\ e.item_instance = d.item_instance
           /\ e.money = d.money /\ e.auctionhouse = d.auctionhouse
           /\ e.mail = d.mail /\ e.mail_items = d.mail_items
  <1>1. Put(d.character_inventory, S, None) \in [Items -> Players \cup {None}]
    BY TablesFields DEF Put
  <1>2. e = [d EXCEPT !.character_inventory = Put(d.character_inventory, S, None)]
    BY DEF Run
  <1> QED BY <1>1, <1>2 DEF Tables

LEMMA RunInstance ==
    ASSUME NEW d \in Tables, NEW S \in SUBSET Items, NEW e,
           e = Run(d, [stmt |-> "DEL_ITEM_INSTANCE", items |-> S])
    PROVE  /\ e \in Tables
           /\ e.item_instance = d.item_instance \ S
           /\ e.character_inventory = d.character_inventory
           /\ e.money = d.money /\ e.auctionhouse = d.auctionhouse
           /\ e.mail = d.mail /\ e.mail_items = d.mail_items
  <1>1. e = [d EXCEPT !.item_instance = d.item_instance \ S]
    BY DEF Run
  <1> QED BY <1>1 DEF Tables

LEMMA RunMoney ==
    ASSUME NEW d \in Tables, NEW p \in Players, NEW g \in Nat, NEW e,
           e = Run(d, [stmt |-> "UPD_CHAR_MONEY", player |-> p, money |-> g])
    PROVE  /\ e \in Tables
           /\ e.money = Put(d.money, {p}, g)
           /\ e.character_inventory = d.character_inventory
           /\ e.item_instance = d.item_instance /\ e.auctionhouse = d.auctionhouse
           /\ e.mail = d.mail /\ e.mail_items = d.mail_items
  <1>1. Put(d.money, {p}, g) \in [Players -> Nat]
    BY TablesFields DEF Put
  <1>2. e = [d EXCEPT !.money = Put(d.money, {p}, g)]
    BY DEF Run
  <1> QED BY <1>1, <1>2 DEF Tables

LEMMA RunAuction ==
    ASSUME NEW d \in Tables, NEW i \in Items, NEW a \in Auction, NEW e,
           e = Run(d, [stmt |-> "INS_AUCTION", item |-> i, row |-> a])
    PROVE  /\ e \in Tables
           /\ e.auctionhouse = Put(d.auctionhouse, {i}, a)
           /\ e.character_inventory = d.character_inventory
           /\ e.item_instance = d.item_instance /\ e.money = d.money
           /\ e.mail = d.mail /\ e.mail_items = d.mail_items
  <1>1. Put(d.auctionhouse, {i}, a) \in [Items -> Auction \cup {None}]
    BY TablesFields DEF Put
  <1>2. e = [d EXCEPT !.auctionhouse = Put(d.auctionhouse, {i}, a)]
    BY DEF Run
  <1> QED BY <1>1, <1>2 DEF Tables

LEMMA RunNoAuction ==
    ASSUME NEW d \in Tables, NEW i \in Items, NEW e,
           e = Run(d, [stmt |-> "DEL_AUCTION", item |-> i])
    PROVE  /\ e \in Tables
           /\ e.auctionhouse = Put(d.auctionhouse, {i}, None)
           /\ e.character_inventory = d.character_inventory
           /\ e.item_instance = d.item_instance /\ e.money = d.money
           /\ e.mail = d.mail /\ e.mail_items = d.mail_items
  <1>1. Put(d.auctionhouse, {i}, None) \in [Items -> Auction \cup {None}]
    BY TablesFields DEF Put
  <1>2. e = [d EXCEPT !.auctionhouse = Put(d.auctionhouse, {i}, None)]
    BY DEF Run
  <1> QED BY <1>1, <1>2 DEF Tables

LEMMA BidType ==
    ASSUME NEW a \in Auction, NEW p \in Players \cup {None}, NEW g \in Nat
    PROVE  [a EXCEPT !.bidder = p, !.bid = g] \in Auction
  BY DEF Auction

AuctionRow(d, e, i, v) ==
    /\ e.auctionhouse = Put(d.auctionhouse, {i}, v)
    /\ e.character_inventory = d.character_inventory
    /\ e.item_instance = d.item_instance /\ e.money = d.money
    /\ e.mail = d.mail /\ e.mail_items = d.mail_items

BidStmt(i, p, g) == [stmt |-> "UPD_AUCTION_BID", item |-> i, bidder |-> p, bid |-> g]
Bidden(a, p, g) == [a EXCEPT !.bidder = p, !.bid = g]

LEMMA RunBid ==
    ASSUME NEW d \in Tables, NEW i \in Items, NEW p \in Players, NEW g \in Nat, NEW e,
           d.auctionhouse[i] # None, e = Run(d, BidStmt(i, p, g))
    PROVE  e \in Tables /\ AuctionRow(d, e, i, Bidden(d.auctionhouse[i], p, g))
  <1> DEFINE a == d.auctionhouse[i]
             b == [a EXCEPT !.bidder = p, !.bid = g]
  <1>0. a \in Auction
    BY TablesFields
  <1>1. a \in Auction /\ b \in Auction
    BY <1>0, BidType
  <1>2. Put(d.auctionhouse, {i}, b) \in [Items -> Auction \cup {None}]
    BY <1>1, TablesFields DEF Put
  <1>3. e = [d EXCEPT !.auctionhouse[i].bidder = p, !.auctionhouse[i].bid = g]
    BY DEF Run, BidStmt
  <1>4. e = [d EXCEPT !.auctionhouse = [d.auctionhouse EXCEPT ![i] = b]]
    BY <1>1, <1>3 DEF Tables, Auction
  <1>5. [d.auctionhouse EXCEPT ![i] = b] = Put(d.auctionhouse, {i}, b)
    BY TablesFields DEF Put
  <1>6. b = Bidden(d.auctionhouse[i], p, g)
    BY DEF Bidden
  <1> QED BY <1>2, <1>4, <1>5, <1>6, ZenonT(60) DEF Tables, AuctionRow

LEMMA RunMails ==
    ASSUME NEW d \in Tables, NEW mails \in SentMails, NEW e,
           e = Run(d, [stmt |-> "INS_MAIL", mails |-> mails])
    PROVE  /\ e \in Tables
           /\ e.mail = [m \in MailIds |-> IF m \in DOMAIN mails THEN mails[m].row ELSE d.mail[m]]
           /\ e.character_inventory = d.character_inventory
           /\ e.item_instance = d.item_instance /\ e.money = d.money
           /\ e.auctionhouse = d.auctionhouse /\ e.mail_items = d.mail_items
  <1> DEFINE f == [m \in MailIds |-> IF m \in DOMAIN mails THEN mails[m].row ELSE d.mail[m]]
  <1>1. \A m \in DOMAIN mails : mails[m].row \in MailRow
    BY SentMailsType DEF DraftMail
  <1>2. f \in [MailIds -> MailRow \cup {None}]
    BY <1>1, TablesFields
  <1>3. e = [d EXCEPT !.mail = f]
    BY DEF Run
  <1> HIDE DEF f
  <1>4. e \in Tables /\ e.mail = f
    BY <1>2, <1>3 DEF Tables
  <1>5. /\ e.character_inventory = d.character_inventory
        /\ e.item_instance = d.item_instance /\ e.money = d.money
        /\ e.auctionhouse = d.auctionhouse /\ e.mail_items = d.mail_items
    BY <1>3 DEF Tables
  <1> QED BY <1>4, <1>5 DEF f

LEMMA RunMailItems ==
    ASSUME NEW d \in Tables, NEW mails \in SentMails, NEW e,
           e = Run(d, [stmt |-> "INS_MAIL_ITEM", mails |-> mails])
    PROVE  /\ e \in Tables
           /\ e.mail_items = [i \in Items |-> IF i \in Carried(mails) THEN Carrier(mails, i)
                                              ELSE d.mail_items[i]]
           /\ e.character_inventory = d.character_inventory
           /\ e.item_instance = d.item_instance /\ e.money = d.money
           /\ e.auctionhouse = d.auctionhouse /\ e.mail = d.mail
  <1> DEFINE f == [i \in Items |-> IF i \in Carried(mails) THEN Carrier(mails, i)
                                   ELSE d.mail_items[i]]
  <1>1. \A i \in Carried(mails) : Carrier(mails, i) \in MailIds
    BY SentMailsType, CarrierType
  <1>2. f \in [Items -> MailIds \cup {None}]
    BY <1>1, TablesFields
  <1>3. e = [d EXCEPT !.mail_items = f]
    BY DEF Run
  <1> HIDE DEF f
  <1>4. e \in Tables /\ e.mail_items = f
    BY <1>2, <1>3 DEF Tables
  <1>5. /\ e.character_inventory = d.character_inventory
        /\ e.item_instance = d.item_instance /\ e.money = d.money
        /\ e.auctionhouse = d.auctionhouse /\ e.mail = d.mail
    BY <1>3 DEF Tables
  <1> QED BY <1>4, <1>5 DEF f

LEMMA MailRowType ==
    ASSUME NEW r \in MailRow, NEW g \in Nat, NEW c \in Nat
    PROVE  /\ [r EXCEPT !.money = g, !.COD = c] \in MailRow
           /\ [r EXCEPT !.money = g, !.COD = c].money = g
           /\ [r EXCEPT !.money = g, !.COD = c].COD = c
           /\ [r EXCEPT !.money = g, !.COD = c].sender = r.sender
           /\ [r EXCEPT !.money = g, !.COD = c].receiver = r.receiver
           /\ [r EXCEPT !.money = g, !.COD = c].returned = r.returned
  BY DEF MailRow

MailStmt(m, r) == [stmt |-> "UPD_MAIL", id |-> m, row |-> r]
Updated(a, r) == [a EXCEPT !.money = r.money, !.COD = r.COD]
MailChanged(d, e, m, v) ==
    /\ e.mail = Put(d.mail, {m}, v)
    /\ e.character_inventory = d.character_inventory
    /\ e.item_instance = d.item_instance /\ e.money = d.money
    /\ e.auctionhouse = d.auctionhouse /\ e.mail_items = d.mail_items

LEMMA RunMailChange ==
    ASSUME NEW d \in Tables, NEW m \in MailIds, NEW r \in MailRow, NEW e,
           d.mail[m] # None, e = Run(d, MailStmt(m, r))
    PROVE  e \in Tables /\ MailChanged(d, e, m, Updated(d.mail[m], r))
  <1> DEFINE a == d.mail[m]
             b == [a EXCEPT !.money = r.money, !.COD = r.COD]
  <1>0. a \in MailRow /\ r.money \in Nat /\ r.COD \in Nat
    BY TablesFields DEF MailRow
  <1>1. a \in MailRow /\ b \in MailRow
    BY <1>0, MailRowType
  <1>2. Put(d.mail, {m}, b) \in [MailIds -> MailRow \cup {None}]
    BY <1>1, TablesFields DEF Put
  <1>3. e = [d EXCEPT !.mail[m].money = r.money, !.mail[m].COD = r.COD]
    BY DEF Run, MailStmt
  <1>4. e = [d EXCEPT !.mail = [d.mail EXCEPT ![m] = b]]
    BY <1>1, <1>3 DEF Tables, MailRow
  <1>5. [d.mail EXCEPT ![m] = b] = Put(d.mail, {m}, b)
    BY TablesFields DEF Put
  <1> HIDE DEF b
  <1>6. e \in Tables /\ e.mail = Put(d.mail, {m}, b)
    BY <1>2, <1>4, <1>5 DEF Tables
  <1>7. /\ e.character_inventory = d.character_inventory
        /\ e.item_instance = d.item_instance /\ e.money = d.money
        /\ e.auctionhouse = d.auctionhouse /\ e.mail_items = d.mail_items
    BY <1>4 DEF Tables
  <1>8. b = Updated(d.mail[m], r)
    BY DEF b, Updated
  <1> QED BY <1>6, <1>7, <1>8 DEF MailChanged

LEMMA MailReplaced ==
    ASSUME NEW d \in Tables, NEW f \in [MailIds -> MailRow \cup {None}], NEW e,
           e = [d EXCEPT !.mail = f]
    PROVE  /\ e \in Tables /\ e.mail = f
           /\ e.character_inventory = d.character_inventory
           /\ e.item_instance = d.item_instance /\ e.money = d.money
           /\ e.auctionhouse = d.auctionhouse /\ e.mail_items = d.mail_items
  BY DEF Tables

ReturnedRow(a, r) == [a EXCEPT !.sender = r.receiver, !.receiver = r.sender,
                               !.COD = 0, !.returned = TRUE]

LEMMA ReturnedType ==
    ASSUME NEW a \in MailRow, NEW r \in MailRow, r.sender \in Players
    PROVE  /\ ReturnedRow(a, r) \in MailRow
           /\ ReturnedRow(a, r).receiver = r.sender /\ ReturnedRow(a, r).COD = 0
  <1>1. r.receiver \in Players
    BY DEF MailRow
  <1> QED BY <1>1 DEF ReturnedRow, MailRow

LEMMA RunMailReturned ==
    ASSUME NEW d \in Tables, NEW m \in MailIds, NEW r \in MailRow, NEW e,
           d.mail[m] # None, r.sender \in Players,
           e = Run(d, [stmt |-> "UPD_MAIL_RETURNED", id |-> m, row |-> r])
    PROVE  /\ e \in Tables
           /\ e.mail = Put(d.mail, {m}, ReturnedRow(d.mail[m], r))
           /\ e.character_inventory = d.character_inventory
           /\ e.item_instance = d.item_instance /\ e.money = d.money
           /\ e.auctionhouse = d.auctionhouse /\ e.mail_items = d.mail_items
  <1> DEFINE b == ReturnedRow(d.mail[m], r)
  <1>1. d.mail[m] \in MailRow
    BY TablesFields
  <1>2. b \in MailRow
    BY <1>1, ReturnedType
  <1>4. e = [d EXCEPT !.mail[m] = b]
    BY DEF Run, ReturnedRow
  <1> HIDE DEF b
  <1>3. Put(d.mail, {m}, b) \in [MailIds -> MailRow \cup {None}]
    BY <1>2, TablesFields DEF Put
  <1>5. e = [d EXCEPT !.mail = [d.mail EXCEPT ![m] = b]]
    BY <1>4 DEF Tables
  <1>6. [d.mail EXCEPT ![m] = b] = Put(d.mail, {m}, b)
    BY TablesFields DEF Put
  <1>7. e = [d EXCEPT !.mail = Put(d.mail, {m}, b)]
    BY <1>5, <1>6
  <1>8. /\ e \in Tables /\ e.mail = Put(d.mail, {m}, b)
        /\ e.character_inventory = d.character_inventory
        /\ e.item_instance = d.item_instance /\ e.money = d.money
        /\ e.auctionhouse = d.auctionhouse /\ e.mail_items = d.mail_items
    BY <1>3, <1>7, MailReplaced
  <1> QED BY <1>8 DEF b

LEMMA RunNoMail ==
    ASSUME NEW d \in Tables, NEW D \in SUBSET MailIds, NEW e,
           e = Run(d, [stmt |-> "DEL_MAIL_BY_ID", ids |-> D])
    PROVE  /\ e \in Tables
           /\ e.mail = Put(d.mail, D, None)
           /\ e.character_inventory = d.character_inventory
           /\ e.item_instance = d.item_instance /\ e.money = d.money
           /\ e.auctionhouse = d.auctionhouse /\ e.mail_items = d.mail_items
  <1>1. Put(d.mail, D, None) \in [MailIds -> MailRow \cup {None}]
    BY TablesFields DEF Put
  <1>2. e = [d EXCEPT !.mail = Put(d.mail, D, None)]
    BY DEF Run
  <1> QED BY <1>1, <1>2 DEF Tables

LEMMA RunNoMailItem ==
    ASSUME NEW d \in Tables, NEW i \in Items, NEW e,
           e = Run(d, [stmt |-> "DEL_MAIL_ITEM", item |-> i])
    PROVE  /\ e \in Tables
           /\ e.mail_items = Put(d.mail_items, {i}, None)
           /\ e.character_inventory = d.character_inventory
           /\ e.item_instance = d.item_instance /\ e.money = d.money
           /\ e.auctionhouse = d.auctionhouse /\ e.mail = d.mail
  <1>1. Put(d.mail_items, {i}, None) \in [Items -> MailIds \cup {None}]
    BY TablesFields DEF Put
  <1>2. e = [d EXCEPT !.mail_items = Put(d.mail_items, {i}, None)]
    BY DEF Run
  <1> QED BY <1>1, <1>2 DEF Tables

LEMMA RunNoMailItems ==
    ASSUME NEW d \in Tables, NEW D \in SUBSET MailIds, NEW e,
           e = Run(d, [stmt |-> "DEL_MAIL_ITEM_BY_ID", ids |-> D])
    PROVE  /\ e \in Tables
           /\ e.mail_items = [i \in Items |-> IF d.mail_items[i] \in D THEN None ELSE d.mail_items[i]]
           /\ e.character_inventory = d.character_inventory
           /\ e.item_instance = d.item_instance /\ e.money = d.money
           /\ e.auctionhouse = d.auctionhouse /\ e.mail = d.mail
  <1> DEFINE f == [i \in Items |-> IF d.mail_items[i] \in D THEN None ELSE d.mail_items[i]]
  <1>1. f \in [Items -> MailIds \cup {None}]
    BY TablesFields
  <1>2. e = [d EXCEPT !.mail_items = f]
    BY DEF Run
  <1> HIDE DEF f
  <1>3. e \in Tables /\ e.mail_items = f
    BY <1>1, <1>2 DEF Tables
  <1>4. /\ e.character_inventory = d.character_inventory
        /\ e.item_instance = d.item_instance /\ e.money = d.money
        /\ e.auctionhouse = d.auctionhouse /\ e.mail = d.mail
    BY <1>2 DEF Tables
  <1> QED BY <1>3, <1>4 DEF f

-----------------------------------------------------------------------------
(* The tables after each queued transaction *)

IsAfter(g, d, q, n) ==
    g = [k \in 0..n |-> IF k = 0 THEN d ELSE RunAll(g[k - 1], q[k].stmts)]

LEMMA AfterExists ==
    ASSUME NEW d, NEW q
    PROVE  \A n \in Nat : \E g : IsAfter(g, d, q, n)
  <1> DEFINE T == {n \in Nat : \E g : IsAfter(g, d, q, n)}
  <1>1. 0 \in T
    <2> DEFINE r == [k \in 0..0 |-> d]
    <2>1. r = [k \in 0..0 |-> IF k = 0 THEN d ELSE RunAll(r[k - 1], q[k].stmts)]
      OBVIOUS
    <2> QED BY <2>1 DEF IsAfter
  <1>2. ASSUME NEW n \in Nat, n \in T PROVE n + 1 \in T
    <2>1. PICK g : IsAfter(g, d, q, n)
      BY <1>2
    <2> DEFINE r == [k \in 0..(n + 1) |-> IF k = n + 1 THEN RunAll(g[n], q[n + 1].stmts) ELSE g[k]]
    <2>2. ASSUME NEW k \in 0..(n + 1) PROVE r[k] = IF k = 0 THEN d ELSE RunAll(r[k - 1], q[k].stmts)
      <3>1. CASE k = n + 1
        BY <3>1
      <3>2. CASE k # n + 1
        <4>1. k \in 0..n /\ r[k] = g[k] /\ (k # 0 => r[k - 1] = g[k - 1])
          BY <3>2
        <4>2. g[k] = IF k = 0 THEN d ELSE RunAll(g[k - 1], q[k].stmts)
          BY <2>1, <4>1 DEF IsAfter
        <4> QED BY <4>1, <4>2
      <3> QED BY <3>1, <3>2
    <2>3. r = [k \in 0..(n + 1) |-> IF k = 0 THEN d ELSE RunAll(r[k - 1], q[k].stmts)]
      BY <2>2
    <2>4. IsAfter(r, d, q, n + 1)
      BY <2>3 DEF IsAfter
    <2> QED BY <2>4
  <1> HIDE DEF T
  <1>3. \A n \in Nat : n \in T
    BY <1>1, <1>2, SetInduction
  <1> QED BY <1>3 DEF T

LEMMA AfterDef ==
    ASSUME NEW d, NEW q, Len(q) \in Nat
    PROVE  /\ After(d, q)[0] = d
           /\ \A k \in 1..Len(q) : After(d, q)[k] = RunAll(After(d, q)[k - 1], q[k].stmts)
  <1> DEFINE P(f) == IsAfter(f, d, q, Len(q))
             c == CHOOSE f : P(f)
  <1>1. \E f : P(f)
    BY AfterExists
  <1>2. P(c)
    BY <1>1
  <1>3. After(d, q) = c
    BY DEF After, IsAfter
  <1> HIDE DEF c
  <1>4. c = [k \in 0..Len(q) |-> IF k = 0 THEN d ELSE RunAll(c[k - 1], q[k].stmts)]
    BY <1>2 DEF IsAfter
  <1>5. c[0] = d /\ \A k \in 1..Len(q) : c[k] = RunAll(c[k - 1], q[k].stmts)
    BY <1>4
  <1> QED BY <1>3, <1>5

(* One more transaction *)
LEMMA AfterAppend ==
    ASSUME NEW X, NEW q \in Seq(X), NEW x \in X, NEW d
    PROVE  /\ \A k \in 0..Len(q) : After(d, Append(q, x))[k] = After(d, q)[k]
           /\ After(d, Append(q, x))[Len(q) + 1] = RunAll(After(d, q)[Len(q)], x.stmts)
  <1> DEFINE n == Len(q)
             u == Append(q, x)
             g == After(d, q)
             h == After(d, u)
  <1>1. n \in Nat /\ Len(u) = n + 1 /\ u[n + 1] = x /\ \A k \in 1..n : u[k] = q[k]
    OBVIOUS
  <1> HIDE DEF n, u
  <1>2. g[0] = d /\ \A k \in 1..n : g[k] = RunAll(g[k - 1], q[k].stmts)
    BY <1>1, AfterDef DEF n
  <1>3. h[0] = d /\ \A k \in 1..(n + 1) : h[k] = RunAll(h[k - 1], u[k].stmts)
    <2>1. Len(u) \in Nat
      BY <1>1
    <2> QED BY <1>1, <2>1, AfterDef
  <1> HIDE DEF g, h
  <1> DEFINE T == {k \in Nat : k <= n => h[k] = g[k]}
  <1>4. 0 \in T
    BY <1>2, <1>3
  <1>5. ASSUME NEW k \in Nat, k \in T PROVE k + 1 \in T
    <2> SUFFICES ASSUME k + 1 <= n PROVE h[k + 1] = g[k + 1]
      OBVIOUS
    <2>1. k + 1 \in 1..n /\ k + 1 \in 1..(n + 1) /\ (k + 1) - 1 = k /\ h[k] = g[k]
      BY <1>1, <1>5
    <2>2. h[k + 1] = RunAll(h[k], u[k + 1].stmts) /\ g[k + 1] = RunAll(g[k], q[k + 1].stmts)
      BY <1>2, <1>3, <2>1
    <2> QED BY <1>1, <2>1, <2>2
  <1> HIDE DEF T
  <1>6. \A k \in Nat : k \in T
    BY <1>4, <1>5, SetInduction
  <1>7. \A k \in 0..n : h[k] = g[k]
    BY <1>1, <1>6 DEF T
  <1>8. n + 1 \in 1..(n + 1) /\ (n + 1) - 1 = n /\ n \in 0..n
    BY <1>1
  <1>9. h[n + 1] = RunAll(h[n], u[n + 1].stmts)
    BY <1>3, <1>8
  <1> QED BY <1>1, <1>7, <1>8, <1>9 DEF g, h, n, u

(* The first transaction executed *)
LEMMA AfterTail ==
    ASSUME NEW X, NEW q \in Seq(X), q # <<>>, NEW d, NEW e, e = RunAll(d, Head(q).stmts)
    PROVE  /\ Len(Tail(q)) = Len(q) - 1 /\ Len(q) - 1 \in Nat
           /\ \A k \in 0..(Len(q) - 1) : After(e, Tail(q))[k] = After(d, q)[k + 1]
  <1> DEFINE n == Len(q) - 1
             u == Tail(q)
             g == After(d, q)
             h == After(e, u)
  <1>1. n \in Nat /\ Len(u) = n /\ Len(q) = n + 1 /\ Head(q) = q[1] /\ \A k \in 1..n : u[k] = q[k + 1]
    OBVIOUS
  <1> HIDE DEF n, u
  <1>2. g[0] = d /\ \A k \in 1..(n + 1) : g[k] = RunAll(g[k - 1], q[k].stmts)
    BY <1>1, AfterDef
  <1>3. h[0] = e /\ \A k \in 1..n : h[k] = RunAll(h[k - 1], u[k].stmts)
    BY <1>1, AfterDef
  <1> HIDE DEF g, h
  <1> DEFINE T == {k \in Nat : k <= n => h[k] = g[k + 1]}
  <1>4. 0 \in T
    <2>1. 1 \in 1..(n + 1) /\ 1 - 1 = 0
      BY <1>1
    <2>2. g[1] = RunAll(g[0], q[1].stmts)
      BY <1>2, <2>1
    <2> QED BY <1>1, <1>2, <1>3, <2>2
  <1>5. ASSUME NEW k \in Nat, k \in T PROVE k + 1 \in T
    <2> SUFFICES ASSUME k + 1 <= n PROVE h[k + 1] = g[(k + 1) + 1]
      OBVIOUS
    <2>1. /\ k + 1 \in 1..n /\ (k + 1) + 1 \in 1..(n + 1) /\ (k + 1) - 1 = k
          /\ ((k + 1) + 1) - 1 = k + 1 /\ h[k] = g[k + 1]
      BY <1>1, <1>5
    <2>2. h[k + 1] = RunAll(h[k], u[k + 1].stmts)
      BY <1>3, <2>1
    <2>3. g[(k + 1) + 1] = RunAll(g[k + 1], q[(k + 1) + 1].stmts)
      BY <1>2, <2>1
    <2> QED BY <1>1, <2>1, <2>2, <2>3
  <1> HIDE DEF T
  <1>6. \A k \in Nat : k \in T
    BY <1>4, <1>5, SetInduction
  <1>7. \A k \in 0..n : h[k] = g[k + 1]
    BY <1>1, <1>6 DEF T
  <1>8. Len(Tail(q)) = n
    BY <1>1 DEF u
  <1> QED BY <1>1, <1>7, <1>8 DEF g, h, n, u

-----------------------------------------------------------------------------
(* The inductive invariant.  It speaks of the tables as they will be after   *)
(* each of the queued transactions, since a crash may leave any of them.     *)

(* An item has a row in one of character_inventory, auctionhouse and         *)
(* mail_items, and what is of no mail any more has no instance.              *)
OneRow(d) ==
    \A i \in Items :
        /\ d.character_inventory[i] # None => d.auctionhouse[i] = None /\ d.mail_items[i] = None
        /\ d.auctionhouse[i] # None => d.mail_items[i] = None
        /\ d.character_inventory[i] # None \/ d.auctionhouse[i] # None => i \in d.item_instance
        /\ d.mail_items[i] # None /\ d.mail[d.mail_items[i]] = None => i \notin d.item_instance

Found(d, S, gone) ==
    \A i \in S \ gone :
        /\ i \in d.item_instance
        /\ d.character_inventory[i] # None \/ d.auctionhouse[i] # None \/ d.mail_items[i] # None

(* Ids are not used twice, and only players ask for cash on delivery. *)
Numbered(d, last) ==
    \A m \in MailIds : d.mail[m] # None => m <= last /\ (d.mail[m].COD > 0 => d.mail[m].sender # None)

Rich(d) == \A p \in Players : d.money[p] < MaxMoney

Good(d, S, gone, last) == d \in Tables /\ OneRow(d) /\ Found(d, S, gone) /\ Numbered(d, last) /\ Rich(d)

(* From d to e nothing happens to the mails, or to the goods, of p. *)
SameMails(p, d, e) ==
    \A m \in MailIds : d.mail[m] # None /\ d.mail[m].receiver = p =>
        e.mail[m] = d.mail[m] /\ Contents(e, m) = Contents(d, m)
SameMailsBut(H, p, d, e) ==         \* but perhaps to the mails H
    \A m \in MailIds \ H : d.mail[m] # None /\ d.mail[m].receiver = p =>
        e.mail[m] = d.mail[m] /\ Contents(e, m) = Contents(d, m)
SameGoods(p, d, e) ==
    /\ \A i \in Items : d.character_inventory[i] = p <=> e.character_inventory[i] = p
    /\ d.money[p] = e.money[p]

Entry == [login : Players \cup {None}, stmts : Seq(Statement)]

Types ==
    /\ online \subseteq Players /\ loaded \subseteq online
    /\ m_items \in [Items -> online \cup {None}]
    /\ money \in [Players -> 0..(MaxMoney - 1)]
    /\ auctions \in [Items -> Auction \cup {None}]
    /\ m_mail \in [MailIds -> Mail \cup {None}]
    /\ mailId \in 0..MaxMails
    /\ scenario \in Scenarios /\ commits \in 0..scenario.commits /\ crashes \in 0..MaxCrashes
    /\ up \in BOOLEAN /\ discarded \subseteq Items /\ unsent \subseteq Items
    /\ queue \in Seq(Entry) /\ Len(queue) <= MaxQueue

Trades ==
    /\ Paired(m_trade)
    /\ \A p \in Players : m_trade[p] # None =>
          /\ p \in online
          /\ \A s, r \in TradeSlots :
                m_trade[p].items[s] = m_trade[p].items[r] /\ s # r => m_trade[p].items[s] = None

Stages == \A k \in 0..Len(queue) : Good(After(db, queue)[k], scenario.items, discarded \cup unsent, mailId)

Waits(p, k) == \E j \in 1..k : queue[j].login = p

(* A player who has not loaded the mails yet, or is about to enter, will     *)
(* find in the database what the queue leaves there, but for mails that the  *)
(* timer returned or deleted.                                                *)
Frozen ==
    \A k \in 0..Len(queue), p \in Players :
        /\ p \in online \ loaded => SameMailsBut(expired, p, After(db, queue)[k], Settled)
        /\ Waits(p, k) => /\ SameMailsBut(expired, p, After(db, queue)[k], Settled)
                          /\ SameGoods(p, After(db, queue)[k], Settled)

Logins ==
    /\ \A j \in 1..Len(queue) : queue[j].login # None =>
          up /\ queue[j].login \notin online /\ queue[j].stmts = <<>>
    /\ \A j, k \in 1..Len(queue) : queue[j].login # None /\ queue[j].login = queue[k].login => j = k

Memory ==
    /\ online # {} => up
    /\ \A m \in MailIds : m_mail[m] # None => m_mail[m].row.receiver \in loaded

(* What the queued transactions will have written is what the players see.   *)
Saved ==
    /\ up => auctions = Settled.auctionhouse
    /\ \A i \in Items, p \in online : m_items[i] = p <=> Settled.character_inventory[i] = p
    /\ \A p \in online : Settled.money[p] - money[p] \in {0, Deposit}
    /\ \A m \in MailIds : m_mail[m] # None =>
            /\ m_mail[m].row = Settled.mail[m]
            /\ m_mail[m].items = MailedIn(Settled.mail_items, m) \cap Settled.item_instance

Inv == Types /\ Trades /\ Stages /\ Frozen /\ Logins /\ Memory /\ Saved

LEMMA SameMailsTransitive ==
    ASSUME NEW H, NEW p, NEW d, NEW e, NEW f, SameMailsBut(H, p, d, e), SameMails(p, e, f)
    PROVE  SameMailsBut(H, p, d, f)
  BY DEF SameMails, SameMailsBut

LEMMA SameGoodsTransitive ==
    ASSUME NEW p, NEW d, NEW e, NEW f, SameGoods(p, d, e), SameGoods(p, e, f)
    PROVE  SameGoods(p, d, f)
  BY DEF SameGoods

LEMMA GoodLater ==
    ASSUME NEW d, NEW S, NEW gone, NEW more, NEW k \in Nat, NEW l \in Nat,
           Good(d, S, gone, k), gone \subseteq more, k <= l
    PROVE  Good(d, S, more, l)
  <1>1. Found(d, S, more)
    BY DEF Good, Found
  <1>2. Numbered(d, l)
    BY DEF Good, Numbered, MailIds
  <1> QED BY <1>1, <1>2 DEF Good

(* The last tables *)
LEMMA SettledGood ==
    ASSUME Types, Stages
    PROVE  Good(Settled, scenario.items, discarded \cup unsent, mailId)
  <1>1. Len(queue) \in 0..Len(queue)
    BY DEF Types
  <1> QED BY <1>1 DEF Settled, Stages

(* The tables as they are *)
LEMMA DbGood ==
    ASSUME Types, Stages
    PROVE  Good(db, scenario.items, discarded \cup unsent, mailId)
  <1>1. Len(queue) \in Nat /\ 0 \in 0..Len(queue)
    BY DEF Types
  <1>2. After(db, queue)[0] = db
    BY <1>1, AfterDef DEF IsAfter
  <1> QED BY <1>1, <1>2 DEF Stages

(* A step that queues a transaction t with the tables e as its result *)
LEMMA CommitKeeps ==
    ASSUME Types, Stages, Frozen, Logins,
           NEW t \in Seq(Statement), Commit(t), NEW e, e = RunAll(Settled, t), db' = db, up' = up, expired' = expired,
           online' \subseteq online, online' \ loaded' \subseteq online \ loaded,
           discarded \subseteq discarded', unsent \subseteq unsent',
           mailId' \in Nat, mailId <= mailId',
           Good(e, scenario.items, discarded' \cup unsent', mailId'),
           \A p \in Players \ loaded : SameMails(p, Settled, e),
           \A p \in Players \ online : SameGoods(p, Settled, e)
    PROVE  /\ Stages' /\ Frozen' /\ Logins' /\ Settled' = e
           /\ queue' \in Seq(Entry) /\ Len(queue') <= MaxQueue
           /\ scenario' = scenario /\ commits' \in 0..scenario'.commits
  <1> DEFINE n == Len(queue)
             x == [login |-> None, stmts |-> t]
             g == After(db, queue)
             h == After(db', queue')
  <1>1. n \in Nat /\ queue \in Seq(Entry) /\ x \in Entry
    BY DEF Types, Entry
  <1>2. queue' = Append(queue, x) /\ scenario' = scenario /\ n < MaxQueue
    BY DEF Commit
  <1>3. queue' \in Seq(Entry) /\ Len(queue') = n + 1 /\ queue'[n + 1] = x /\ (\A k \in 1..n : queue'[k] = queue[k])
    BY <1>1, <1>2
  <1>4. Len(queue') <= MaxQueue
    BY <1>1, <1>2, <1>3, CustodyAssumption
  <1>5. commits' \in 0..scenario'.commits
    <2>1. scenario.commits \in Nat
      BY CustodyAssumption DEF Types
    <2> QED BY <2>1 DEF Types, Commit
  <1>6. (\A k \in 0..n : h[k] = g[k]) /\ h[n + 1] = e
    <2>1. Settled = g[n] /\ x.stmts = t
      BY DEF Settled
    <2>2. /\ \A k \in 0..n : After(db, Append(queue, x))[k] = g[k]
          /\ After(db, Append(queue, x))[n + 1] = RunAll(g[n], x.stmts)
      BY <1>1, AfterAppend
    <2> QED BY <1>2, <2>1, <2>2
  <1>7. Settled' = e
    BY <1>3, <1>6 DEF Settled
  <1>8. \A k \in 0..(n + 1) : k \in 0..n \/ k = n + 1
    BY <1>1
  <1>9. Stages'
    <2>1. ASSUME NEW k \in 0..n
          PROVE  Good(h[k], scenario'.items, discarded' \cup unsent', mailId')
      <3>1. Good(g[k], scenario.items, discarded \cup unsent, mailId)
        BY <2>1 DEF Stages
      <3>2. discarded \cup unsent \subseteq discarded' \cup unsent' /\ mailId \in Nat
        BY DEF Types
      <3> QED BY <1>2, <1>6, <2>1, <3>1, <3>2, GoodLater
    <2>2. Good(h[n + 1], scenario'.items, discarded' \cup unsent', mailId')
      BY <1>2, <1>6
    <2> QED BY <1>3, <1>8, <2>1, <2>2 DEF Stages
  <1>10. Frozen'
    <2> SUFFICES ASSUME NEW k \in 0..(n + 1), NEW p \in Players
                 PROVE  /\ p \in online' \ loaded' => SameMailsBut(expired, p, h[k], e)
                        /\ Waits(p, k)' => SameMailsBut(expired, p, h[k], e) /\ SameGoods(p, h[k], e)
      BY <1>3, <1>7 DEF Frozen
    <2>1. CASE k = n + 1
      BY <1>6, <2>1 DEF SameMailsBut, SameGoods
    <2>2. CASE k \in 0..n
      <3>1. h[k] = g[k]
        BY <1>6, <2>2
      <3>2. Waits(p, k)' => Waits(p, k)
        <4>1. \A j \in 1..k : j \in 1..n
          BY <1>1, <2>2
        <4>2. \A j \in 1..k : queue'[j] = queue[j]
          BY <1>3, <4>1
        <4> QED BY <4>2 DEF Waits
      <3>3. ASSUME p \in online' \ loaded' PROVE SameMailsBut(expired, p, h[k], e)
        <4>1. p \in online \ loaded
          BY <3>3
        <4>2. SameMailsBut(expired, p, g[k], Settled)
          BY <2>2, <4>1 DEF Frozen
        <4>3. SameMails(p, Settled, e)
          BY <4>1
        <4> QED BY <3>1, <4>2, <4>3, SameMailsTransitive
      <3>4. ASSUME Waits(p, k)' PROVE SameMailsBut(expired, p, h[k], e) /\ SameGoods(p, h[k], e)
        <4>1. Waits(p, k)
          BY <3>2, <3>4
        <4>2. SameMailsBut(expired, p, g[k], Settled) /\ SameGoods(p, g[k], Settled)
          BY <2>2, <4>1 DEF Frozen
        <4>3. p \notin online /\ p \notin loaded
          <5>1. PICK j \in 1..k : queue[j].login = p
            BY <4>1 DEF Waits
          <5>2. j \in 1..n /\ p # None
            BY <1>1, <2>2, CustodyAssumption, SMTT(30)
          <5> QED BY <5>1, <5>2 DEF Logins, Types
        <4>4. SameMails(p, Settled, e) /\ SameGoods(p, Settled, e)
          BY <4>3
        <4> QED BY <3>1, <4>2, <4>4, SameMailsTransitive, SameGoodsTransitive
      <3> QED BY <3>3, <3>4
    <2> QED BY <1>8, <2>1, <2>2
  <1>11. Logins'
    <2>1. \A j \in 1..(n + 1) : j \in 1..n \/ j = n + 1
      BY <1>1
    <2>2. queue'[n + 1].login = None
      BY <1>3
    <2>3. \A j \in 1..(n + 1) : queue'[j].login # None => j \in 1..n /\ queue'[j] = queue[j]
      BY <1>3, <2>1, <2>2
    <2>4. \A j \in 1..(n + 1) : queue'[j].login # None =>
             up' /\ queue'[j].login \notin online' /\ queue'[j].stmts = <<>>
      BY <2>3 DEF Logins
    <2>5. \A j, k \in 1..(n + 1) : queue'[j].login # None /\ queue'[j].login = queue'[k].login => j = k
      BY <2>3 DEF Logins
    <2> QED BY <1>3, <2>4, <2>5 DEF Logins
  <1> QED BY <1>2, <1>3, <1>4, <1>5, <1>7, <1>9, <1>10, <1>11

-----------------------------------------------------------------------------
(* The steps that are not transactions of a handler *)

LEMMA NothingQueued ==
    ASSUME NEW d
    PROVE  After(d, <<>>)[0] = d /\ Len(<<>>) = 0
  BY AfterDef

LEMMA InitInv == Init => Inv
  <1> SUFFICES ASSUME Init PROVE Inv
    OBVIOUS
  <1> USE CustodyAssumption
  <1>1. scenario \in Scenarios /\ scenario.players \subseteq Players /\ scenario.items \subseteq Items
        /\ scenario.commits \in Nat
    BY DEF Init
  <1>2. queue = <<>> /\ Len(queue) = 0 /\ Settled = db /\ After(db, queue)[0] = db
    BY NothingQueued DEF Init, Settled
  <1>3. Types
    <2>1. queue \in Seq(Entry) /\ Len(queue) <= MaxQueue
      BY <1>2
    <2>2. money \in [Players -> 0..(MaxMoney - 1)]
      BY DEF Init
    <2> QED BY <1>1, <2>1, <2>2 DEF Init, Types
  <1>4. Trades
    BY DEF Init, Trades, Paired
  <1>5. db \in Tables
    <2>1. m_items \in [Items -> Players \cup {None}] /\ money \in [Players -> Nat]
      BY <1>1 DEF Init
    <2>2. auctions \in [Items -> Auction \cup {None}]
      BY DEF Init
    <2> QED BY <1>1, <2>1, <2>2 DEF Init, Tables
  <1>6. Good(db, scenario.items, discarded \cup unsent, mailId)
    <2>1. /\ db.character_inventory = m_items /\ db.money = money
          /\ \A i \in Items : db.auctionhouse[i] = None /\ db.mail_items[i] = None
          /\ \A m \in MailIds : db.mail[m] = None
          /\ db.item_instance = scenario.items
          /\ \A i \in Items : m_items[i] = None <=> i \notin scenario.items
      BY DEF Init
    <2>2. OneRow(db)
      BY <2>1 DEF OneRow
    <2>3. Found(db, scenario.items, discarded \cup unsent)
      BY <1>1, <2>1 DEF Found
    <2>4. Numbered(db, mailId)
      BY <2>1 DEF Numbered
    <2>5. Rich(db)
      BY <1>3, <2>1, SMTT(30) DEF Rich, Types
    <2> QED BY <1>5, <2>2, <2>3, <2>4, <2>5 DEF Good
  <1>7. Stages /\ Frozen /\ Logins
    <2>1. \A k \in 0..0 : k = 0
      OBVIOUS
    <2>2. Stages
      BY <1>2, <1>6, <2>1 DEF Stages
    <2>3. \A p \in Players : SameMailsBut(expired, p, db, db) /\ SameGoods(p, db, db)
      BY DEF SameMailsBut, SameGoods
    <2>4. Frozen
      BY <1>2, <2>1, <2>3 DEF Frozen
    <2>5. Logins
      BY <1>2 DEF Logins
    <2> QED BY <2>2, <2>4, <2>5
  <1>8. Memory
    BY DEF Init, Memory
  <1>9. Saved
    <2>1. db.character_inventory = m_items /\ db.money = money /\ db.auctionhouse = auctions
      BY DEF Init
    <2>2. \A p \in Players : db.money[p] - money[p] = 0
      BY <1>3, <2>1 DEF Types
    <2>3. \A m \in MailIds : m_mail[m] = None
      BY DEF Init
    <2> QED BY <1>1, <1>2, <1>3, <2>1, <2>2, <2>3 DEF Saved, Types
  <1> QED BY <1>3, <1>4, <1>7, <1>8, <1>9 DEF Inv

(* The first of the queue is executed: what follows keeps its place. *)
LEMMA ExecuteShifts ==
    ASSUME Types, Stages, Frozen, Logins, queue # <<>>, queue' = Tail(queue),
           db' = RunAll(db, Head(queue).stmts), UNCHANGED <<scenario, discarded, unsent, mailId>>
    PROVE  /\ Settled' = Settled
           /\ Stages'
           /\ queue' \in Seq(Entry) /\ Len(queue') <= MaxQueue
           /\ \A k \in 0..Len(queue') : k + 1 \in 0..Len(queue) /\ After(db', queue')[k] = After(db, queue)[k + 1]
           /\ \A j \in 1..Len(queue') : j + 1 \in 1..Len(queue) /\ queue'[j] = queue[j + 1]
           /\ Len(queue') = Len(queue) - 1 /\ Len(queue) \in Nat
  <1> DEFINE n == Len(queue)
             g == After(db, queue)
             h == After(db', queue')
  <1>1. queue \in Seq(Entry) /\ n \in Nat /\ n - 1 \in Nat /\ n <= MaxQueue
    BY DEF Types
  <1>2. /\ queue' \in Seq(Entry) /\ Len(queue') = n - 1
        /\ \A j \in 1..(n - 1) : j + 1 \in 1..n /\ queue'[j] = queue[j + 1]
    BY <1>1
  <1>3. \A k \in 0..(n - 1) : h[k] = g[k + 1]
    BY <1>1, AfterTail
  <1>4. Settled' = Settled
    <2>1. n - 1 \in 0..(n - 1) /\ (n - 1) + 1 = n
      BY <1>1
    <2> QED BY <1>2, <1>3, <2>1 DEF Settled
  <1>5. \A k \in 0..(n - 1) : k + 1 \in 0..n
    BY <1>1
  <1>6. Stages'
    BY <1>2, <1>3, <1>5 DEF Stages
  <1>7. Len(queue') <= MaxQueue
    BY <1>1, <1>2, CustodyAssumption
  <1> QED BY <1>1, <1>2, <1>3, <1>4, <1>5, <1>6, <1>7

(* The worker executes a transaction. *)
LEMMA ExecuteInv ==
    ASSUME Inv, DbExecute, Head(queue).login = None
    PROVE  Inv'
  <1>1. /\ Types /\ Trades /\ Stages /\ Frozen /\ Logins /\ Memory /\ Saved
        /\ queue # <<>> /\ queue' = Tail(queue) /\ db' = RunAll(db, Head(queue).stmts)
        /\ UNCHANGED <<memory, up, scenario, commits, crashes, discarded, unsent, expired>>
    BY DEF Inv, DbExecute
  <1>2. UNCHANGED <<online, m_items, money, m_trade, auctions, m_mail, loaded, mailId>>
    BY <1>1 DEF memory
  <1>3. /\ Settled' = Settled
        /\ Stages'
        /\ queue' \in Seq(Entry) /\ Len(queue') <= MaxQueue
        /\ \A k \in 0..Len(queue') : k + 1 \in 0..Len(queue) /\ After(db', queue')[k] = After(db, queue)[k + 1]
        /\ \A j \in 1..Len(queue') : j + 1 \in 1..Len(queue) /\ queue'[j] = queue[j + 1]
        /\ Len(queue') = Len(queue) - 1 /\ Len(queue) \in Nat
    BY <1>1, <1>2, ExecuteShifts
  <1>4. Types' /\ Trades' /\ Memory'
    BY <1>1, <1>2, <1>3 DEF Types, Trades, Memory
  <1>5. Saved'
    BY <1>1, <1>2, <1>3 DEF Saved
  <1>6. Frozen'
    <2> SUFFICES ASSUME NEW k \in 0..Len(queue'), NEW p \in Players
                 PROVE  /\ p \in online \ loaded => SameMailsBut(expired, p, After(db, queue)[k + 1], Settled)
                        /\ Waits(p, k)' => /\ SameMailsBut(expired, p, After(db, queue)[k + 1], Settled)
                                           /\ SameGoods(p, After(db, queue)[k + 1], Settled)
      BY <1>1, <1>2, <1>3 DEF Frozen
    <2>1. k + 1 \in 0..Len(queue)
      BY <1>3
    <2>2. Waits(p, k)' => Waits(p, k + 1)
      <3> SUFFICES ASSUME NEW j \in 1..k, queue'[j].login = p PROVE Waits(p, k + 1)
        BY DEF Waits
      <3>1. j \in 1..Len(queue') /\ j + 1 \in 1..(k + 1)
        BY <1>3
      <3> QED BY <1>3, <3>1 DEF Waits
    <2> QED BY <1>1, <2>1, <2>2 DEF Frozen
  <1>7. Logins'
    <2>1. \A j \in 1..Len(queue') : queue'[j].login # None =>
             up' /\ queue'[j].login \notin online' /\ queue'[j].stmts = <<>>
      BY <1>1, <1>2, <1>3 DEF Logins
    <2>2. \A j, k \in 1..Len(queue') : queue'[j].login # None /\ queue'[j].login = queue'[k].login => j = k
      BY <1>1, <1>3 DEF Logins
    <2> QED BY <2>1, <2>2 DEF Logins
  <1> QED BY <1>3, <1>4, <1>5, <1>6, <1>7 DEF Inv

(* The worker has answered the queries of a login: the player enters. *)
LEMMA EnterInv ==
    ASSUME Inv, DbExecute, Head(queue).login # None
    PROVE  Inv'
  <1> DEFINE p == Head(queue).login
             S == Settled
  <1>1. /\ Types /\ Trades /\ Stages /\ Frozen /\ Logins /\ Memory /\ Saved
        /\ queue # <<>> /\ queue' = Tail(queue)
        /\ online' = online \cup {p}
        /\ m_items' = [i \in Items |->
               IF db.character_inventory[i] = p /\ i \in db.item_instance THEN p ELSE m_items[i]]
        /\ money' = [money EXCEPT ![p] = db.money[p]]
        /\ UNCHANGED <<m_trade, auctions, m_mail, loaded, mailId, db>>
        /\ UNCHANGED <<up, scenario, commits, crashes, discarded, unsent, expired>>
    BY DEF Inv, DbExecute
  <1>2. queue[1] = Head(queue) /\ 1 \in 1..Len(queue) /\ Len(queue) \in Nat /\ queue[1] \in Entry
    BY <1>1 DEF Types
  <1>3. p \in Players /\ up /\ p \notin online /\ Head(queue).stmts = <<>>
    BY <1>1, <1>2 DEF Logins, Entry
  <1>4. db' = RunAll(db, Head(queue).stmts)
    BY <1>1, <1>3, RunAllNone
  <1>5. /\ Settled' = Settled
        /\ Stages'
        /\ queue' \in Seq(Entry) /\ Len(queue') <= MaxQueue
        /\ \A k \in 0..Len(queue') : k + 1 \in 0..Len(queue) /\ After(db', queue')[k] = After(db, queue)[k + 1]
        /\ \A j \in 1..Len(queue') : j + 1 \in 1..Len(queue) /\ queue'[j] = queue[j + 1]
        /\ Len(queue') = Len(queue) - 1 /\ Len(queue) \in Nat
    BY <1>1, <1>4, ExecuteShifts
  <1> HIDE DEF p, S
  <1>6. \A k \in 0..Len(queue') :
           SameMailsBut(expired, p, After(db, queue)[k + 1], Settled) /\ SameGoods(p, After(db, queue)[k + 1], Settled)
    <2> SUFFICES ASSUME NEW k \in 0..Len(queue')
                 PROVE  /\ SameMailsBut(expired, p, After(db, queue)[k + 1], Settled)
                        /\ SameGoods(p, After(db, queue)[k + 1], Settled)
      OBVIOUS
    <2>1. k + 1 \in 0..Len(queue) /\ 1 \in 1..(k + 1)
      BY <1>5
    <2>2. Waits(p, k + 1)
      BY <1>2, <2>1 DEF Waits, p
    <2> QED BY <1>1, <1>3, <2>1, <2>2 DEF Frozen
  <1>7. SameGoods(p, db, S)
    <2>1. 0 \in 0..Len(queue')
      BY <1>2, <1>5
    <2>2. After(db', queue')[0] = db /\ After(db', queue')[0] = After(db, queue)[0 + 1]
      <3>1. Len(queue') \in Nat
        BY <1>5
      <3> QED BY <1>1, <1>5, <2>1, <3>1, AfterDef
    <2> QED BY <1>6, <2>1, <2>2 DEF S
  <1>8. Good(db, scenario.items, discarded \cup unsent, mailId)
    <2>1. 0 \in 0..Len(queue) /\ After(db, queue)[0] = db
      BY <1>2, AfterDef
    <2> QED BY <1>1, <2>1 DEF Stages
  <1>9. \A i \in Items : m_items'[i] = IF S.character_inventory[i] = p THEN p ELSE m_items[i]
    BY <1>1, <1>7, <1>8, <1>3, CustodyAssumption DEF Good, OneRow, SameGoods
  <1>10. money' \in [Players -> 0..(MaxMoney - 1)] /\ money'[p] = S.money[p]
         /\ \A q \in Players : q # p => money'[q] = money[q]
    <2>1. db.money[p] \in 0..(MaxMoney - 1)
      <3>1. db.money[p] \in Nat /\ db.money[p] < MaxMoney
        BY <1>3, <1>8, TablesFields DEF Good, Rich
      <3> QED BY <3>1, CustodyAssumption
    <2> QED BY <1>1, <1>3, <1>7, <2>1 DEF Types, SameGoods
  <1>11. Types'
    <2>1. m_items' \in [Items -> online' \cup {None}]
      BY <1>1 DEF Types
    <2>2. online' \subseteq Players /\ loaded' \subseteq online'
      BY <1>1, <1>3 DEF Types
    <2> QED BY <1>1, <1>5, <1>10, <2>1, <2>2 DEF Types
  <1>12. Trades' /\ Memory'
    BY <1>1, <1>3 DEF Trades, Memory
  <1>13. Saved'
    <2>1. \A i \in Items, q \in online' : m_items'[i] = q <=> S.character_inventory[i] = q
      <3> SUFFICES ASSUME NEW i \in Items, NEW q \in online'
                   PROVE  m_items'[i] = q <=> S.character_inventory[i] = q
        OBVIOUS
      <3>1. CASE q = p
        <4>1. m_items[i] # p
          BY <1>1, <1>3, CustodyAssumption DEF Types
        <4> QED BY <1>9, <3>1, <4>1
      <3>2. CASE q # p
        <4>1. q \in online /\ (m_items[i] = q <=> S.character_inventory[i] = q)
          BY <1>1, <3>2 DEF Saved, S
        <4> QED BY <1>9, <3>2, <4>1
      <3> QED BY <3>1, <3>2
    <2>2. \A q \in online' : S.money[q] - money'[q] \in {0, Deposit}
      <3>1. S.money[p] \in Nat
        BY <1>1, <1>3, SettledGood, TablesFields DEF Good, S
      <3>2. \A q \in online : q # p /\ q \in Players /\ S.money[q] - money[q] \in {0, Deposit}
        BY <1>1, <1>3 DEF Saved, Types, S
      <3> QED BY <1>1, <1>10, <3>1, <3>2
    <2> QED BY <1>1, <1>5, <2>1, <2>2 DEF Saved, S
  <1>14. Frozen'
    <2> SUFFICES ASSUME NEW k \in 0..Len(queue'), NEW q \in Players
                 PROVE  /\ q \in online' \ loaded' => SameMailsBut(expired, q, After(db, queue)[k + 1], Settled)
                        /\ Waits(q, k)' => /\ SameMailsBut(expired, q, After(db, queue)[k + 1], Settled)
                                           /\ SameGoods(q, After(db, queue)[k + 1], Settled)
      BY <1>1, <1>5 DEF Frozen
    <2>1. k + 1 \in 0..Len(queue)
      BY <1>5
    <2>2. Waits(q, k)' => Waits(q, k + 1)
      <3> SUFFICES ASSUME NEW j \in 1..k, queue'[j].login = q PROVE Waits(q, k + 1)
        BY DEF Waits
      <3>1. j \in 1..Len(queue') /\ j + 1 \in 1..(k + 1)
        BY <1>5
      <3> QED BY <1>5, <3>1 DEF Waits
    <2>3. q \in online' \ loaded' => q \in online \ loaded \/ q = p
      BY <1>1
    <2> QED BY <1>1, <1>6, <2>1, <2>2, <2>3 DEF Frozen
  <1>15. Logins'
    <2>1. \A j \in 1..Len(queue') : queue'[j].login # None => queue'[j].login # p
      <3> SUFFICES ASSUME NEW j \in 1..Len(queue'), queue'[j].login # None PROVE queue'[j].login # p
        OBVIOUS
      <3>1. j + 1 \in 1..Len(queue) /\ queue'[j] = queue[j + 1] /\ j + 1 # 1
        BY <1>5
      <3> QED BY <1>1, <1>2, <3>1 DEF Logins, p
    <2>2. \A j \in 1..Len(queue') : queue'[j].login # None =>
             up' /\ queue'[j].login \notin online' /\ queue'[j].stmts = <<>>
      BY <1>1, <1>5, <2>1 DEF Logins
    <2>3. \A j, k \in 1..Len(queue') : queue'[j].login # None /\ queue'[j].login = queue'[k].login => j = k
      BY <1>1, <1>5 DEF Logins
    <2> QED BY <2>2, <2>3 DEF Logins
  <1> QED BY <1>5, <1>11, <1>12, <1>13, <1>14, <1>15 DEF Inv

LEMMA LoginInv ==
    ASSUME Inv, NEW p \in Players, HandlePlayerLogin(p)
    PROVE  Inv'
  <1> DEFINE n == Len(queue)
             x == [login |-> p, stmts |-> <<>>]
             g == After(db, queue)
             h == After(db', queue')
  <1>1. /\ Types /\ Trades /\ Stages /\ Frozen /\ Logins /\ Memory /\ Saved
        /\ up /\ p \notin online /\ n < MaxQueue /\ (\A k \in 1..n : queue[k].login # p)
        /\ queue' = Append(queue, x)
        /\ UNCHANGED <<online, m_items, money, m_trade, auctions, m_mail, loaded, mailId>>
        /\ UNCHANGED <<db, up, scenario, commits, crashes, discarded, unsent, expired>>
    BY DEF Inv, HandlePlayerLogin, memory
  <1>2. n \in Nat /\ queue \in Seq(Entry) /\ x \in Entry
    BY <1>1 DEF Types, Entry
  <1>3. queue' \in Seq(Entry) /\ Len(queue') = n + 1 /\ queue'[n + 1] = x /\ (\A k \in 1..n : queue'[k] = queue[k])
    BY <1>1, <1>2
  <1>4. Len(queue') <= MaxQueue
    BY <1>1, <1>2, <1>3, CustodyAssumption
  <1>5. (\A k \in 0..n : h[k] = g[k]) /\ h[n + 1] = Settled
    <2>1. Settled = g[n] /\ x.stmts = <<>>
      BY DEF Settled
    <2>2. /\ \A k \in 0..n : After(db, Append(queue, x))[k] = g[k]
          /\ After(db, Append(queue, x))[n + 1] = RunAll(g[n], x.stmts)
      BY <1>2, AfterAppend
    <2> QED BY <1>1, <2>1, <2>2, RunAllNone
  <1>6. Settled' = Settled
    BY <1>3, <1>5 DEF Settled
  <1>7. \A k \in 0..(n + 1) : k \in 0..n \/ k = n + 1
    BY <1>2
  <1>8. Stages'
    <2>1. \A k \in 0..n : Good(h[k], scenario'.items, discarded' \cup unsent', mailId')
      BY <1>1, <1>5 DEF Stages
    <2>2. Good(h[n + 1], scenario'.items, discarded' \cup unsent', mailId')
      BY <1>1, <1>5, SettledGood
    <2> QED BY <1>3, <1>7, <2>1, <2>2 DEF Stages
  <1>9. Frozen'
    <2> SUFFICES ASSUME NEW k \in 0..(n + 1), NEW q \in Players
                 PROVE  /\ q \in online \ loaded => SameMailsBut(expired, q, h[k], Settled)
                        /\ Waits(q, k)' => SameMailsBut(expired, q, h[k], Settled) /\ SameGoods(q, h[k], Settled)
      BY <1>1, <1>3, <1>6 DEF Frozen
    <2>1. CASE k = n + 1
      BY <1>5, <2>1 DEF SameMailsBut, SameGoods
    <2>2. CASE k \in 0..n
      <3>1. h[k] = g[k]
        BY <1>5, <2>2
      <3>2. Waits(q, k)' => Waits(q, k)
        BY <1>2, <1>3, <2>2 DEF Waits
      <3> QED BY <1>1, <2>2, <3>1, <3>2 DEF Frozen
    <2> QED BY <1>7, <2>1, <2>2
  <1>10. Logins'
    <2>1. \A j \in 1..(n + 1) : j \in 1..n \/ j = n + 1
      BY <1>2
    <2>2. queue'[n + 1].login = p /\ queue'[n + 1].stmts = <<>>
      BY <1>3
    <2>3. \A j \in 1..(n + 1) : queue'[j].login # None =>
             up' /\ queue'[j].login \notin online' /\ queue'[j].stmts = <<>>
      BY <1>1, <1>3, <2>1, <2>2 DEF Logins
    <2>4. \A j, k \in 1..(n + 1) : queue'[j].login # None /\ queue'[j].login = queue'[k].login => j = k
      BY <1>1, <1>3, <2>1, <2>2 DEF Logins
    <2> QED BY <1>3, <2>3, <2>4 DEF Logins
  <1>11. Types' /\ Trades' /\ Memory'
    BY <1>1, <1>3, <1>4 DEF Types, Trades, Memory
  <1>12. Saved'
    BY <1>1, <1>6 DEF Saved
  <1> QED BY <1>8, <1>9, <1>10, <1>11, <1>12 DEF Inv

LEMMA GetMailListInv ==
    ASSUME Inv, NEW p \in Players, HandleGetMailList(p), ~astray'
    PROVE  Inv'
  <1>1. /\ Types /\ Trades /\ Stages /\ Frozen /\ Logins /\ Memory /\ Saved
        /\ p \in online \ loaded /\ loaded' = loaded \cup {p}
        /\ m_mail' = [m \in MailIds |->
              IF db.mail[m] # None /\ db.mail[m].receiver = p
              THEN [row |-> db.mail[m], items |-> Contents(db, m), deleted |-> FALSE]
              ELSE m_mail[m]]
        /\ UNCHANGED <<online, m_items, money, m_trade, auctions, mailId, db, queue, up>>
        /\ UNCHANGED <<scenario, commits, crashes, discarded, unsent, expired>>
    BY DEF Inv, HandleGetMailList, Received
  <1>2. Settled' = Settled /\ Len(queue) \in Nat
    BY <1>1 DEF Settled, Types
  <1>3. After(db, queue)[0] = db /\ 0 \in 0..Len(queue)
    BY <1>2, AfterDef
  <1>4. Good(db, scenario.items, discarded \cup unsent, mailId) /\ SameMailsBut(expired, p, db, Settled)
    BY <1>1, <1>3 DEF Stages, Frozen
  <1>5. \A m \in MailIds : db.mail[m] # None /\ db.mail[m].receiver = p =>
           /\ m_mail'[m] = [row |-> db.mail[m], items |-> Contents(db, m), deleted |-> FALSE]
           /\ m_mail'[m].row = Settled.mail[m]
           /\ m_mail'[m].items = Contents(Settled, m)
           /\ m_mail'[m].row.receiver = p
    <2> SUFFICES ASSUME NEW m \in MailIds, db.mail[m] # None, db.mail[m].receiver = p
                 PROVE  /\ m_mail'[m] = [row |-> db.mail[m], items |-> Contents(db, m), deleted |-> FALSE]
                        /\ m_mail'[m].row = Settled.mail[m]
                        /\ m_mail'[m].items = Contents(Settled, m)
                        /\ m_mail'[m].row.receiver = p
      OBVIOUS
    <2>1. m_mail'[m] = [row |-> db.mail[m], items |-> Contents(db, m), deleted |-> FALSE]
      BY <1>1
    <2>2. Settled.mail[m] = db.mail[m] /\ Contents(Settled, m) = Contents(db, m)
      <3>1. CASE m \in expired
        <4>1. m \in Received(p) \cap expired
          BY <3>1 DEF Received
        <4>2. ~Overtaken(p)
          BY DEF HandleGetMailList
        <4> QED BY <4>1, <4>2 DEF Overtaken, Pending
      <3>2. CASE m \notin expired
        BY <1>4, <3>2 DEF SameMailsBut
      <3> QED BY <3>1, <3>2
    <2> QED BY <2>1, <2>2
  <1>6. \A m \in MailIds : ~(db.mail[m] # None /\ db.mail[m].receiver = p) => m_mail'[m] = m_mail[m]
    BY <1>1
  <1>7. Types'
    <2>1. m_mail' \in [MailIds -> Mail \cup {None}]
      <3>1. \A m \in MailIds : db.mail[m] # None =>
               [row |-> db.mail[m], items |-> Contents(db, m), deleted |-> FALSE] \in Mail
        BY <1>4, TablesFields DEF Good, Contents, MailedIn, Mail
      <3> QED BY <1>1, <3>1 DEF Types
    <2> QED BY <1>1, <2>1 DEF Types
  <1>8. Trades' /\ Stages' /\ Logins'
    BY <1>1 DEF Trades, Stages, Logins
  <1>9. Frozen'
    <2>1. \A k : Waits(p, k)' = Waits(p, k)
      BY <1>1 DEF Waits
    <2> QED BY <1>1, <1>2, <2>1 DEF Frozen, Waits
  <1>10. Memory'
    BY <1>1, <1>5, <1>6 DEF Memory
  <1>11. Saved'
    <2>1. \A m \in MailIds : m_mail'[m] # None =>
             /\ m_mail'[m].row = Settled.mail[m]
             /\ m_mail'[m].items = MailedIn(Settled.mail_items, m) \cap Settled.item_instance
      BY <1>1, <1>5, <1>6 DEF Saved, Contents
    <2> QED BY <1>1, <1>2, <2>1 DEF Saved
  <1> QED BY <1>7, <1>8, <1>9, <1>10, <1>11 DEF Inv

LEMMA MaxIs ==
    ASSUME NEW S \in SUBSET MailIds
    PROVE  /\ Max({0} \cup S) \in 0..MaxMails
           /\ \A m \in S : m <= Max({0} \cup S)
  <1> DEFINE A == {0} \cup S
             T == {k \in Nat : (\E a \in A : a >= MaxMails - k) => \E a \in A : \A b \in A : b <= a}
  <1>1. A \subseteq 0..MaxMails /\ 0 \in A /\ MaxMails \in Nat
    BY CustodyAssumption DEF MailIds
  <1> HIDE DEF A
  <1>2. 0 \in T
    BY <1>1
  <1>3. ASSUME NEW k \in Nat, k \in T PROVE k + 1 \in T
    <2> SUFFICES ASSUME NEW a \in A, a >= MaxMails - (k + 1)
                 PROVE  \E c \in A : \A b \in A : b <= c
      OBVIOUS
    <2>1. CASE \E c \in A : c >= MaxMails - k
      BY <1>3, <2>1
    <2>2. CASE ~ \E c \in A : c >= MaxMails - k
      <3>1. \A b \in A : b \in Nat /\ a \in Nat /\ b < MaxMails - k
        BY <1>1, <2>2
      <3>2. \A b \in A : b <= a
        BY <1>1, <3>1
      <3> QED BY <3>2
    <2> QED BY <2>1, <2>2
  <1>4. \A k \in Nat : k \in T
    <2> HIDE DEF T
    <2> QED BY <1>2, <1>3, SetInduction
  <1>5. \E a \in A : \A b \in A : b <= a
    <2>1. MaxMails \in T
      BY <1>1, <1>4
    <2>2. 0 \in A /\ 0 >= MaxMails - MaxMails
      BY <1>1
    <2> QED BY <2>1, <2>2
  <1>6. Max(A) \in A /\ \A b \in A : b <= Max(A)
    <2>1. \E a \in A : \A b \in A : a >= b
      BY <1>1, <1>5
    <2> QED BY <2>1, <1>1 DEF Max
  <1> QED BY <1>1, <1>6 DEF A

LEMMA CrashInv ==
    ASSUME Inv, Crash
    PROVE  Inv'
  <1> DEFINE S == {m \in MailIds : db.mail[m] # None}
  <1>1. /\ Types /\ Stages
        /\ crashes < MaxCrashes /\ crashes' = crashes + 1
        /\ online' = {} /\ loaded' = {} /\ up' = FALSE /\ queue' = <<>>
        /\ m_items' = [i \in Items |-> None] /\ m_mail' = [m \in MailIds |-> None]
        /\ m_trade' = [p \in Players |-> None] /\ auctions' = [i \in Items |-> None]
        /\ mailId' = Max({0} \cup S)
        /\ UNCHANGED <<money, db, scenario, commits, discarded, unsent, expired>>
    BY DEF Inv, Crash
  <1>2. mailId' \in 0..MaxMails /\ \A m \in MailIds : db.mail[m] # None => m <= mailId'
    <2>1. S \in SUBSET MailIds
      OBVIOUS
    <2> HIDE DEF S
    <2>2. mailId' \in 0..MaxMails /\ \A m \in S : m <= mailId'
      BY <1>1, <2>1, MaxIs
    <2> QED BY <2>2 DEF S
  <1>3. Len(queue') = 0 /\ Settled' = db /\ After(db', queue')[0] = db
    BY <1>1, NothingQueued DEF Settled
  <1>4. Good(db, scenario.items, discarded \cup unsent, mailId')
    <2>1. After(db, queue)[0] = db /\ 0 \in 0..Len(queue)
      BY <1>1, AfterDef DEF Types
    <2>2. Good(db, scenario.items, discarded \cup unsent, mailId)
      BY <1>1, <2>1 DEF Stages
    <2>3. Numbered(db, mailId')
      BY <1>2, <2>2 DEF Good, Numbered
    <2> QED BY <2>2, <2>3 DEF Good
  <1>5. \A k \in 0..0 : k = 0
    OBVIOUS
  <1>6. Stages'
    BY <1>1, <1>3, <1>4, <1>5 DEF Stages
  <1>7. Types'
    <2>1. queue' \in Seq(Entry) /\ Len(queue') <= MaxQueue
      BY <1>1, CustodyAssumption
    <2>2. crashes' \in 0..MaxCrashes
      BY <1>1, CustodyAssumption DEF Types
    <2> QED BY <1>1, <1>2, <2>1, <2>2 DEF Types
  <1>8. Trades' /\ Logins' /\ Memory'
    BY <1>1, <1>3 DEF Trades, Paired, Logins, Memory
  <1>9. Frozen'
    BY <1>1, <1>3, <1>5 DEF Frozen, Waits
  <1>10. Saved'
    BY <1>1 DEF Saved
  <1> QED BY <1>6, <1>7, <1>8, <1>9, <1>10 DEF Inv

(* While the server starts, an auction whose end is not queued yet stays as  *)
(* it is.                                                                    *)
Restart ==
    ~up => \A k \in 0..Len(queue), i \in Items \ unsent :
              After(db, queue)[k].auctionhouse[i] = Settled.auctionhouse[i]

LEMMA RestartDb ==
    ASSUME Inv, Restart, ~up, NEW i \in Items \ unsent
    PROVE  db.auctionhouse[i] = Settled.auctionhouse[i]
  <1>1. Len(queue) \in Nat /\ 0 \in 0..Len(queue)
    BY DEF Inv, Types
  <1>2. After(db, queue)[0] = db
    BY <1>1, AfterDef
  <1> QED BY <1>1, <1>2 DEF Restart

(* LoadAuctions finds all auctions, with their items, unless it finds one     *)
(* whose end is still queued.                                                *)
LEMMA LoadAuctionsInv ==
    ASSUME Inv, Restart, LoadAuctions, ~astray'
    PROVE  Inv'
  <1>1. /\ Types /\ Trades /\ Stages /\ Frozen /\ Logins /\ Memory /\ Saved
        /\ ~up /\ up' = TRUE /\ Revived = {}
        /\ auctions' = [i \in Items |-> IF i \in db.item_instance THEN db.auctionhouse[i] ELSE None]
        /\ UNCHANGED <<online, m_items, money, m_trade, m_mail, loaded, mailId, db, queue>>
        /\ UNCHANGED <<scenario, commits, crashes, discarded, unsent, expired>>
    BY DEF Inv, LoadAuctions
  <1>2. Settled' = Settled
    BY <1>1 DEF Settled
  <1>3. Good(db, scenario.items, discarded \cup unsent, mailId)
    BY <1>1, DbGood
  <1>4. auctions' = Settled.auctionhouse
    <2>1. \A i \in Items : i \notin db.item_instance => db.auctionhouse[i] = None
      BY <1>3 DEF Good, OneRow
    <2>2. Settled.auctionhouse \in [Items -> Auction \cup {None}]
      BY <1>1, SettledGood, TablesFields DEF Good
    <2>3. \A i \in Items : db.auctionhouse[i] = Settled.auctionhouse[i]
      BY <1>1, RestartDb DEF Revived
    <2>4. \A i \in Items : auctions'[i] = Settled.auctionhouse[i]
      BY <1>1, <2>1, <2>3
    <2> HIDE DEF Settled
    <2> QED BY <1>1, <2>2, <2>4
  <1>5. Types'
    BY <1>1, <1>4, SettledGood, TablesFields DEF Types, Good
  <1>6. Trades' /\ Stages' /\ Logins' /\ Memory'
    BY <1>1 DEF Trades, Stages, Logins, Memory
  <1>7. Frozen'
    BY <1>1, <1>2 DEF Frozen, Waits
  <1>8. Saved'
    BY <1>1, <1>2, <1>4 DEF Saved
  <1> QED BY <1>5, <1>6, <1>7, <1>8 DEF Inv

-----------------------------------------------------------------------------
(* The steps of a trade before it completes *)

(* No item is offered twice. *)
Apart(t) == \A s, r \in TradeSlots : t.items[s] = t.items[r] /\ s # r => t.items[s] = None

LEMMA TradesAre ==
    Trades <=> Paired(m_trade) /\ \A p \in Players : m_trade[p] # None => p \in online /\ Apart(m_trade[p])
  BY DEF Trades, Apart

LEMMA TradesAreNext ==
    Trades' <=> Paired(m_trade') /\ \A p \in Players : m_trade'[p] # None => p \in online' /\ Apart(m_trade'[p])
  BY DEF Trades, Apart, Paired

LEMMA TradeOnlyInv ==
    ASSUME Inv, TradeUnchanged, Trades'
    PROVE  Inv'
  <1>1. /\ UNCHANGED <<online, m_items, money, auctions, m_mail, loaded, mailId, db, queue, up>>
        /\ UNCHANGED <<scenario, commits, crashes, discarded, unsent, expired>>
    BY DEF TradeUnchanged
  <1>2. Settled' = Settled
    BY <1>1 DEF Settled
  <1>3. Types' /\ Stages' /\ Logins' /\ Memory'
    BY <1>1 DEF Inv, Types, Stages, Logins, Memory
  <1>4. Frozen'
    BY <1>1, <1>2 DEF Inv, Frozen, Waits
  <1>5. Saved'
    BY <1>1, <1>2 DEF Inv, Saved
  <1> QED BY <1>3, <1>4, <1>5 DEF Inv

LEMMA OfferChangedInv ==
    ASSUME Inv, TradeUnchanged, NEW p \in Players, m_trade[p] # None,
           NEW t \in TradeData, t.trader = m_trade[p].trader, Apart(t), OfferChanged(p, t)
    PROVE  Inv'
  <1> DEFINE q == m_trade[p].trader
  <1>1. Trades /\ Paired(m_trade) /\ online' = online
    BY DEF Inv, Trades, TradeUnchanged
  <1>2. Paired(m_trade')
    BY <1>1, OfferChangedKeeps
  <1>3. q \in Players /\ q # p /\ m_trade[q] # None /\ m_trade[q] \in TradeData
    BY <1>1, SideType DEF Paired
  <1>4. /\ m_trade'[p] = [t EXCEPT !.accepted = FALSE]
        /\ m_trade'[q] = [m_trade[q] EXCEPT !.accepted = FALSE]
        /\ \A r \in Players \ {p, q} : m_trade'[r] = m_trade[r]
    BY <1>1, <1>3 DEF OfferChanged, Trader, Paired, TradeData
  <1>5. m_trade'[p].items = t.items /\ m_trade'[q].items = m_trade[q].items
    BY <1>3, <1>4 DEF TradeData
  <1>6. /\ \A r \in Players : m_trade[r] # None => r \in online /\ Apart(m_trade[r])
        /\ Apart(m_trade'[p]) /\ Apart(m_trade'[q]) /\ p \in online /\ q \in online
    BY <1>1, <1>3, <1>5, TradesAre DEF Apart
  <1> HIDE DEF q
  <1>7. Trades'
    BY <1>1, <1>2, <1>4, <1>6, TradesAreNext
  <1> QED BY <1>7, TradeOnlyInv

LEMMA SetTradeItemInv ==
    ASSUME Inv, NEW p \in Players, NEW s \in TradeSlots, NEW i \in Items, HandleSetTradeItem(p, s, i)
    PROVE  Inv'
  <1> DEFINE t == [m_trade[p] EXCEPT !.items[s] = i]
  <1>1. /\ Paired(m_trade) /\ m_trade[p] # None /\ TradeUnchanged
        /\ OfferChanged(p, t)
        /\ \A r \in TradeSlots : m_trade[p].items[r] # i
    BY DEF HandleSetTradeItem, Inv, Trades
  <1>2. m_trade[p] \in TradeData
    BY <1>1, SideType
  <1>3. t \in TradeData /\ t.trader = m_trade[p].trader
        /\ t.items = [m_trade[p].items EXCEPT ![s] = i]
    BY <1>2 DEF TradeData
  <1>4. Apart(m_trade[p])
    BY <1>1, TradesAre DEF Inv
  <1>5. \A r \in TradeSlots : t.items[r] = IF r = s THEN i ELSE m_trade[p].items[r]
    BY <1>2, <1>3 DEF TradeData
  <1> HIDE DEF t
  <1>6. Apart(t)
    BY <1>1, <1>4, <1>5 DEF Apart
  <1> QED BY <1>1, <1>3, <1>6, OfferChangedInv

LEMMA ClearTradeItemInv ==
    ASSUME Inv, NEW p \in Players, NEW s \in TradeSlots, HandleClearTradeItem(p, s)
    PROVE  Inv'
  <1> DEFINE t == [m_trade[p] EXCEPT !.items[s] = None]
  <1>1. Paired(m_trade) /\ m_trade[p] # None /\ TradeUnchanged /\ OfferChanged(p, t)
    BY DEF HandleClearTradeItem, Inv, Trades
  <1>2. m_trade[p] \in TradeData
    BY <1>1, SideType
  <1>3. t \in TradeData /\ t.trader = m_trade[p].trader
        /\ t.items = [m_trade[p].items EXCEPT ![s] = None]
    BY <1>2 DEF TradeData
  <1>4. Apart(m_trade[p])
    BY <1>1, TradesAre DEF Inv
  <1>5. \A r \in TradeSlots : t.items[r] = IF r = s THEN None ELSE m_trade[p].items[r]
    BY <1>2, <1>3 DEF TradeData
  <1> HIDE DEF t
  <1>6. Apart(t)
    BY <1>4, <1>5 DEF Apart
  <1> QED BY <1>1, <1>3, <1>6, OfferChangedInv

LEMMA SetTradeGoldInv ==
    ASSUME Inv, NEW p \in Players, NEW g \in Amounts, HandleSetTradeGold(p, g)
    PROVE  Inv'
  <1> DEFINE t == [m_trade[p] EXCEPT !.money = g]
  <1>1. Paired(m_trade) /\ m_trade[p] # None /\ TradeUnchanged /\ OfferChanged(p, t)
    BY DEF HandleSetTradeGold, Inv, Trades
  <1>2. m_trade[p] \in TradeData
    BY <1>1, SideType
  <1>3. t \in TradeData /\ t.trader = m_trade[p].trader /\ t.items = m_trade[p].items
    BY <1>2, CustodyAssumption DEF TradeData
  <1>4. Apart(m_trade[p])
    BY <1>1, TradesAre DEF Inv
  <1> HIDE DEF t
  <1>5. Apart(t)
    BY <1>3, <1>4 DEF Apart
  <1> QED BY <1>1, <1>3, <1>5, OfferChangedInv

LEMMA InitiateInv ==
    ASSUME Inv, NEW p \in Players, NEW q \in Players, HandleInitiateTrade(p, q)
    PROVE  Inv'
  <1>1. Paired(m_trade) /\ TradeUnchanged /\ online' = online /\ p # q /\ {p, q} \subseteq online
        /\ m_trade' = [m_trade EXCEPT ![p] = NewTrade(q), ![q] = NewTrade(p)]
    BY DEF HandleInitiateTrade, Inv, Trades, TradeUnchanged
  <1>2. Paired(m_trade')
    BY <1>1, InitiateKeeps
  <1>3. /\ m_trade'[p] = NewTrade(q) /\ m_trade'[q] = NewTrade(p)
        /\ \A r \in Players \ {p, q} : m_trade'[r] = m_trade[r]
    BY <1>1 DEF Paired
  <1>4. Apart(NewTrade(p)) /\ Apart(NewTrade(q))
    BY DEF Apart, NewTrade
  <1>5. \A r \in Players : m_trade[r] # None => r \in online /\ Apart(m_trade[r])
    BY TradesAre DEF Inv
  <1>6. Trades'
    BY <1>1, <1>2, <1>3, <1>4, <1>5, TradesAreNext
  <1> QED BY <1>1, <1>6, TradeOnlyInv

LEMMA AcceptedInv ==
    ASSUME Inv, TradeUnchanged, Paired(m_trade'),
           \A r \in Players :
                /\ m_trade'[r] = None <=> m_trade[r] = None
                /\ m_trade[r] # None => m_trade'[r].items = m_trade[r].items
    PROVE  Inv'
  <1>1. \A r \in Players : m_trade[r] # None => r \in online /\ Apart(m_trade[r])
    BY TradesAre DEF Inv
  <1>2. online' = online
    BY DEF TradeUnchanged
  <1>3. \A r \in Players : m_trade'[r] # None => r \in online' /\ Apart(m_trade'[r])
    BY <1>1, <1>2 DEF Apart
  <1>4. Trades'
    BY <1>3, TradesAreNext
  <1> QED BY <1>4, TradeOnlyInv

LEMMA AcceptStepInv ==
    ASSUME Inv, NEW p \in Players,
           HandleUnacceptTrade(p) \/ AcceptFirst(p) \/ AcceptRefused(p) \/ AcceptNoSpace(p)
    PROVE  Inv'
  <1>1. Paired(m_trade) /\ TradeUnchanged /\ m_trade[p] # None
    BY DEF Inv, Trades, HandleUnacceptTrade, AcceptFirst, AcceptRefused, AcceptNoSpace, AcceptsSecond
  <1>2. \E q \in {p, m_trade[p].trader}, b, c \in BOOLEAN :
           m_trade' = [m_trade EXCEPT ![p].accepted = b, ![q].accepted = c]
    <2>1. CASE HandleUnacceptTrade(p) \/ AcceptFirst(p)
      <3>1. PICK b \in BOOLEAN : m_trade' = [m_trade EXCEPT ![p].accepted = b]
        BY <2>1 DEF HandleUnacceptTrade, AcceptFirst
      <3>2. m_trade' = [m_trade EXCEPT ![p].accepted = b, ![p].accepted = b]
        BY <1>1, <3>1, SideType DEF Paired, TradeData
      <3> QED BY <3>2
    <2>2. CASE AcceptRefused(p)
      <3>1. Refused(p) \in {p, m_trade[p].trader}
        BY <2>2 DEF AcceptRefused, Refused, Trader
      <3> QED BY <2>2, <3>1 DEF AcceptRefused
    <2>3. CASE AcceptNoSpace(p)
      BY <2>3 DEF AcceptNoSpace, AcceptsSecond, Trader
    <2> QED BY <2>1, <2>2, <2>3
  <1>3. PICK q \in {p, m_trade[p].trader}, b \in BOOLEAN, c \in BOOLEAN :
           m_trade' = [m_trade EXCEPT ![p].accepted = b, ![q].accepted = c]
    BY <1>2
  <1>4. /\ m_trade' \in [Players -> TradeData \cup {None}]
        /\ \A r \in Players :
                /\ m_trade'[r] = None <=> m_trade[r] = None
                /\ m_trade[r] # None => /\ m_trade'[r].trader = m_trade[r].trader
                                        /\ m_trade'[r].items = m_trade[r].items
                                        /\ m_trade'[r].money = m_trade[r].money
    BY <1>1, <1>3, AcceptedChange
  <1>5. Paired(m_trade')
    BY <1>1, <1>4, OnlyAccepted
  <1> QED BY <1>1, <1>4, <1>5, AcceptedInv

(* The trades that are left when one of them ends *)
LEMMA EndedTrades ==
    ASSUME Trades, NEW p \in Players, m_trade[p] # None
    PROVE  /\ Paired(NoTrades(p))
           /\ NoTrades(p)[p] = None
           /\ \A r \in Players : NoTrades(p)[r] # None => NoTrades(p)[r] = m_trade[r]
  <1>1. Paired(m_trade)
    BY DEF Trades
  <1>2. m_trade[p].trader \in Players
    BY <1>1, SideType
  <1>3. Paired(NoTrades(p))
    BY <1>1, NoTradesKeeps
  <1> QED BY <1>1, <1>2, <1>3 DEF NoTrades, Trader, Paired

LEMMA CancelInv ==
    ASSUME Inv, NEW p \in Players, HandleCancelTrade(p)
    PROVE  Inv'
  <1>1. Trades /\ TradeUnchanged /\ online' = online /\ m_trade[p] # None /\ m_trade' = NoTrades(p)
    BY DEF HandleCancelTrade, Inv, TradeUnchanged
  <1>2. Paired(m_trade') /\ \A r \in Players : m_trade'[r] # None => m_trade'[r] = m_trade[r]
    BY <1>1, EndedTrades
  <1>3. \A r \in Players : m_trade[r] # None => r \in online /\ Apart(m_trade[r])
    BY TradesAre DEF Inv
  <1>4. Trades'
    BY <1>1, <1>2, <1>3, TradesAreNext
  <1> QED BY <1>1, <1>4, TradeOnlyInv

-----------------------------------------------------------------------------
(* The steps of a mail that queue nothing *)

LEMMA MailFields ==
    ASSUME NEW x \in Mail
    PROVE  x.row \in MailRow /\ x.items \in SUBSET Items /\ x.deleted \in BOOLEAN /\ x # None
  BY NullAssumption DEF Mail

LEMMA MarkType ==
    ASSUME NEW x \in Mail, NEW b \in BOOLEAN
    PROVE  /\ [x EXCEPT !.deleted = b] \in Mail
           /\ [x EXCEPT !.deleted = b].row = x.row /\ [x EXCEPT !.deleted = b].items = x.items
  BY DEF Mail

LEMMA MarkInv ==
    ASSUME Inv, NEW p \in Players, NEW m \in MailIds, HandleMailDelete(p, m) \/ HandleMailMarkAsRead(p, m)
    PROVE  Inv'
  <1>1. /\ Types /\ Trades /\ Stages /\ Frozen /\ Logins /\ Memory /\ Saved
        /\ m_mail[m] # None
        /\ UNCHANGED <<m_items, money, mailId, queue, scenario, commits, discarded>>
        /\ UNCHANGED <<online, m_trade, auctions, loaded, db, up, crashes, unsent, expired>>
    BY DEF Inv, HandleMailDelete, HandleMailMarkAsRead, MailOf, MailUnchanged
  <1>2. PICK b \in BOOLEAN : m_mail' = [m_mail EXCEPT ![m].deleted = b]
    BY DEF HandleMailDelete, HandleMailMarkAsRead
  <1>3. m_mail[m] \in Mail /\ m_mail \in [MailIds -> Mail \cup {None}]
    BY <1>1 DEF Types
  <1> DEFINE x == [m_mail[m] EXCEPT !.deleted = b]
  <1>4. x \in Mail /\ x.row = m_mail[m].row /\ x.items = m_mail[m].items
    BY <1>3, MarkType
  <1>5. m_mail' = [m_mail EXCEPT ![m] = x]
    BY <1>2, <1>3
  <1> HIDE DEF x
  <1>6. /\ m_mail' \in [MailIds -> Mail \cup {None}] /\ m_mail'[m] = x
        /\ \A k \in MailIds \ {m} : m_mail'[k] = m_mail[k]
    BY <1>3, <1>4, <1>5
  <1>7. Settled' = Settled
    BY <1>1 DEF Settled
  <1>8. Types' /\ Trades' /\ Stages' /\ Logins'
    BY <1>1, <1>6 DEF Types, Trades, Stages, Logins
  <1>9. Memory'
    BY <1>1, <1>4, <1>6 DEF Memory
  <1>10. Frozen'
    BY <1>1, <1>7 DEF Frozen, Waits
  <1>11. Saved'
    BY <1>1, <1>4, <1>6, <1>7 DEF Saved
  <1> QED BY <1>8, <1>9, <1>10, <1>11 DEF Inv

-----------------------------------------------------------------------------
(* A transaction that moves items between inventories, auctions and mails.   *)
(* N are the new mails, D the mails it deletes, X the items taken out of     *)
(* mails, L the items destroyed, R the mails before deletions and new mails. *)

Delivers(S, e, N, D, X, L, R) ==
    /\ S \in Tables /\ e \in Tables
    /\ e.mail = [m \in MailIds |-> IF m \in DOMAIN N THEN N[m].row ELSE IF m \in D THEN None ELSE R[m]]
    /\ e.mail_items = [i \in Items |-> IF i \in Carried(N) THEN Carrier(N, i)
                                       ELSE IF i \in X \/ S.mail_items[i] \in D THEN None
                                       ELSE S.mail_items[i]]
    /\ e.item_instance = S.item_instance \ L

(* New mails have new ids and carry different items. *)
FreshMails(N, last, next) ==
    /\ N \in SentMails
    /\ \A m \in DOMAIN N : m > last /\ m <= next /\ (N[m].row.COD > 0 => N[m].row.sender # None)
    /\ \A m, k \in DOMAIN N : m # k => N[m].items \cap N[k].items = {}

(* Only mails of B, the players who have loaded theirs, are deleted or change. *)
MailsOf(S, D, X, R, B) ==
    /\ D \subseteq MailIds /\ \A m \in D : S.mail[m] # None /\ S.mail[m].receiver \in B
    /\ R \in [MailIds -> MailRow \cup {None}]
    /\ \A m \in MailIds : R[m] # S.mail[m] =>
          /\ S.mail[m] # None /\ S.mail[m].receiver \in B
          /\ R[m] # None /\ R[m].receiver = S.mail[m].receiver
          /\ R[m].COD > 0 => R[m].sender # None
    /\ X \subseteq Items
    /\ \A i \in X : S.mail_items[i] # None /\ S.mail[S.mail_items[i]] # None
                    /\ S.mail[S.mail_items[i]].receiver \in B

(* Items go to one place, and are given up only with their mail. *)
ItemsMove(S, e, N, D, X, L, gone) ==
    /\ \A i \in Carried(N) :
          /\ i \in S.item_instance \ L
          /\ e.character_inventory[i] = None /\ e.auctionhouse[i] = None
          /\ S.mail_items[i] = None \/ S.mail_items[i] \in D
    /\ L \subseteq Items /\ \A i \in L : S.mail_items[i] \in D /\ i \notin X
    /\ \A i \in X : /\ i \notin Carried(N) /\ i \in S.item_instance
                    /\ e.character_inventory[i] # None /\ e.auctionhouse[i] = None
    /\ \A i \in Items : e.character_inventory[i] # None => e.auctionhouse[i] = None
    /\ \A i \in Items \ X : e.character_inventory[i] # None \/ e.auctionhouse[i] # None =>
          S.character_inventory[i] # None \/ S.auctionhouse[i] # None
    /\ \A i \in Items : /\ S.character_inventory[i] # None \/ S.auctionhouse[i] # None
                        /\ i \notin Carried(N) /\ i \notin gone
                        => e.character_inventory[i] # None \/ e.auctionhouse[i] # None
    /\ \A i \in Items : S.mail_items[i] \in D /\ i \in S.item_instance \ (Carried(N) \cup X) => i \in gone

LEMMA FreshCarrier ==
    ASSUME NEW N, NEW last, NEW next, FreshMails(N, last, next)
    PROVE  /\ DOMAIN N \subseteq MailIds
           /\ \A m \in DOMAIN N : N[m].row \in MailRow /\ N[m].row # None /\ N[m].items \subseteq Items
           /\ \A i \in Carried(N) : Carrier(N, i) \in DOMAIN N /\ i \in N[Carrier(N, i)].items
           /\ \A m \in DOMAIN N : \A i \in N[m].items : i \in Carried(N) /\ Carrier(N, i) = m
  <1>1. N \in SentMails
    BY DEF FreshMails
  <1>2. DOMAIN N \subseteq MailIds /\ \A m \in DOMAIN N : N[m] \in DraftMail
    BY <1>1, SentMailsType
  <1>3. \A i \in Carried(N) : Carrier(N, i) \in DOMAIN N /\ i \in N[Carrier(N, i)].items
    BY <1>1, CarrierType
  <1>4. \A m \in DOMAIN N : N[m].row \in MailRow /\ N[m].row # None /\ N[m].items \subseteq Items
    BY <1>2, NullAssumption DEF DraftMail
  <1>5. \A m \in DOMAIN N : \A i \in N[m].items : i \in Carried(N)
    BY DEF Carried
  <1>6. \A m \in DOMAIN N : \A i \in N[m].items : Carrier(N, i) = m
    BY <1>3, <1>5 DEF FreshMails
  <1> QED BY <1>2, <1>3, <1>4, <1>5, <1>6

LEMMA DeliversGood ==
    ASSUME NEW S, NEW e, NEW N, NEW D, NEW X, NEW L, NEW R, NEW B, NEW I \in SUBSET Items,
           NEW gone, NEW more, NEW last \in Nat, NEW next \in Nat, last <= next, gone \subseteq more,
           Good(S, I, gone, last), Delivers(S, e, N, D, X, L, R), FreshMails(N, last, next),
           MailsOf(S, D, X, R, B), ItemsMove(S, e, N, D, X, L, more), Rich(e)
    PROVE  Good(e, I, more, next)
  <1>1. /\ DOMAIN N \subseteq MailIds
        /\ \A m \in DOMAIN N : N[m].row \in MailRow /\ N[m].row # None /\ N[m].items \subseteq Items
        /\ \A i \in Carried(N) : Carrier(N, i) \in DOMAIN N /\ i \in N[Carrier(N, i)].items
        /\ \A m \in DOMAIN N : \A i \in N[m].items : i \in Carried(N) /\ Carrier(N, i) = m
    BY FreshCarrier
  <1>2. S \in Tables /\ e \in Tables /\ OneRow(S) /\ Found(S, I, gone) /\ Numbered(S, last)
    BY DEF Good, Delivers
  <1>3. \A m \in MailIds : e.mail[m] = IF m \in DOMAIN N THEN N[m].row ELSE IF m \in D THEN None ELSE R[m]
    BY DEF Delivers
  <1>4. \A i \in Items : e.mail_items[i] = IF i \in Carried(N) THEN Carrier(N, i)
                                          ELSE IF i \in X \/ S.mail_items[i] \in D THEN None
                                          ELSE S.mail_items[i]
    BY DEF Delivers
  <1>5. e.item_instance = S.item_instance \ L
    BY DEF Delivers
  <1>6. \A m \in MailIds : R[m] = None => S.mail[m] = None
    BY DEF MailsOf
  <1>7. None \notin MailIds
    BY NullAssumption
  <1>8. \A i \in Items : S.mail_items[i] \in MailIds \cup {None}
    BY <1>2, TablesFields
  <1>9. OneRow(e)
    <2> SUFFICES ASSUME NEW i \in Items
                 PROVE  /\ e.character_inventory[i] # None => e.auctionhouse[i] = None /\ e.mail_items[i] = None
                        /\ e.auctionhouse[i] # None => e.mail_items[i] = None
                        /\ e.character_inventory[i] # None \/ e.auctionhouse[i] # None => i \in e.item_instance
                        /\ e.mail_items[i] # None /\ e.mail[e.mail_items[i]] = None => i \notin e.item_instance
      BY DEF OneRow
    <2>1. CASE i \in Carried(N)
      <3>1. e.character_inventory[i] = None /\ e.auctionhouse[i] = None
        BY <2>1 DEF ItemsMove
      <3>2. e.mail_items[i] \in DOMAIN N /\ e.mail[e.mail_items[i]] # None
        BY <1>1, <1>3, <1>4, <2>1
      <3> QED BY <3>1, <3>2
    <2>2. CASE i \notin Carried(N) /\ (i \in X \/ S.mail_items[i] \in D)
      <3>1. e.mail_items[i] = None
        BY <1>4, <2>2
      <3>2. e.character_inventory[i] # None => e.auctionhouse[i] = None
        BY DEF ItemsMove
      <3>3. CASE i \in X
        <4>1. i \in e.item_instance
          BY <1>5, <3>3 DEF ItemsMove
        <4> QED BY <3>1, <3>2, <4>1
      <3>4. CASE i \notin X
        <4>1. S.mail_items[i] # None
          BY <1>7, <2>2, <3>4 DEF MailsOf
        <4>2. e.character_inventory[i] = None /\ e.auctionhouse[i] = None
          BY <1>2, <3>4, <4>1 DEF ItemsMove, OneRow
        <4> QED BY <3>1, <4>2
      <3> QED BY <3>3, <3>4
    <2>3. CASE i \notin Carried(N) /\ i \notin X /\ S.mail_items[i] \notin D
      <3>1. e.mail_items[i] = S.mail_items[i] /\ i \notin L
        BY <1>4, <2>3 DEF ItemsMove
      <3>2. e.character_inventory[i] # None \/ e.auctionhouse[i] # None =>
              S.mail_items[i] = None /\ i \in S.item_instance
        BY <1>2, <2>3 DEF ItemsMove, OneRow
      <3>3. e.mail_items[i] # None /\ e.mail[e.mail_items[i]] = None => i \notin e.item_instance
        <4> SUFFICES ASSUME e.mail_items[i] # None, e.mail[e.mail_items[i]] = None PROVE i \notin e.item_instance
          OBVIOUS
        <4>1. S.mail_items[i] \in MailIds
          BY <1>8, <3>1
        <4>2. S.mail[S.mail_items[i]] = None
          BY <1>1, <1>3, <1>6, <2>3, <3>1, <4>1
        <4> QED BY <1>2, <1>5, <3>1, <4>2 DEF OneRow
      <3>4. e.character_inventory[i] # None => e.auctionhouse[i] = None
        BY DEF ItemsMove
      <3> QED BY <1>5, <3>1, <3>2, <3>3, <3>4
    <2> QED BY <2>1, <2>2, <2>3
  <1>10. Found(e, I, more)
    <2> SUFFICES ASSUME NEW i \in I, i \notin more
                 PROVE  /\ i \in e.item_instance
                        /\ e.character_inventory[i] # None \/ e.auctionhouse[i] # None \/ e.mail_items[i] # None
      BY DEF Found
    <2>1. /\ i \in Items /\ i \in S.item_instance
          /\ S.character_inventory[i] # None \/ S.auctionhouse[i] # None \/ S.mail_items[i] # None
      BY <1>2 DEF Found
    <2>2. S.mail_items[i] \in D => i \in Carried(N) \cup X
      BY <2>1 DEF ItemsMove
    <2>3. i \in e.item_instance
      BY <1>5, <2>1, <2>2 DEF ItemsMove
    <2>4. CASE i \in Carried(N)
      BY <1>1, <1>4, <1>7, <2>1, <2>3, <2>4
    <2>5. CASE i \in X
      BY <2>3, <2>5 DEF ItemsMove
    <2>6. CASE i \notin Carried(N) /\ i \notin X
      <3>1. S.mail_items[i] # None => e.mail_items[i] # None
        BY <1>4, <2>1, <2>2, <2>6
      <3>2. S.character_inventory[i] # None \/ S.auctionhouse[i] # None =>
              e.character_inventory[i] # None \/ e.auctionhouse[i] # None
        BY <2>1, <2>6 DEF ItemsMove
      <3> QED BY <2>1, <2>3, <3>1, <3>2
    <2> QED BY <2>4, <2>5, <2>6
  <1>11. Numbered(e, next)
    <2> SUFFICES ASSUME NEW m \in MailIds, e.mail[m] # None
                 PROVE  m <= next /\ (e.mail[m].COD > 0 => e.mail[m].sender # None)
      BY DEF Numbered
    <2>1. CASE m \in DOMAIN N
      BY <1>3, <2>1 DEF FreshMails
    <2>2. CASE m \notin DOMAIN N
      <3>1. e.mail[m] = R[m] /\ S.mail[m] # None
        BY <1>3, <2>2 DEF MailsOf
      <3>2. m <= last /\ m \in Nat /\ (S.mail[m].COD > 0 => S.mail[m].sender # None)
        BY <1>2, <3>1 DEF Numbered, MailIds
      <3>3. e.mail[m].COD > 0 => e.mail[m].sender # None
        BY <3>1, <3>2 DEF MailsOf
      <3> QED BY <3>2, <3>3
    <2> QED BY <2>1, <2>2
  <1> QED BY <1>2, <1>9, <1>10, <1>11 DEF Good

(* Nothing happens to the mails of the others. *)
LEMMA DeliversSame ==
    ASSUME NEW S, NEW e, NEW N, NEW D, NEW X, NEW L, NEW R, NEW B,
           NEW I, NEW gone, NEW more, NEW last \in Nat, NEW next,
           Good(S, I, gone, last), Delivers(S, e, N, D, X, L, R), FreshMails(N, last, next),
           MailsOf(S, D, X, R, B), ItemsMove(S, e, N, D, X, L, more), NEW p, p \notin B
    PROVE  SameMails(p, S, e)
  <1>1. /\ DOMAIN N \subseteq MailIds
        /\ \A i \in Carried(N) : Carrier(N, i) \in DOMAIN N /\ i \in N[Carrier(N, i)].items
    BY FreshCarrier
  <1>2. S \in Tables /\ OneRow(S) /\ Numbered(S, last)
    BY DEF Good
  <1> SUFFICES ASSUME NEW m \in MailIds, S.mail[m] # None, S.mail[m].receiver = p
               PROVE  e.mail[m] = S.mail[m] /\ Contents(e, m) = Contents(S, m)
    BY DEF SameMails
  <1>3. m \notin DOMAIN N /\ m # None
    <2>1. m <= last /\ m \in Nat
      BY <1>2 DEF Numbered, MailIds
    <2>2. \A k \in DOMAIN N : k > last
      BY DEF FreshMails
    <2> QED BY <2>1, <2>2, NullAssumption
  <1>4. m \notin D /\ R[m] = S.mail[m]
    BY DEF MailsOf
  <1>5. e.mail[m] = S.mail[m]
    BY <1>3, <1>4 DEF Delivers
  <1>6. \A i \in Items : e.mail_items[i] = m /\ i \in e.item_instance <=> S.mail_items[i] = m /\ i \in S.item_instance
    <2> SUFFICES ASSUME NEW i \in Items
                 PROVE  e.mail_items[i] = m /\ i \in e.item_instance <=> S.mail_items[i] = m /\ i \in S.item_instance
      OBVIOUS
    <2>1. /\ e.mail_items[i] = IF i \in Carried(N) THEN Carrier(N, i)
                               ELSE IF i \in X \/ S.mail_items[i] \in D THEN None ELSE S.mail_items[i]
          /\ e.item_instance = S.item_instance \ L
      BY DEF Delivers
    <2>2. i \in Carried(N) => e.mail_items[i] # m /\ S.mail_items[i] # m
      BY <1>1, <1>3, <1>4, <2>1 DEF ItemsMove
    <2>3. i \in X => S.mail_items[i] # m
      BY DEF MailsOf
    <2>4. i \in L => S.mail_items[i] # m
      BY <1>4 DEF ItemsMove
    <2> QED BY <1>3, <1>4, <2>1, <2>2, <2>3, <2>4
  <1>7. Contents(e, m) = Contents(S, m)
    BY <1>6 DEF Contents, MailedIn
  <1> QED BY <1>5, <1>7

(* The mails in memory follow: box are the opened mails without the deleted  *)
(* ones, with what was changed or taken out.                                 *)
Opened(S, box, D, X, R, B) ==
    /\ box \in [MailIds -> Mail \cup {None}]
    /\ \A m \in MailIds : box[m] # None =>
          /\ m \notin D /\ S.mail[m] # None /\ box[m].row = R[m] /\ box[m].row.receiver \in B
          /\ box[m].items = Contents(S, m) \ X

Receives(new, N, box, B) ==
    new = [m \in MailIds |-> IF m \in DOMAIN N /\ N[m].row.receiver \in B
                             THEN [row |-> N[m].row, items |-> N[m].items, deleted |-> FALSE]
                             ELSE box[m]]

LEMMA DeliversOpened ==
    ASSUME NEW S, NEW e, NEW N, NEW D, NEW X, NEW L, NEW R, NEW B,
           NEW I, NEW gone, NEW more, NEW last \in Nat, NEW next,
           Good(S, I, gone, last), Delivers(S, e, N, D, X, L, R), FreshMails(N, last, next),
           MailsOf(S, D, X, R, B), ItemsMove(S, e, N, D, X, L, more),
           NEW box, Opened(S, box, D, X, R, B), NEW new, Receives(new, N, box, B)
    PROVE  /\ new \in [MailIds -> Mail \cup {None}]
           /\ \A m \in MailIds : new[m] # None =>
                /\ new[m].row = e.mail[m] /\ new[m].row.receiver \in B
                /\ new[m].items = MailedIn(e.mail_items, m) \cap e.item_instance
  <1>0. /\ box \in [MailIds -> Mail \cup {None}]
        /\ \A m \in MailIds : box[m] # None =>
              /\ m \notin D /\ S.mail[m] # None /\ box[m].row = R[m] /\ box[m].row.receiver \in B
              /\ box[m].items = Contents(S, m) \ X
    BY DEF Opened
  <1>9. /\ DOMAIN new = MailIds
        /\ \A m \in MailIds : new[m] = IF m \in DOMAIN N /\ N[m].row.receiver \in B
                                        THEN [row |-> N[m].row, items |-> N[m].items, deleted |-> FALSE]
                                        ELSE box[m]
        /\ new = [m \in MailIds |-> new[m]]
    BY DEF Receives
  <1>1. /\ DOMAIN N \subseteq MailIds
        /\ \A m \in DOMAIN N : N[m].row \in MailRow /\ N[m].row # None /\ N[m].items \subseteq Items
        /\ \A i \in Carried(N) : Carrier(N, i) \in DOMAIN N /\ i \in N[Carrier(N, i)].items
        /\ \A m \in DOMAIN N : \A i \in N[m].items : i \in Carried(N) /\ Carrier(N, i) = m
    BY FreshCarrier
  <1>2. S \in Tables /\ OneRow(S) /\ Numbered(S, last)
    BY DEF Good
  <1>3. \A m \in DOMAIN N : S.mail[m] = None
    <2>1. \A m \in DOMAIN N : m \in Nat /\ m > last
      BY <1>1 DEF FreshMails, MailIds
    <2> QED BY <1>1, <1>2, <2>1 DEF Numbered
  <1>4. \A m \in MailIds, i \in Items :
           /\ e.mail_items[i] = IF i \in Carried(N) THEN Carrier(N, i)
                                ELSE IF i \in X \/ S.mail_items[i] \in D THEN None ELSE S.mail_items[i]
           /\ e.item_instance = S.item_instance \ L
           /\ e.mail[m] = IF m \in DOMAIN N THEN N[m].row ELSE IF m \in D THEN None ELSE R[m]
    BY DEF Delivers
  <1>5. ASSUME NEW m \in DOMAIN N PROVE N[m].items = MailedIn(e.mail_items, m) \cap e.item_instance
    <2>1. m \in MailIds /\ m # None
      BY <1>1, NullAssumption
    <2>2. ASSUME NEW i \in Items PROVE i \in N[m].items <=> e.mail_items[i] = m /\ i \in e.item_instance
      <3>1. CASE i \in Carried(N)
        <4>1. i \in e.item_instance
          BY <1>4, <2>1, <3>1 DEF ItemsMove
        <4> QED BY <1>1, <1>4, <2>1, <3>1, <4>1
      <3>2. CASE i \notin Carried(N)
        <4>1. i \notin N[m].items
          BY <1>1, <3>2
        <4>2. e.mail_items[i] = m => S.mail_items[i] = m
          BY <1>4, <2>1, <3>2
        <4>3. S.mail_items[i] = m => i \notin S.item_instance
          BY <1>2, <1>3, <2>1 DEF OneRow
        <4> QED BY <1>4, <2>1, <4>1, <4>2, <4>3
      <3> QED BY <3>1, <3>2
    <2> QED BY <1>1, <2>2 DEF MailedIn
  <1>6. ASSUME NEW m \in MailIds, box[m] # None, m \notin DOMAIN N
        PROVE  /\ box[m].row = e.mail[m]
               /\ box[m].items = MailedIn(e.mail_items, m) \cap e.item_instance
    <2>1. m \notin D /\ box[m].row = R[m] /\ box[m].items = Contents(S, m) \ X /\ m # None
      BY <1>0, <1>6, NullAssumption
    <2>2. ASSUME NEW i \in Items
          PROVE  S.mail_items[i] = m /\ i \in S.item_instance /\ i \notin X
                 <=> e.mail_items[i] = m /\ i \in e.item_instance
      <3>1. i \in Carried(N) => e.mail_items[i] # m /\ S.mail_items[i] # m
        BY <1>1, <1>4, <1>6, <2>1 DEF ItemsMove
      <3>2. i \in L => S.mail_items[i] # m
        BY <2>1 DEF ItemsMove
      <3> QED BY <1>4, <2>1, <3>1, <3>2
    <2>3. e.mail[m] = R[m]
      BY <1>4, <1>6, <2>1, CustodyAssumption DEF Delivers
    <2> QED BY <2>1, <2>2, <2>3 DEF Contents, MailedIn
  <1>7. new \in [MailIds -> Mail \cup {None}]
    <2>1. \A m \in DOMAIN N : [row |-> N[m].row, items |-> N[m].items, deleted |-> FALSE] \in Mail
      BY <1>1 DEF Mail
    <2> QED BY <1>0, <1>9, <2>1
  <1>8. ASSUME NEW m \in MailIds, new[m] # None
        PROVE  /\ new[m].row = e.mail[m] /\ new[m].row.receiver \in B
               /\ new[m].items = MailedIn(e.mail_items, m) \cap e.item_instance
    <2>1. CASE m \in DOMAIN N /\ N[m].row.receiver \in B
      <3>1. new[m] = [row |-> N[m].row, items |-> N[m].items, deleted |-> FALSE] /\ e.mail[m] = N[m].row
        BY <1>9, <2>1 DEF Delivers
      <3> QED BY <1>5, <2>1, <3>1
    <2>2. CASE ~(m \in DOMAIN N /\ N[m].row.receiver \in B)
      <3>1. new[m] = box[m] /\ S.mail[m] # None
        BY <1>0, <1>8, <1>9, <2>2
      <3>2. m \notin DOMAIN N
        BY <1>3, <3>1
      <3> QED BY <1>0, <1>6, <1>8, <3>1, <3>2
    <2> QED BY <2>1, <2>2
  <1> QED BY <1>7, <1>8

-----------------------------------------------------------------------------
(* The mails of a handler *)

Carries(drafts) == UNION {drafts[k].items : k \in 1..Len(drafts)}

Proper(drafts) ==
    /\ drafts \in Seq(DraftMail)
    /\ \A k \in 1..Len(drafts) : drafts[k].row.COD > 0 => drafts[k].row.sender # None
    /\ \A j, k \in 1..Len(drafts) : j # k => drafts[j].items \cap drafts[k].items = {}

LEMMA DraftsFresh ==
    ASSUME NEW drafts, Proper(drafts), mailId \in 0..MaxMails, mailId + Len(drafts) <= MaxMails
    PROVE  /\ FreshMails(NewMails(drafts), mailId, mailId + Len(drafts))
           /\ Carried(NewMails(drafts)) = Carries(drafts)
           /\ Len(drafts) \in Nat /\ mailId + Len(drafts) \in 0..MaxMails
  <1> DEFINE N == NewMails(drafts)
             n == Len(drafts)
             A == (mailId + 1)..(mailId + n)
  <1>1. mailId \in Nat /\ n \in Nat /\ MaxMails \in Nat /\ drafts \in Seq(DraftMail)
    BY CustodyAssumption DEF Proper
  <1>2. \A m \in A : m \in MailIds /\ m > mailId /\ m <= mailId + n /\ m - mailId \in 1..n
    BY <1>1 DEF MailIds
  <1>3. DOMAIN N = A /\ \A m \in A : N[m] = drafts[m - mailId]
    BY DEF NewMails
  <1>4. \A m \in A : drafts[m - mailId] \in DraftMail
    BY <1>1, <1>2
  <1>5. N \in [A -> DraftMail]
    BY <1>4 DEF NewMails
  <1>6. N \in SentMails
    BY <1>2, <1>5 DEF SentMails
  <1> HIDE DEF N
  <1>7. \A m \in A : N[m].row.COD > 0 => N[m].row.sender # None
    BY <1>2, <1>3 DEF Proper
  <1>8. \A m, k \in A : m # k => N[m].items \cap N[k].items = {}
    <2> SUFFICES ASSUME NEW m \in A, NEW k \in A, m # k PROVE N[m].items \cap N[k].items = {}
      OBVIOUS
    <2>1. m - mailId # k - mailId
      BY <1>1
    <2> QED BY <1>2, <1>3, <2>1 DEF Proper
  <1>9. FreshMails(N, mailId, mailId + n)
    BY <1>2, <1>3, <1>6, <1>7, <1>8 DEF FreshMails
  <1>10. Carried(N) = Carries(drafts)
    <2>1. \A k \in 1..n : mailId + k \in A /\ (mailId + k) - mailId = k
      BY <1>1
    <2>2. \A k \in 1..n : mailId + k \in DOMAIN N /\ N[mailId + k] = drafts[k]
      BY <1>3, <2>1
    <2>3. \A m \in DOMAIN N : m - mailId \in 1..n /\ N[m] = drafts[m - mailId]
      BY <1>2, <1>3
    <2> QED BY <2>2, <2>3 DEF Carried, Carries
  <1> QED BY <1>1, <1>9, <1>10 DEF N

LEMMA ProperNone == Proper(<<>>) /\ Carries(<<>>) = {} /\ Len(<<>>) = 0
  BY DEF Proper, Carries

LEMMA ProperOne ==
    ASSUME NEW x \in DraftMail, x.row.COD > 0 => x.row.sender # None
    PROVE  Proper(<<x>>) /\ Carries(<<x>>) = x.items
  <1> DEFINE t == <<x>>
  <1>1. t \in Seq(DraftMail) /\ Len(t) = 1 /\ t[1] = x
    OBVIOUS
  <1> HIDE DEF t
  <1>2. \A k \in 1..1 : k = 1
    OBVIOUS
  <1>3. Proper(t)
    BY <1>1, <1>2 DEF Proper
  <1>4. Carries(t) = x.items
    BY <1>1, <1>2 DEF Carries
  <1> QED BY <1>3, <1>4 DEF t

LEMMA ProperTwo ==
    ASSUME NEW x \in DraftMail, x.row.COD > 0 => x.row.sender # None, x.items = {},
           NEW y \in DraftMail, y.row.COD > 0 => y.row.sender # None
    PROVE  Proper(<<x, y>>) /\ Carries(<<x, y>>) = y.items
  <1> DEFINE t == <<x, y>>
  <1>1. t \in Seq(DraftMail) /\ Len(t) = 2 /\ t[1] = x /\ t[2] = y
    OBVIOUS
  <1> HIDE DEF t
  <1>2. \A k \in 1..2 : k = 1 \/ k = 2
    OBVIOUS
  <1>3. Proper(t)
    BY <1>1, <1>2 DEF Proper
  <1>4. Carries(t) = y.items
    BY <1>1, <1>2 DEF Carries
  <1> QED BY <1>3, <1>4 DEF t

LEMMA ProperThree ==
    ASSUME NEW w \in DraftMail, w.row.COD > 0 => w.row.sender # None, w.items = {},
           NEW x \in DraftMail, x.row.COD > 0 => x.row.sender # None, x.items = {},
           NEW y \in DraftMail, y.row.COD > 0 => y.row.sender # None
    PROVE  Proper(<<w, x, y>>) /\ Carries(<<w, x, y>>) = y.items
  <1> DEFINE t == <<w, x, y>>
  <1>1. t \in Seq(DraftMail) /\ Len(t) = 3 /\ t[1] = w /\ t[2] = x /\ t[3] = y
    OBVIOUS
  <1> HIDE DEF t
  <1>2. \A k \in 1..3 : k = 1 \/ k = 2 \/ k = 3
    OBVIOUS
  <1>3. Proper(t)
    BY <1>1, <1>2 DEF Proper
  <1>4. Carries(t) = y.items
    BY <1>1, <1>2 DEF Carries
  <1> QED BY <1>3, <1>4 DEF t

LEMMA DraftType ==
    ASSUME NEW from \in Players \cup {None}, NEW to \in Players, NEW S \in SUBSET Items,
           NEW g \in Nat, NEW cod \in Nat, NEW ret \in BOOLEAN
    PROVE  /\ Draft(from, to, S, g, cod, ret) \in DraftMail
           /\ Draft(from, to, S, g, cod, ret).items = S
           /\ Draft(from, to, S, g, cod, ret).row.COD = cod
           /\ Draft(from, to, S, g, cod, ret).row.sender = from
  BY DEF Draft, DraftMail, MailRow

LEMMA AuctionMailType ==
    ASSUME NEW to \in Players, NEW S \in SUBSET Items, NEW g \in Nat
    PROVE  /\ AuctionMail(to, S, g) \in DraftMail
           /\ AuctionMail(to, S, g).items = S
           /\ AuctionMail(to, S, g).row.COD > 0 => AuctionMail(to, S, g).row.sender # None
  <1>1. /\ AuctionMail(to, S, g) \in DraftMail
        /\ AuctionMail(to, S, g).items = S
        /\ AuctionMail(to, S, g).row.COD = 0
    BY DEF AuctionMail, Draft, DraftMail, MailRow
  <1> QED BY <1>1

-----------------------------------------------------------------------------
(* What the parts of a transaction do *)

LEMMA RunBoth ==
    ASSUME NEW t \in Seq(Statement), NEW u \in Seq(Statement), NEW d
    PROVE  /\ RunAll(d, t \o u) = RunAll(RunAll(d, t), u)
           /\ t \o u \in Seq(Statement)
  <1>1. RunAll(d, t \o u) = RunAll(RunAll(d, t), u)
    BY RunAllConcat
  <1>2. t \o u \in Seq(Statement)
    OBVIOUS
  <1> QED BY <1>1, <1>2

LEMMA RunThen ==
    ASSUME NEW t \in Seq(Statement), NEW s \in Statement, NEW d
    PROVE  /\ RunAll(d, t \o <<s>>) = Run(RunAll(d, t), s)
           /\ t \o <<s>> \in Seq(Statement)
  <1> DEFINE u == <<s>>
  <1>1. u \in Seq(Statement)
    OBVIOUS
  <1>2. \A x : RunAll(x, u) = Run(x, s)
    BY RunAllOne
  <1> HIDE DEF u
  <1>3. RunAll(d, t \o u) = Run(RunAll(d, t), s) /\ t \o u \in Seq(Statement)
    BY <1>1, <1>2, RunBoth
  <1> QED BY <1>3 DEF u

LEMMA RunTwo ==
    ASSUME NEW s \in Statement, NEW u \in Statement, NEW d
    PROVE  RunAll(d, <<s, u>>) = Run(Run(d, s), u) /\ <<s, u>> \in Seq(Statement)
  <1> DEFINE t == <<s, u>>
  <1>1. Len(t) = 2 /\ t[1] = s /\ t[2] = u /\ t \in Seq(Statement)
    OBVIOUS
  <1> HIDE DEF t
  <1>4. Len(t) \in Nat
    BY <1>1
  <1>5. PICK run : IsRun(run, d, t, Len(t)) /\ RunAll(d, t) = run[Len(t)]
    BY <1>4, RunAllDef
  <1>2. IsRun(run, d, t, 2) /\ RunAll(d, t) = run[2]
    BY <1>1, <1>5
  <1>3. run[0] = d /\ run[1] = Run(run[0], t[1]) /\ run[2] = Run(run[1], t[2])
    BY <1>2 DEF IsRun
  <1> QED BY <1>1, <1>2, <1>3 DEF t

LEMMA RunThree ==
    ASSUME NEW s \in Statement, NEW u \in Statement, NEW v \in Statement, NEW d
    PROVE  RunAll(d, <<s, u, v>>) = Run(Run(Run(d, s), u), v) /\ <<s, u, v>> \in Seq(Statement)
  <1> DEFINE t == <<s, u, v>>
  <1>1. Len(t) = 3 /\ t[1] = s /\ t[2] = u /\ t[3] = v /\ t \in Seq(Statement)
    OBVIOUS
  <1> HIDE DEF t
  <1>4. Len(t) \in Nat
    BY <1>1
  <1>5. PICK run : IsRun(run, d, t, Len(t)) /\ RunAll(d, t) = run[Len(t)]
    BY <1>4, RunAllDef
  <1>2. IsRun(run, d, t, 3) /\ RunAll(d, t) = run[3]
    BY <1>1, <1>5
  <1>3. run[0] = d /\ run[1] = Run(run[0], t[1]) /\ run[2] = Run(run[1], t[2]) /\ run[3] = Run(run[2], t[3])
    BY <1>2 DEF IsRun
  <1> QED BY <1>1, <1>2, <1>3 DEF t

LEMMA GoldStmts ==
    ASSUME NEW p \in Players, NEW g \in Nat
    PROVE  SaveGoldToDB(p, g) \in Seq(Statement)
  <1> DEFINE s == [stmt |-> "UPD_CHAR_MONEY", player |-> p, money |-> g]
  <1>1. s \in Statement
    BY DEF Statement
  <1>2. SaveGoldToDB(p, g) = <<s>>
    BY DEF SaveGoldToDB
  <1> HIDE DEF s
  <1> QED BY <1>1, <1>2

LEMMA GoldDb ==
    ASSUME NEW d \in Tables, NEW p \in Players, NEW g \in Nat, NEW e, e = RunAll(d, SaveGoldToDB(p, g))
    PROVE  /\ e \in Tables
           /\ e.money = Put(d.money, {p}, g)
           /\ e.character_inventory = d.character_inventory
           /\ e.item_instance = d.item_instance /\ e.auctionhouse = d.auctionhouse
           /\ e.mail = d.mail /\ e.mail_items = d.mail_items
  <1> DEFINE s == [stmt |-> "UPD_CHAR_MONEY", player |-> p, money |-> g]
  <1>2. SaveGoldToDB(p, g) = <<s>>
    BY DEF SaveGoldToDB
  <1> HIDE DEF s
  <1>3. e = Run(d, s)
    BY <1>2, RunAllOne
  <1> QED BY <1>3, RunMoney DEF s

LEMMA MailDb ==
    ASSUME NEW d \in Tables, NEW drafts, NewMails(drafts) \in SentMails,
           NEW e, e = RunAll(d, SendMailToStmts(drafts))
    PROVE  /\ SendMailToStmts(drafts) \in Seq(Statement)
           /\ e \in Tables
           /\ e.mail = [m \in MailIds |-> IF m \in DOMAIN NewMails(drafts) THEN NewMails(drafts)[m].row
                                          ELSE d.mail[m]]
           /\ e.mail_items = [i \in Items |-> IF i \in Carried(NewMails(drafts)) THEN Carrier(NewMails(drafts), i)
                                              ELSE d.mail_items[i]]
           /\ e.money = d.money /\ e.character_inventory = d.character_inventory
           /\ e.item_instance = d.item_instance /\ e.auctionhouse = d.auctionhouse
  <1> DEFINE N == NewMails(drafts)
             s == [stmt |-> "INS_MAIL", mails |-> N]
             u == [stmt |-> "INS_MAIL_ITEM", mails |-> N]
             f == Run(d, s)
  <1>1. N \in SentMails
    OBVIOUS
  <1>2. SendMailToStmts(drafts) = <<s, u>>
    BY DEF SendMailToStmts
  <1> HIDE DEF N
  <1>3. s \in Statement /\ u \in Statement
    BY <1>1 DEF Statement
  <1> HIDE DEF s, u
  <1>4. <<s, u>> \in Seq(Statement) /\ RunAll(d, <<s, u>>) = Run(f, u)
    BY <1>3, RunTwo
  <1>6. e = Run(f, u)
    BY <1>2, <1>4
  <1>7. /\ f \in Tables
        /\ f.mail = [m \in MailIds |-> IF m \in DOMAIN N THEN N[m].row ELSE d.mail[m]]
        /\ f.character_inventory = d.character_inventory
        /\ f.item_instance = d.item_instance /\ f.money = d.money
        /\ f.auctionhouse = d.auctionhouse /\ f.mail_items = d.mail_items
    BY <1>1, RunMails DEF s
  <1> HIDE DEF f
  <1>8. /\ e \in Tables
        /\ e.mail_items = [i \in Items |-> IF i \in Carried(N) THEN Carrier(N, i) ELSE f.mail_items[i]]
        /\ e.character_inventory = f.character_inventory
        /\ e.item_instance = f.item_instance /\ e.money = f.money
        /\ e.auctionhouse = f.auctionhouse /\ e.mail = f.mail
    BY <1>1, <1>6, <1>7, RunMailItems DEF u
  <1> QED BY <1>2, <1>4, <1>7, <1>8 DEF N

LEMMA DeletedDb ==
    ASSUME NEW d \in Tables, NEW p, NEW box, DeletedItems(p, box) \subseteq Items,
           NEW e, e = RunAll(d, SaveDeleted(p, box))
    PROVE  /\ SaveDeleted(p, box) \in Seq(Statement)
           /\ e \in Tables
           /\ e.mail = Put(d.mail, DeletedMails(p, box), None)
           /\ e.mail_items = [i \in Items |-> IF d.mail_items[i] \in DeletedMails(p, box) THEN None
                                              ELSE d.mail_items[i]]
           /\ e.item_instance = d.item_instance \ DeletedItems(p, box)
           /\ e.money = d.money /\ e.character_inventory = d.character_inventory
           /\ e.auctionhouse = d.auctionhouse
  <1> DEFINE D == DeletedMails(p, box)
             L == DeletedItems(p, box)
             s == [stmt |-> "DEL_ITEM_INSTANCE", items |-> L]
             u == [stmt |-> "DEL_MAIL_BY_ID", ids |-> D]
             v == [stmt |-> "DEL_MAIL_ITEM_BY_ID", ids |-> D]
             f == Run(d, s)
             h == Run(f, u)
  <1>1. D \in SUBSET MailIds /\ L \in SUBSET Items
    BY DEF DeletedMails
  <1>2. SaveDeleted(p, box) = <<s, u, v>>
    BY DEF SaveDeleted
  <1> HIDE DEF D, L
  <1>3. s \in Statement /\ u \in Statement /\ v \in Statement
    BY <1>1 DEF Statement
  <1> HIDE DEF s, u, v
  <1>4. <<s, u, v>> \in Seq(Statement) /\ RunAll(d, <<s, u, v>>) = Run(h, v)
    BY <1>3, RunThree
  <1>7. e = Run(h, v)
    BY <1>2, <1>4
  <1>8. /\ f \in Tables
        /\ f.item_instance = d.item_instance \ L
        /\ f.character_inventory = d.character_inventory
        /\ f.money = d.money /\ f.auctionhouse = d.auctionhouse
        /\ f.mail = d.mail /\ f.mail_items = d.mail_items
    BY <1>1, RunInstance DEF s
  <1> HIDE DEF f
  <1>9. /\ h \in Tables
        /\ h.mail = Put(f.mail, D, None)
        /\ h.character_inventory = f.character_inventory
        /\ h.item_instance = f.item_instance /\ h.money = f.money
        /\ h.auctionhouse = f.auctionhouse /\ h.mail_items = f.mail_items
    BY <1>1, <1>8, RunNoMail DEF u
  <1> HIDE DEF h
  <1>10. /\ e \in Tables
         /\ e.mail_items = [i \in Items |-> IF h.mail_items[i] \in D THEN None ELSE h.mail_items[i]]
         /\ e.character_inventory = h.character_inventory
         /\ e.item_instance = h.item_instance /\ e.money = h.money
         /\ e.auctionhouse = h.auctionhouse /\ e.mail = h.mail
    BY <1>1, <1>7, <1>9, RunNoMailItems DEF v
  <1> QED BY <1>2, <1>4, <1>8, <1>9, <1>10 DEF D, L

-----------------------------------------------------------------------------
(* A handler that queues one transaction: what its changes of the memory and *)
(* of the tables must have in common                                         *)

LEMMA OpenedMails ==
    ASSUME Inv
    PROVE  /\ m_mail \in [MailIds -> Mail \cup {None}]
           /\ \A m \in MailIds : m_mail[m] # None =>
                /\ m_mail[m] \in Mail /\ m_mail[m].row = Settled.mail[m] /\ Settled.mail[m] # None
                /\ m_mail[m].row.receiver \in loaded
                /\ m_mail[m].items = Contents(Settled, m)
  <1>1. m_mail \in [MailIds -> Mail \cup {None}]
    BY DEF Inv, Types
  <1>2. \A m \in MailIds : m_mail[m] # None => m_mail[m].row # None
    BY <1>1, MailFields, NullAssumption
  <1> QED BY <1>1, <1>2 DEF Inv, Memory, Saved, Contents

LEMMA DealInv ==
    ASSUME Inv, NEW t \in Seq(Statement), Commit(t), NEW e, e = RunAll(Settled, t),
           NEW drafts, Proper(drafts), NEW box, SendMails(drafts, box),
           NEW D, NEW X, NEW L, NEW R,
           Delivers(Settled, e, NewMails(drafts), D, X, L, R),
           MailsOf(Settled, D, X, R, loaded),
           ItemsMove(Settled, e, NewMails(drafts), D, X, L, discarded' \cup unsent'),
           Opened(Settled, box, D, X, R, loaded),
           Rich(e),
           db' = db, up' = up, crashes' = crashes, expired' = expired,
           online' \subseteq online, loaded' \subseteq online', online' \ loaded' \subseteq online \ loaded,
           loaded' = loaded \/ \A m \in MailIds : m_mail'[m] # None => m_mail'[m].row.receiver \in loaded',
           discarded \subseteq discarded', discarded' \subseteq Items,
           unsent \subseteq unsent', unsent' \subseteq Items,
           m_items' \in [Items -> online' \cup {None}],
           money' \in [Players -> 0..(MaxMoney - 1)],
           auctions' \in [Items -> Auction \cup {None}],
           \A p \in Players \ online : SameGoods(p, Settled, e),
           up => auctions' = e.auctionhouse,
           \A i \in Items, p \in online' : m_items'[i] = p <=> e.character_inventory[i] = p,
           \A p \in online' : e.money[p] - money'[p] \in {0, Deposit},
           Trades'
    PROVE  Inv'
  <1> DEFINE S == Settled
             N == NewMails(drafts)
             n == mailId + Len(drafts)
             gone == discarded \cup unsent
             more == discarded' \cup unsent'
  <1>1. Types /\ Stages /\ Frozen /\ Logins /\ Memory
    BY DEF Inv
  <1>2. n <= MaxMails /\ mailId' = n /\ m_mail' = InMemory(drafts, box)
    BY DEF SendMails
  <1>3. mailId \in 0..MaxMails
    BY <1>1 DEF Types
  <1>4. FreshMails(N, mailId, n) /\ n \in 0..MaxMails /\ Len(drafts) \in Nat
    BY <1>2, <1>3, DraftsFresh
  <1>5. mailId \in Nat /\ n \in Nat /\ mailId <= n
    BY <1>3, <1>4
  <1>6. Good(S, scenario.items, gone, mailId)
    BY <1>1, SettledGood
  <1>7. scenario.items \in SUBSET Items /\ gone \subseteq more
    BY <1>1, CustodyAssumption, SMTT(30) DEF Types
  <1>8. Delivers(S, e, N, D, X, L, R) /\ MailsOf(S, D, X, R, loaded) /\ ItemsMove(S, e, N, D, X, L, more)
    OBVIOUS
  <1> HIDE DEF S, N, n, gone, more
  <1>9. Good(e, scenario.items, more, n)
    BY <1>4, <1>5, <1>6, <1>7, <1>8, DeliversGood
  <1>10. \A p \in Players \ loaded : SameMails(p, S, e)
    BY <1>4, <1>5, <1>6, <1>8, DeliversSame
  <1>11. Receives(m_mail', N, box, loaded)
    BY <1>2 DEF Receives, InMemory, N
  <1>12. Opened(S, box, D, X, R, loaded)
    BY DEF S
  <1>13. /\ m_mail' \in [MailIds -> Mail \cup {None}]
         /\ \A m \in MailIds : m_mail'[m] # None =>
                /\ m_mail'[m].row = e.mail[m] /\ m_mail'[m].row.receiver \in loaded
                /\ m_mail'[m].items = MailedIn(e.mail_items, m) \cap e.item_instance
    BY <1>4, <1>5, <1>6, <1>8, <1>11, <1>12, DeliversOpened
  <1>14. /\ Stages' /\ Frozen' /\ Logins' /\ Settled' = e
         /\ queue' \in Seq(Entry) /\ Len(queue') <= MaxQueue
         /\ scenario' = scenario /\ commits' \in 0..scenario'.commits
    <2>1. Good(e, scenario.items, discarded' \cup unsent', mailId')
      BY <1>2, <1>9 DEF more
    <2>2. mailId' \in Nat /\ mailId <= mailId'
      BY <1>2, <1>5
    <2>3. \A p \in Players \ loaded : SameMails(p, Settled, e)
      BY <1>10 DEF S
    <2> QED BY <1>1, <2>1, <2>2, <2>3, CommitKeeps
  <1>15. Types'
    <2>1. online' \subseteq Players
      BY <1>1 DEF Types
    <2>2. mailId' \in 0..MaxMails
      BY <1>2, <1>4
    <2> QED BY <1>1, <1>13, <1>14, <2>1, <2>2 DEF Types
  <1>16. Memory'
    BY <1>1, <1>13 DEF Memory
  <1>17. Saved'
    BY <1>13, <1>14 DEF Saved
  <1> QED BY <1>14, <1>15, <1>16, <1>17 DEF Inv

(* A handler that sends no mail *)
LEMMA NoDrafts ==
    ASSUME mailId \in 0..MaxMails, mailId' = mailId, m_mail' \in [MailIds -> Mail \cup {None}]
    PROVE  /\ Proper(<<>>) /\ SendMails(<<>>, m_mail')
           /\ DOMAIN NewMails(<<>>) = {} /\ Carried(NewMails(<<>>)) = {}
  <1> DEFINE N == NewMails(<<>>)
  <1>1. Len(<<>>) = 0
    OBVIOUS
  <1>2. (mailId + 1)..(mailId + Len(<<>>)) = {}
    BY <1>1
  <1>3. DOMAIN N = {}
    BY <1>2 DEF NewMails
  <1> HIDE DEF N
  <1>4. Carried(N) = {}
    BY <1>3 DEF Carried
  <1>5. InMemory(<<>>, m_mail') = m_mail'
    BY <1>3 DEF InMemory, N
  <1>6. mailId + Len(<<>>) <= MaxMails /\ mailId' = mailId + Len(<<>>)
    BY <1>1, CustodyAssumption
  <1> QED BY <1>3, <1>4, <1>5, <1>6, ProperNone DEF SendMails, N

LEMMA ModifyMoneyType ==
    ASSUME NEW g \in 0..(MaxMoney - 1), NEW a \in Int, a <= MaxMoney
    PROVE  ModifyMoney(g, a) \in 0..(MaxMoney - 1)
  <1>1. MaxMoney \in Nat /\ Uint32 \in Nat /\ 2 * MaxMoney < Uint32
    BY CustodyAssumption
  <1>2. CASE a > 0
    <2>1. AsUint32(MaxMoney - a) = MaxMoney - a
      BY <1>1, <1>2 DEF AsUint32
    <2>2. Holds(g, a) <=> g < MaxMoney - a
      BY <2>1 DEF Holds
    <2> QED BY <1>1, <1>2, <2>2 DEF ModifyMoney
  <1>3. CASE ~(a > 0)
    BY <1>1, <1>3 DEF ModifyMoney
  <1> QED BY <1>2, <1>3

(* The gold of one player is saved with the memory. *)
Owed(g, h) == g - h \in {0, Deposit}
Pays(d, e, p, g) == e.money = Put(d.money, {p}, g)

GoldKept(e, x, p) ==
    /\ x \in [Players -> 0..(MaxMoney - 1)]
    /\ Rich(e)
    /\ \A q \in online : e.money[q] - x[q] \in {0, Deposit}
    /\ \A q \in Players \ {p} : e.money[q] = Settled.money[q]

LEMMA GoldSaved ==
    ASSUME Inv, NEW p \in Players, NEW g \in 0..(MaxMoney - 1), NEW h \in 0..(MaxMoney - 1), Owed(g, h),
           NEW x, x = Put(money, {p}, h), NEW e, Pays(Settled, e, p, g)
    PROVE  GoldKept(e, x, p)
  <1>1. money \in [Players -> 0..(MaxMoney - 1)] /\ online \subseteq Players
    BY DEF Inv, Types
  <1>2. Settled \in Tables /\ Rich(Settled)
    BY SettledGood DEF Inv, Good
  <1>3. Settled.money \in [Players -> Nat]
    BY <1>2, TablesFields
  <1>4. \A q \in Players : e.money[q] = IF q = p THEN g ELSE Settled.money[q]
    BY <1>3 DEF Put, Pays
  <1>5. x \in [Players -> 0..(MaxMoney - 1)] /\ \A q \in Players : x[q] = IF q = p THEN h ELSE money[q]
    BY <1>1 DEF Put
  <1>8. MaxMoney \in Nat /\ g < MaxMoney /\ \A q \in Players : Settled.money[q] < MaxMoney
    BY <1>2, CustodyAssumption DEF Rich
  <1>6. Rich(e)
    BY <1>4, <1>8 DEF Rich
  <1>7. \A q \in online : Settled.money[q] - money[q] \in {0, Deposit}
    BY DEF Inv, Saved
  <1>9. Owed(g, h) <=> g - h \in {0, Deposit}
    BY DEF Owed
  <1> QED BY <1>1, <1>4, <1>5, <1>6, <1>7, <1>9 DEF GoldKept

-----------------------------------------------------------------------------
(* Handlers that delete no mail and take nothing out of one *)

Yields(d, t, e) == e = RunAll(d, t)

Posted(d, e, N) ==
    /\ e.mail = [m \in MailIds |-> IF m \in DOMAIN N THEN N[m].row ELSE d.mail[m]]
    /\ e.mail_items = [i \in Items |-> IF i \in Carried(N) THEN Carrier(N, i) ELSE d.mail_items[i]]
    /\ e.item_instance = d.item_instance

Moves(S, e, C, gone) ==
    /\ \A i \in C : /\ i \in S.item_instance /\ S.mail_items[i] = None
                    /\ e.character_inventory[i] = None /\ e.auctionhouse[i] = None
    /\ \A i \in Items :
          /\ e.character_inventory[i] # None => e.auctionhouse[i] = None
          /\ e.character_inventory[i] # None \/ e.auctionhouse[i] # None =>
                S.character_inventory[i] # None \/ S.auctionhouse[i] # None
          /\ S.character_inventory[i] # None \/ S.auctionhouse[i] # None =>
                \/ i \in C \cup gone
                \/ e.character_inventory[i] # None \/ e.auctionhouse[i] # None

(* Tables e agree with the items and the gold that the players of B have. *)
Agrees(e, items, gold, B) ==
    /\ items \in [Items -> B \cup {None}]
    /\ \A i \in Items, p \in B : items[i] = p <=> e.character_inventory[i] = p
    /\ gold \in [Players -> 0..(MaxMoney - 1)]
    /\ \A p \in B : e.money[p] - gold[p] \in {0, Deposit}

Outside(S, e, B) == \A p \in Players \ B : SameGoods(p, S, e)

LEMMA PostInv ==
    ASSUME Inv, NEW t \in Seq(Statement), Commit(t), NEW e, Yields(Settled, t, e), e \in Tables,
           NEW drafts, Proper(drafts), SendMails(drafts, m_mail),
           Posted(Settled, e, NewMails(drafts)),
           Moves(Settled, e, Carries(drafts), discarded' \cup unsent'),
           Rich(e),
           online' = online, loaded' = loaded, db' = db, up' = up, crashes' = crashes, expired' = expired,
           discarded' = discarded, unsent \subseteq unsent', unsent' \subseteq Items,
           auctions' \in [Items -> Auction \cup {None}], up => auctions' = e.auctionhouse,
           Agrees(e, m_items', money', online), Outside(Settled, e, online),
           Trades'
    PROVE  Inv'
  <1> DEFINE S == Settled
             N == NewMails(drafts)
             C == Carries(drafts)
             gone == discarded' \cup unsent'
             R == S.mail
  <1>1. Types /\ Stages /\ Memory /\ Good(S, scenario.items, discarded \cup unsent, mailId)
    BY SettledGood DEF Inv
  <1>2. S \in Tables /\ OneRow(S) /\ Numbered(S, mailId)
    BY <1>1 DEF Good
  <1>3. Carried(N) = C
    <2>1. mailId \in 0..MaxMails /\ mailId + Len(drafts) <= MaxMails
      BY <1>1 DEF Types, SendMails
    <2> QED BY <2>1, DraftsFresh
  <1>4. Opened(S, m_mail, {}, {}, R, loaded)
    BY OpenedMails DEF Opened
  <1>5. Posted(S, e, N) /\ Moves(S, e, C, gone) /\ R \in [MailIds -> MailRow \cup {None}]
    BY <1>2, TablesFields
  <1>6. online' = online /\ loaded' = loaded /\ loaded \subseteq online /\ discarded' = discarded /\ discarded \subseteq Items
    BY <1>1 DEF Types
  <1> HIDE DEF S, N, C, gone
  <1>7. Delivers(S, e, N, {}, {}, {}, R)
    BY <1>2, <1>5 DEF Delivers, Posted
  <1>8. MailsOf(S, {}, {}, R, loaded)
    BY <1>5 DEF MailsOf
  <1>9. ItemsMove(S, e, N, {}, {}, {}, gone)
    BY <1>3, <1>5 DEF ItemsMove, Moves
  <1>10. /\ Delivers(Settled, e, NewMails(drafts), {}, {}, {}, R)
         /\ MailsOf(Settled, {}, {}, R, loaded)
         /\ ItemsMove(Settled, e, NewMails(drafts), {}, {}, {}, discarded' \cup unsent')
         /\ Opened(Settled, m_mail, {}, {}, R, loaded)
    BY <1>4, <1>7, <1>8, <1>9 DEF S, N, gone
  <1> HIDE DEF R
  <1>11. /\ online' \subseteq online /\ loaded' \subseteq online' /\ online' \ loaded' \subseteq online \ loaded
         /\ discarded \subseteq discarded' /\ discarded' \subseteq Items
         /\ db' = db /\ up' = up /\ crashes' = crashes /\ expired' = expired
    BY <1>6
  <1>12. /\ m_items' \in [Items -> online' \cup {None}]
         /\ \A i \in Items, p \in online' : m_items'[i] = p <=> e.character_inventory[i] = p
         /\ money' \in [Players -> 0..(MaxMoney - 1)]
         /\ \A p \in online' : e.money[p] - money'[p] \in {0, Deposit}
         /\ \A p \in Players \ online : SameGoods(p, Settled, e)
    BY <1>6 DEF Agrees, Outside
  <1>13. e = RunAll(Settled, t)
    BY DEF Yields
  <1> QED BY <1>6, <1>10, <1>11, <1>12, <1>13, DealInv

(* An auction in memory is the one in the tables. *)
LEMMA AuctionSettled ==
    ASSUME Inv, up, NEW i \in Items, auctions[i] # None
    PROVE  /\ auctions = Settled.auctionhouse /\ auctions[i] \in Auction
           /\ auctions \in [Items -> Auction \cup {None}]
           /\ Settled \in Tables /\ i \in Settled.item_instance
           /\ Settled.character_inventory[i] = None /\ Settled.mail_items[i] = None
  <1>1. auctions = Settled.auctionhouse /\ auctions \in [Items -> Auction \cup {None}]
    BY DEF Inv, Saved, Types
  <1>2. Settled \in Tables /\ OneRow(Settled)
    BY SettledGood DEF Inv, Good
  <1> QED BY <1>1, <1>2 DEF OneRow

LEMMA AuctionEnds ==
    ASSUME NEW S \in Tables, NEW e, OneRow(S), NEW i \in Items,
           e.character_inventory = S.character_inventory,
           e.auctionhouse = Put(S.auctionhouse, {i}, None), NEW C, NEW gone,
           (C = {i} /\ S.auctionhouse[i] # None) \/ (C = {} /\ i \in gone)
    PROVE  Moves(S, e, C, gone)
  <1>1. \A j \in Items : e.auctionhouse[j] = IF j = i THEN None ELSE S.auctionhouse[j]
    BY TablesFields DEF Put
  <1>2. \A j \in Items : e.character_inventory[j] = S.character_inventory[j]
    OBVIOUS
  <1> QED BY <1>1, <1>2 DEF Moves, OneRow

OnlyAuction(d, e, i) ==
    /\ e.auctionhouse = Put(d.auctionhouse, {i}, None)
    /\ e.money = d.money /\ e.character_inventory = d.character_inventory

SoldStmts(drafts, i) == SendMailToStmts(drafts) \o <<[stmt |-> "DEL_AUCTION", item |-> i]>>

LEMMA SoldDb ==
    ASSUME NEW d \in Tables, NEW drafts, NewMails(drafts) \in SentMails, NEW i \in Items,
           NEW t, t = SoldStmts(drafts, i), NEW e, Yields(d, t, e)
    PROVE  /\ t \in Seq(Statement)
           /\ e \in Tables
           /\ Posted(d, e, NewMails(drafts))
           /\ OnlyAuction(d, e, i)
  <1> DEFINE A == SendMailToStmts(drafts)
             s == [stmt |-> "DEL_AUCTION", item |-> i]
             f == RunAll(d, A)
             N == NewMails(drafts)
  <1>1. /\ A \in Seq(Statement) /\ f \in Tables
        /\ Posted(d, f, N)
        /\ f.money = d.money /\ f.character_inventory = d.character_inventory
        /\ f.auctionhouse = d.auctionhouse
    BY MailDb DEF Posted
  <1>2. s \in Statement
    BY DEF Statement
  <1>3. t = A \o <<s>>
    BY DEF SoldStmts
  <1> HIDE DEF A, s, N
  <1>4. e = Run(f, s) /\ t \in Seq(Statement)
    BY <1>1, <1>2, <1>3, RunThen DEF Yields
  <1> HIDE DEF f
  <1>5. /\ e \in Tables
        /\ e.auctionhouse = Put(f.auctionhouse, {i}, None)
        /\ e.character_inventory = f.character_inventory
        /\ e.item_instance = f.item_instance /\ e.money = f.money
        /\ e.mail = f.mail /\ e.mail_items = f.mail_items
    BY <1>1, <1>4, RunNoAuction, ZenonT(60) DEF s
  <1>6. Posted(d, e, N)
    BY <1>1, <1>5 DEF Posted
  <1> QED BY <1>1, <1>4, <1>5, <1>6 DEF N, OnlyAuction

(* The drafts of a handler that sends them *)
LEMMA SentDrafts ==
    ASSUME Inv, NEW drafts, Proper(drafts), NEW box, SendMails(drafts, box)
    PROVE  NewMails(drafts) \in SentMails
  <1>1. mailId \in 0..MaxMails /\ mailId + Len(drafts) <= MaxMails
    BY DEF Inv, Types, SendMails
  <1> QED BY <1>1, DraftsFresh DEF FreshMails

LEMMA AuctionFields ==
    ASSUME NEW a \in Auction
    PROVE  /\ a.owner \in Players /\ a.bidder \in Players \cup {None}
           /\ a.bid \in Nat /\ a.buyout \in Nat /\ a.deposit \in Nat
           /\ a.bid + a.deposit - GetAuctionCut(a) \in Nat /\ GetAuctionCut(a) \in Nat
  <1>1. /\ a.owner \in Players /\ a.bidder \in Players \cup {None}
        /\ a.bid \in Nat /\ a.buyout \in Nat /\ a.deposit \in Nat
    BY DEF Auction
  <1>2. \A n \in Nat : n \div 2 \in Nat /\ n \div 2 <= n
    OBVIOUS
  <1>3. GetAuctionCut(a) \in Nat /\ GetAuctionCut(a) <= a.bid
    BY <1>1, <1>2 DEF GetAuctionCut
  <1> QED BY <1>1, <1>3

LEMMA SoldDrafts ==
    ASSUME NEW a \in Auction, a.bidder # None, NEW i \in Items
    PROVE  /\ Successful(a) \in DraftMail /\ Successful(a).items = {}
           /\ Successful(a).row.COD > 0 => Successful(a).row.sender # None
           /\ Won(a, i) \in DraftMail /\ Won(a, i).items = {i}
           /\ Won(a, i).row.COD > 0 => Won(a, i).row.sender # None
  <1>1. /\ a.owner \in Players /\ a.bidder \in Players
        /\ a.bid + a.deposit - GetAuctionCut(a) \in Nat
    BY AuctionFields
  <1>2. {} \in SUBSET Items /\ {i} \in SUBSET Items /\ 0 \in Nat
    OBVIOUS
  <1> QED BY <1>1, <1>2, AuctionMailType DEF Successful, Won

(* Trades and items that a handler leaves alone *)
LEMMA TradesKept ==
    ASSUME Inv, m_trade' = m_trade, online' = online
    PROVE  Trades'
  BY TradesAre, TradesAreNext DEF Inv

LEMMA ItemsSaved ==
    ASSUME Inv
    PROVE  /\ m_items \in [Items -> online \cup {None}]
           /\ \A i \in Items, p \in online : m_items[i] = p <=> Settled.character_inventory[i] = p
           /\ money \in [Players -> 0..(MaxMoney - 1)] /\ online \subseteq Players
           /\ \A p \in online : Settled.money[p] - money[p] \in {0, Deposit}
  BY DEF Inv, Types, Saved

LEMMA ExpiresInv ==
    ASSUME Inv, NEW i \in Items, AuctionExpires(i)
    PROVE  Inv'
  <1> DEFINE a == auctions[i]
             drafts == IF a.bidder = None THEN <<AuctionMail(a.owner, {i}, 0)>> ELSE Sold(a, i)
             t == SoldStmts(drafts, i)
             S == Settled
             e == RunAll(S, t)
  <1>1. /\ up /\ a # None /\ SendMails(drafts, m_mail) /\ Commit(t)
        /\ auctions' = [auctions EXCEPT ![i] = None]
        /\ UNCHANGED <<m_items, money>>
        /\ UNCHANGED <<online, m_trade, loaded, db, up, crashes, discarded, unsent, expired>>
    BY DEF AuctionExpires, AuctionUnchanged, SoldStmts
  <1>2. /\ auctions = S.auctionhouse /\ a \in Auction /\ S \in Tables /\ OneRow(S) /\ Rich(S)
        /\ auctions \in [Items -> Auction \cup {None}]
    BY <1>1, AuctionSettled, SettledGood DEF Inv, Good
  <1>3. Proper(drafts) /\ Carries(drafts) = {i}
    <2>1. CASE a.bidder = None
      <3> DEFINE x == AuctionMail(a.owner, {i}, 0)
      <3>1. a.owner \in Players /\ {i} \in SUBSET Items /\ 0 \in Nat
        BY <1>2, AuctionFields
      <3>2. x \in DraftMail /\ x.items = {i} /\ (x.row.COD > 0 => x.row.sender # None)
        BY <3>1, AuctionMailType
      <3>3. drafts = <<x>>
        BY <2>1
      <3> HIDE DEF x, drafts
      <3> QED BY <3>2, <3>3, ProperOne
    <2>2. CASE a.bidder # None
      <3> DEFINE x == Successful(a)
                 y == Won(a, i)
      <3>1. /\ x \in DraftMail /\ x.items = {} /\ (x.row.COD > 0 => x.row.sender # None)
            /\ y \in DraftMail /\ y.items = {i} /\ (y.row.COD > 0 => y.row.sender # None)
        BY <1>2, <2>2, SoldDrafts
      <3>2. drafts = <<x, y>>
        BY <2>2 DEF Sold
      <3> HIDE DEF x, y, drafts
      <3> QED BY <3>1, <3>2, ProperTwo
    <2> QED BY <2>1, <2>2
  <1>4. NewMails(drafts) \in SentMails
    BY <1>1, <1>3, SentDrafts
  <1>13. Yields(S, t, e) /\ t = SoldStmts(drafts, i)
    BY DEF Yields
  <1>14. S \in Tables
    BY <1>2
  <1> HIDE DEF drafts, S, t, e
  <1>15. t \in Seq(Statement) /\ e \in Tables /\ Posted(S, e, NewMails(drafts)) /\ OnlyAuction(S, e, i)
    BY <1>4, <1>13, <1>14, SoldDb
  <1>5. /\ t \in Seq(Statement) /\ e \in Tables
        /\ Posted(S, e, NewMails(drafts))
        /\ e.auctionhouse = Put(S.auctionhouse, {i}, None)
        /\ e.money = S.money /\ e.character_inventory = S.character_inventory
    BY <1>15 DEF OnlyAuction
  <1>6. Moves(S, e, Carries(drafts), discarded' \cup unsent')
    BY <1>1, <1>2, <1>3, <1>5, AuctionEnds
  <1>7. Rich(e)
    BY <1>2, <1>5 DEF Rich
  <1>8. auctions' = e.auctionhouse /\ auctions' \in [Items -> Auction \cup {None}]
    BY <1>1, <1>2, <1>5 DEF Put
  <1>9. Outside(S, e, online)
    BY <1>5 DEF SameGoods, Outside
  <1>10. Agrees(e, m_items', money', online)
    BY <1>1, <1>5, ItemsSaved DEF S, Agrees
  <1>11. Trades' /\ unsent \subseteq unsent' /\ unsent' \subseteq Items
    BY <1>1, TradesKept DEF Inv, Types
  <1>12. /\ online' = online /\ loaded' = loaded /\ db' = db /\ up' = up /\ crashes' = crashes /\ expired' = expired
         /\ discarded' = discarded /\ t \in Seq(Statement) /\ e \in Tables
    BY <1>1, <1>5
  <1> QED BY <1>1, <1>3, <1>5, <1>6, <1>7, <1>8, <1>9, <1>10, <1>11, <1>12, <1>13, PostInv DEF S

LEMMA StartupInv ==
    ASSUME Inv, NEW i \in Items, DeleteExpiredAuctionsAtStartup(i)
    PROVE  Inv'
  <1> DEFINE a == db.auctionhouse[i]
             drafts == IF a.bidder = None THEN <<>> ELSE <<Successful(a)>>
             t == SoldStmts(drafts, i)
             S == Settled
             e == RunAll(S, t)
  <1>1. /\ ~up /\ a # None /\ SendMails(drafts, m_mail) /\ Commit(t)
        /\ unsent' = unsent \cup {i}
        /\ UNCHANGED <<online, m_items, money, m_trade, auctions, loaded, db, up, crashes, discarded, expired>>
    BY DEF DeleteExpiredAuctionsAtStartup, SoldStmts
  <1>2. S \in Tables /\ OneRow(S) /\ Rich(S)
    BY SettledGood DEF Inv, Good
  <1>3. Proper(drafts) /\ Carries(drafts) = {}
    <2>1. CASE a.bidder = None
      BY <2>1, ProperNone
    <2>2. CASE a.bidder # None
      <3>1. db \in Tables
        BY DbGood DEF Inv, Good
      <3>2. a \in Auction
        BY <1>1, <3>1, TablesFields
      <3> DEFINE x == Successful(a)
      <3>3. x \in DraftMail /\ x.items = {} /\ (x.row.COD > 0 => x.row.sender # None)
        BY <2>2, <3>2, SoldDrafts
      <3>4. drafts = <<x>>
        BY <2>2
      <3> HIDE DEF x, drafts
      <3> QED BY <3>3, <3>4, ProperOne
    <2> QED BY <2>1, <2>2
  <1>4. NewMails(drafts) \in SentMails
    BY <1>1, <1>3, SentDrafts
  <1>13. Yields(S, t, e) /\ t = SoldStmts(drafts, i)
    BY DEF Yields
  <1>14. S \in Tables
    BY <1>2
  <1> HIDE DEF drafts, S, t, e
  <1>15. t \in Seq(Statement) /\ e \in Tables /\ Posted(S, e, NewMails(drafts)) /\ OnlyAuction(S, e, i)
    BY <1>4, <1>13, <1>14, SoldDb
  <1>5. /\ t \in Seq(Statement) /\ e \in Tables
        /\ Posted(S, e, NewMails(drafts))
        /\ e.auctionhouse = Put(S.auctionhouse, {i}, None)
        /\ e.money = S.money /\ e.character_inventory = S.character_inventory
    BY <1>15 DEF OnlyAuction
  <1>6. Moves(S, e, Carries(drafts), discarded' \cup unsent')
    BY <1>1, <1>2, <1>3, <1>5, AuctionEnds
  <1>7. Rich(e)
    BY <1>2, <1>5 DEF Rich
  <1>8. auctions' \in [Items -> Auction \cup {None}]
    BY <1>1 DEF Inv, Types
  <1>9. Outside(S, e, online)
    BY <1>5 DEF SameGoods, Outside
  <1>10. Agrees(e, m_items', money', online)
    BY <1>1, <1>5, ItemsSaved DEF S, Agrees
  <1>11. Trades' /\ unsent \subseteq unsent' /\ unsent' \subseteq Items
    BY <1>1, TradesKept DEF Inv, Types
  <1>12. /\ online' = online /\ loaded' = loaded /\ db' = db /\ up' = up /\ crashes' = crashes /\ expired' = expired
         /\ discarded' = discarded /\ t \in Seq(Statement) /\ e \in Tables
    BY <1>1, <1>5
  <1> QED BY <1>1, <1>3, <1>5, <1>6, <1>7, <1>8, <1>9, <1>10, <1>11, <1>12, <1>13, PostInv DEF S

(* A handler of the auctions by which player p pays *)
LEMMA AuctionDealInv ==
    ASSUME Inv, NEW p \in online, NEW g \in 0..(MaxMoney - 1),
           NEW t \in Seq(Statement), Commit(t), NEW e, Yields(Settled, t, e), e \in Tables,
           NEW drafts, Proper(drafts), SendMails(drafts, m_mail),
           Posted(Settled, e, NewMails(drafts)),
           Moves(Settled, e, Carries(drafts), discarded \cup unsent),
           e.character_inventory = Settled.character_inventory,
           e.money = Put(Settled.money, {p}, g), money' = [money EXCEPT ![p] = g],
           auctions' = e.auctionhouse, m_items' = m_items, AuctionUnchanged
    PROVE  Inv'
  <1> DEFINE S == Settled
  <1>1. /\ online' = online /\ m_trade' = m_trade /\ loaded' = loaded /\ db' = db /\ up' = up
        /\ crashes' = crashes /\ expired' = expired /\ discarded' = discarded /\ unsent' = unsent
    BY DEF AuctionUnchanged
  <1>2. p \in Players /\ unsent \subseteq Items
    BY DEF Inv, Types
  <1>3. g - g \in {0, Deposit}
    OBVIOUS
  <1>4. /\ money' \in [Players -> 0..(MaxMoney - 1)]
        /\ Rich(e)
        /\ \A q \in online : e.money[q] - money'[q] \in {0, Deposit}
        /\ \A q \in Players \ {p} : e.money[q] = Settled.money[q]
    <2>1. money' = Put(money, {p}, g)
      BY ItemsSaved DEF Put
    <2>2. Pays(Settled, e, p, g) /\ Owed(g, g)
      BY <1>3 DEF Pays, Owed
    <2>3. GoldKept(e, money', p)
      BY <1>2, <2>1, <2>2, GoldSaved
    <2> QED BY <2>3 DEF GoldKept
  <1>5. Moves(Settled, e, Carries(drafts), discarded' \cup unsent')
    BY <1>1
  <1>6. auctions' \in [Items -> Auction \cup {None}]
    BY TablesFields
  <1>7. Agrees(e, m_items', money', online)
    BY <1>1, <1>4, ItemsSaved DEF Agrees
  <1>8. Outside(S, e, online)
    BY <1>4 DEF SameGoods, Outside
  <1>9. Trades' /\ unsent \subseteq unsent' /\ unsent' \subseteq Items
    BY <1>1, <1>2, TradesKept
  <1> QED BY <1>1, <1>4, <1>5, <1>6, <1>7, <1>8, <1>9, PostInv

(* Tables that a payment follows *)
Then(u, v) == u \o v

LEMMA YieldsThen ==
    ASSUME NEW u \in Seq(Statement), NEW v \in Seq(Statement), NEW d, NEW e, Yields(d, Then(u, v), e)
    PROVE  Then(u, v) \in Seq(Statement) /\ \E f : Yields(d, u, f) /\ Yields(f, v, e)
  <1>1. Then(u, v) \in Seq(Statement) /\ e = RunAll(RunAll(d, u), v)
    BY RunBoth DEF Then, Yields
  <1>2. Yields(d, u, RunAll(d, u)) /\ Yields(RunAll(d, u), v, e)
    BY <1>1 DEF Yields
  <1> QED BY <1>1, <1>2

OnlyGold(f, e, p, g) ==
    /\ e.money = Put(f.money, {p}, g)
    /\ e.character_inventory = f.character_inventory
    /\ e.item_instance = f.item_instance /\ e.auctionhouse = f.auctionhouse
    /\ e.mail = f.mail /\ e.mail_items = f.mail_items

LEMMA GoldYields ==
    ASSUME NEW d \in Tables, NEW p \in Players, NEW g \in Nat, NEW e, Yields(d, SaveGoldToDB(p, g), e)
    PROVE  e \in Tables /\ OnlyGold(d, e, p, g) /\ SaveGoldToDB(p, g) \in Seq(Statement)
  <1>1. e = RunAll(d, SaveGoldToDB(p, g))
    BY DEF Yields
  <1>2. SaveGoldToDB(p, g) \in Seq(Statement)
    BY GoldStmts
  <1>4. /\ e \in Tables
        /\ e.money = Put(d.money, {p}, g)
        /\ e.character_inventory = d.character_inventory
        /\ e.item_instance = d.item_instance /\ e.auctionhouse = d.auctionhouse
        /\ e.mail = d.mail /\ e.mail_items = d.mail_items
    BY <1>1, GoldDb, SMTT(30)
  <1>3. e \in Tables /\ OnlyGold(d, e, p, g)
    BY <1>4 DEF OnlyGold
  <1> QED BY <1>2, <1>3

(* The statements of the handlers, one by one *)
DelAuction(i) == <<[stmt |-> "DEL_AUCTION", item |-> i]>>
BidStmts(i, p, g) == <<BidStmt(i, p, g)>>

OnlyMails(d, e, N) ==
    /\ Posted(d, e, N)
    /\ e.money = d.money /\ e.character_inventory = d.character_inventory
    /\ e.auctionhouse = d.auctionhouse

LEMMA MailYields ==
    ASSUME NEW d \in Tables, NEW drafts, NewMails(drafts) \in SentMails,
           NEW e, Yields(d, SendMailToStmts(drafts), e)
    PROVE  e \in Tables /\ OnlyMails(d, e, NewMails(drafts))
  <1>1. e = RunAll(d, SendMailToStmts(drafts))
    BY DEF Yields
  <1> QED BY <1>1, MailDb DEF OnlyMails, Posted

LEMMA MailStmts ==
    ASSUME NEW d \in Tables, NEW drafts, NewMails(drafts) \in SentMails
    PROVE  SendMailToStmts(drafts) \in Seq(Statement)
  BY MailDb

LEMMA DelAuctionYields ==
    ASSUME NEW d \in Tables, NEW i \in Items, NEW e, Yields(d, DelAuction(i), e)
    PROVE  e \in Tables /\ AuctionRow(d, e, i, None)
  <1> DEFINE s == [stmt |-> "DEL_AUCTION", item |-> i]
  <1>1. DelAuction(i) = <<s>>
    BY DEF DelAuction
  <1> HIDE DEF s
  <1>2. e = Run(d, s)
    BY <1>1, RunAllOne DEF Yields
  <1> QED BY <1>2, RunNoAuction DEF s, AuctionRow

LEMMA DelAuctionStmts ==
    ASSUME NEW i \in Items
    PROVE  DelAuction(i) \in Seq(Statement)
  <1> DEFINE s == [stmt |-> "DEL_AUCTION", item |-> i]
  <1>1. s \in Statement
    BY DEF Statement
  <1>2. DelAuction(i) = <<s>>
    BY DEF DelAuction
  <1> HIDE DEF s
  <1> QED BY <1>1, <1>2

LEMMA BidYields ==
    ASSUME NEW d \in Tables, NEW i \in Items, NEW p \in Players, NEW g \in Nat, d.auctionhouse[i] # None,
           NEW e, Yields(d, BidStmts(i, p, g), e)
    PROVE  e \in Tables /\ AuctionRow(d, e, i, Bidden(d.auctionhouse[i], p, g))
  <1>1. e = Run(d, BidStmt(i, p, g))
    BY RunAllOne DEF Yields, BidStmts
  <1> QED BY <1>1, RunBid

LEMMA BidStmtsType ==
    ASSUME NEW i \in Items, NEW p \in Players, NEW g \in Nat
    PROVE  BidStmts(i, p, g) \in Seq(Statement)
  <1>1. BidStmt(i, p, g) \in Statement
    BY DEF Statement, BidStmt
  <1> QED BY <1>1 DEF BidStmts

(* A deal: mails N, the row v of auction i, and the gold g of player p *)
Dealt(d, e, N, i, v, p, g) ==
    /\ Posted(d, e, N)
    /\ e.auctionhouse = Put(d.auctionhouse, {i}, v)
    /\ e.character_inventory = d.character_inventory
    /\ Pays(d, e, p, g)

LEMMA DealtMailsFirst ==
    ASSUME NEW d, NEW f, NEW h, NEW e, NEW N, NEW i, NEW v, NEW p, NEW g,
           OnlyMails(d, f, N), AuctionRow(f, h, i, v), OnlyGold(h, e, p, g)
    PROVE  Dealt(d, e, N, i, v, p, g)
  BY DEF OnlyMails, AuctionRow, OnlyGold, Dealt, Posted, Pays

LEMMA DealtGoldFirst ==
    ASSUME NEW d, NEW f, NEW h, NEW e, NEW N, NEW i, NEW v, NEW p, NEW g,
           OnlyMails(d, f, N), OnlyGold(f, h, p, g), AuctionRow(h, e, i, v)
    PROVE  Dealt(d, e, N, i, v, p, g)
  BY DEF OnlyMails, AuctionRow, OnlyGold, Dealt, Posted, Pays

LEMMA BuyoutDb ==
    ASSUME NEW d \in Tables, NEW drafts, NewMails(drafts) \in SentMails, NEW i \in Items,
           NEW p \in Players, NEW g \in Nat,
           NEW t, t = Then(Then(SendMailToStmts(drafts), DelAuction(i)), SaveGoldToDB(p, g)),
           NEW e, Yields(d, t, e)
    PROVE  t \in Seq(Statement) /\ e \in Tables /\ Dealt(d, e, NewMails(drafts), i, None, p, g)
  <1> DEFINE A == SendMailToStmts(drafts)
             B == DelAuction(i)
             G == SaveGoldToDB(p, g)
             N == NewMails(drafts)
  <1>1. A \in Seq(Statement) /\ B \in Seq(Statement) /\ G \in Seq(Statement)
    BY MailStmts, DelAuctionStmts, GoldStmts
  <1>2. Then(A, B) \in Seq(Statement)
    BY <1>1 DEF Then
  <1> HIDE DEF A, B, G, N
  <1>3. t = Then(Then(A, B), G)
    BY DEF A, B, G
  <1>4. t \in Seq(Statement) /\ \E h : Yields(d, Then(A, B), h) /\ Yields(h, G, e)
    BY <1>1, <1>2, <1>3, YieldsThen
  <1>5. PICK h : Yields(d, Then(A, B), h) /\ Yields(h, G, e)
    BY <1>4
  <1>6. PICK f : Yields(d, A, f) /\ Yields(f, B, h)
    BY <1>1, <1>5, YieldsThen
  <1>7. f \in Tables /\ OnlyMails(d, f, N)
    BY <1>6, MailYields DEF A, N
  <1>8. h \in Tables /\ AuctionRow(f, h, i, None)
    BY <1>6, <1>7, DelAuctionYields DEF B
  <1>9. e \in Tables /\ OnlyGold(h, e, p, g)
    BY <1>5, <1>8, GoldYields DEF G
  <1> QED BY <1>4, <1>7, <1>8, <1>9, DealtMailsFirst DEF N

LEMMA RemoveDb ==
    ASSUME NEW d \in Tables, NEW drafts, NewMails(drafts) \in SentMails, NEW i \in Items,
           NEW p \in Players, NEW g \in Nat,
           NEW t, t = Then(Then(SendMailToStmts(drafts), SaveGoldToDB(p, g)), DelAuction(i)),
           NEW e, Yields(d, t, e)
    PROVE  t \in Seq(Statement) /\ e \in Tables /\ Dealt(d, e, NewMails(drafts), i, None, p, g)
  <1> DEFINE A == SendMailToStmts(drafts)
             B == DelAuction(i)
             G == SaveGoldToDB(p, g)
             N == NewMails(drafts)
  <1>1. A \in Seq(Statement) /\ B \in Seq(Statement) /\ G \in Seq(Statement)
    BY MailStmts, DelAuctionStmts, GoldStmts
  <1>2. Then(A, G) \in Seq(Statement)
    BY <1>1 DEF Then
  <1> HIDE DEF A, B, G, N
  <1>3. t = Then(Then(A, G), B)
    BY DEF A, B, G
  <1>4. t \in Seq(Statement) /\ \E h : Yields(d, Then(A, G), h) /\ Yields(h, B, e)
    BY <1>1, <1>2, <1>3, YieldsThen
  <1>5. PICK h : Yields(d, Then(A, G), h) /\ Yields(h, B, e)
    BY <1>4
  <1>6. PICK f : Yields(d, A, f) /\ Yields(f, G, h)
    BY <1>1, <1>5, YieldsThen
  <1>7. f \in Tables /\ OnlyMails(d, f, N)
    BY <1>6, MailYields DEF A, N
  <1>8. h \in Tables /\ OnlyGold(f, h, p, g)
    BY <1>6, <1>7, GoldYields DEF G
  <1>9. e \in Tables /\ AuctionRow(h, e, i, None)
    BY <1>5, <1>8, DelAuctionYields DEF B
  <1> QED BY <1>4, <1>7, <1>8, <1>9, DealtGoldFirst DEF N

LEMMA PlaceBidDb ==
    ASSUME NEW d \in Tables, NEW drafts, NewMails(drafts) \in SentMails, NEW i \in Items,
           d.auctionhouse[i] # None, NEW p \in Players, NEW g \in Nat, NEW price \in Nat,
           NEW t, t = Then(Then(SendMailToStmts(drafts), BidStmts(i, p, price)), SaveGoldToDB(p, g)),
           NEW e, Yields(d, t, e)
    PROVE  /\ t \in Seq(Statement) /\ e \in Tables
           /\ Dealt(d, e, NewMails(drafts), i, Bidden(d.auctionhouse[i], p, price), p, g)
  <1> DEFINE A == SendMailToStmts(drafts)
             B == BidStmts(i, p, price)
             G == SaveGoldToDB(p, g)
             N == NewMails(drafts)
             v == Bidden(d.auctionhouse[i], p, price)
  <1>1. A \in Seq(Statement) /\ B \in Seq(Statement) /\ G \in Seq(Statement)
    BY MailStmts, BidStmtsType, GoldStmts
  <1>2. Then(A, B) \in Seq(Statement)
    BY <1>1 DEF Then
  <1> HIDE DEF A, B, G, N, v
  <1>3. t = Then(Then(A, B), G)
    BY DEF A, B, G
  <1>4. t \in Seq(Statement) /\ \E h : Yields(d, Then(A, B), h) /\ Yields(h, G, e)
    BY <1>1, <1>2, <1>3, YieldsThen
  <1>5. PICK h : Yields(d, Then(A, B), h) /\ Yields(h, G, e)
    BY <1>4
  <1>6. PICK f : Yields(d, A, f) /\ Yields(f, B, h)
    BY <1>1, <1>5, YieldsThen
  <1>7. f \in Tables /\ OnlyMails(d, f, N)
    BY <1>6, MailYields DEF A, N
  <1>10. f.auctionhouse = d.auctionhouse
    BY <1>7 DEF OnlyMails
  <1>11. f.auctionhouse[i] # None /\ v = Bidden(f.auctionhouse[i], p, price)
    BY <1>10 DEF v
  <1>8. h \in Tables /\ AuctionRow(f, h, i, v)
    BY <1>6, <1>7, <1>11, BidYields DEF B
  <1>9. e \in Tables /\ OnlyGold(h, e, p, g)
    BY <1>5, <1>8, GoldYields DEF G
  <1>12. Dealt(d, e, N, i, v, p, g)
    BY <1>7, <1>8, <1>9, DealtMailsFirst
  <1> QED BY <1>4, <1>9, <1>12 DEF N, v

LEMMA DealtInv ==
    ASSUME Inv, NEW p \in online, NEW g \in 0..(MaxMoney - 1),
           NEW t \in Seq(Statement), Commit(t), NEW e, Yields(Settled, t, e), e \in Tables,
           NEW drafts, Proper(drafts), SendMails(drafts, m_mail),
           NEW i, NEW v, Dealt(Settled, e, NewMails(drafts), i, v, p, g),
           Moves(Settled, e, Carries(drafts), discarded \cup unsent),
           money' = Put(money, {p}, g), auctions' = Put(auctions, {i}, v), m_items' = m_items, AuctionUnchanged
    PROVE  Inv'
  <1>1. auctions = Settled.auctionhouse
    BY DEF Inv, Memory, Saved
  <1>2. /\ Posted(Settled, e, NewMails(drafts))
        /\ e.auctionhouse = Put(Settled.auctionhouse, {i}, v)
        /\ e.character_inventory = Settled.character_inventory
        /\ e.money = Put(Settled.money, {p}, g)
    BY DEF Dealt, Pays
  <1>3. auctions' = e.auctionhouse
    BY <1>1, <1>2
  <1>4. money' = [money EXCEPT ![p] = g]
    BY ItemsSaved DEF Put
  <1> QED BY <1>2, <1>3, <1>4, AuctionDealInv

(* What the bidder who is outbid gets back *)
LEMMA OutbiddedDraft ==
    ASSUME NEW a \in Auction, a.bidder # None
    PROVE  /\ AuctionMail(a.bidder, {}, a.bid) \in DraftMail
           /\ AuctionMail(a.bidder, {}, a.bid).items = {}
           /\ AuctionMail(a.bidder, {}, a.bid).row.COD > 0 => AuctionMail(a.bidder, {}, a.bid).row.sender # None
  <1>1. a.bidder \in Players /\ a.bid \in Nat /\ {} \in SUBSET Items
    BY AuctionFields
  <1> QED BY <1>1, AuctionMailType

LEMMA Drafts ==
    ASSUME NEW w \in DraftMail, NEW x \in DraftMail, NEW y \in DraftMail
    PROVE  <<x>> \o <<y>> = <<x, y>> /\ <<w>> \o <<x, y>> = <<w, x, y>>
  <1> DEFINE a == <<w>>
             b == <<x, y>>
             c == <<x>>
             d == <<y>>
             t == <<w, x, y>>
  <1>1. /\ a \in Seq(DraftMail) /\ Len(a) = 1 /\ a[1] = w
        /\ b \in Seq(DraftMail) /\ Len(b) = 2 /\ b[1] = x /\ b[2] = y
        /\ c \in Seq(DraftMail) /\ Len(c) = 1 /\ c[1] = x
        /\ d \in Seq(DraftMail) /\ Len(d) = 1 /\ d[1] = y
        /\ t \in Seq(DraftMail) /\ Len(t) = 3 /\ t[1] = w /\ t[2] = x /\ t[3] = y
    OBVIOUS
  <1> HIDE DEF a, b, c, d, t
  <1>2. \A u, v \in Seq(DraftMail) :
           /\ u \o v \in Seq(DraftMail) /\ Len(u \o v) = Len(u) + Len(v)
           /\ \A k \in 1..(Len(u) + Len(v)) : (u \o v)[k] = IF k <= Len(u) THEN u[k] ELSE v[k - Len(u)]
    OBVIOUS
  <1>3. \A u, v \in Seq(DraftMail) : Len(u) = Len(v) /\ (\A k \in 1..Len(u) : u[k] = v[k]) => u = v
    OBVIOUS
  <1>4. c \o d = b
    <2> DEFINE s == c \o d
    <2>0. /\ c \in Seq(DraftMail) /\ d \in Seq(DraftMail) /\ Len(c) = 1 /\ Len(d) = 1
      BY <1>1
    <2>9. /\ s \in Seq(DraftMail) /\ Len(s) = Len(c) + Len(d)
          /\ \A k \in 1..(Len(c) + Len(d)) : s[k] = IF k <= Len(c) THEN c[k] ELSE d[k - Len(c)]
      BY <2>0, <1>2
    <2> HIDE DEF s
    <2>1. s \in Seq(DraftMail) /\ Len(s) = 2 /\ \A k \in 1..2 : s[k] = IF k <= 1 THEN c[k] ELSE d[k - 1]
      BY <2>0, <2>9
    <2>2. s[1] = x /\ s[2] = y
      BY <1>1, <2>1
    <2>3. \A k \in 1..2 : k = 1 \/ k = 2
      OBVIOUS
    <2>4. s = b
      BY <1>1, <1>3, <2>1, <2>2, <2>3
    <2> QED BY <2>4 DEF s
  <1>5. a \o b = t
    <2> DEFINE s == a \o b
    <2>0. /\ a \in Seq(DraftMail) /\ b \in Seq(DraftMail) /\ Len(a) = 1 /\ Len(b) = 2
      BY <1>1
    <2>9. /\ s \in Seq(DraftMail) /\ Len(s) = Len(a) + Len(b)
          /\ \A k \in 1..(Len(a) + Len(b)) : s[k] = IF k <= Len(a) THEN a[k] ELSE b[k - Len(a)]
      BY <2>0, <1>2
    <2> HIDE DEF s
    <2>1. s \in Seq(DraftMail) /\ Len(s) = 3 /\ \A k \in 1..3 : s[k] = IF k <= 1 THEN a[k] ELSE b[k - 1]
      BY <2>0, <2>9
    <2>7. 1 \in 1..3 /\ 2 \in 1..3 /\ 3 \in 1..3 /\ 1 <= 1 /\ ~(2 <= 1) /\ ~(3 <= 1)
      OBVIOUS
    <2>8. \A k \in 1..3 : s[k] = IF k <= 1 THEN a[k] ELSE b[k - 1]
      BY <2>1
    <2>5. s[1] = a[1] /\ s[2] = b[2 - 1] /\ s[3] = b[3 - 1]
      BY <2>7, <2>8
    <2>6. 2 - 1 = 1 /\ 3 - 1 = 2
      OBVIOUS
    <2>2. s[1] = w /\ s[2] = x /\ s[3] = y
      BY <1>1, <2>5, <2>6
    <2>3. \A k \in 1..3 : k = 1 \/ k = 2 \/ k = 3
      OBVIOUS
    <2>4. s = t
      BY <1>1, <1>3, <2>1, <2>2, <2>3
    <2> QED BY <2>4 DEF s
  <1> QED BY <1>4, <1>5 DEF a, b, c, d, t

LEMMA BiddenType ==
    ASSUME NEW a \in Auction, NEW p \in Players, NEW g \in Nat
    PROVE  Bidden(a, p, g) \in Auction /\ Bidden(a, p, g) # None
  <1>1. Bidden(a, p, g) \in Auction
    BY DEF Auction, Bidden
  <1> QED BY <1>1, NullAssumption

LEMMA ToPayType ==
    ASSUME NEW a \in Auction, NEW p, NEW price \in Nat, a.bid < MaxMoney
    PROVE  -ToPay(a, p, price) \in Int /\ -ToPay(a, p, price) <= MaxMoney
  <1>1. a.bid \in Nat /\ MaxMoney \in Nat
    BY AuctionFields, CustodyAssumption
  <1> QED BY <1>1 DEF ToPay

(* A bid is below the money of who may raise it. *)
LEMMA BidBelow ==
    ASSUME Inv, NEW p \in Players, NEW i \in Items, NEW price \in Bids, MayBid(p, i, price), auctions[i] \in Auction
    PROVE  auctions[i].bid < MaxMoney
  <1>1. price > auctions[i].bid /\ money[p] >= price
    BY DEF MayBid
  <1>2. money[p] \in 0..(MaxMoney - 1) /\ price \in Nat /\ MaxMoney \in Nat
    BY ItemsSaved, CustodyAssumption
  <1>3. auctions[i].bid \in Nat
    BY AuctionFields
  <1> QED BY <1>1, <1>2, <1>3

LEMMA RemoveInv ==
    ASSUME Inv, NEW p \in Players, NEW i \in Items, HandleAuctionRemoveItem(p, i)
    PROVE  Inv'
  <1> DEFINE a == auctions[i]
             cut == IF a.bidder = None THEN 0 ELSE GetAuctionCut(a)
             g == ModifyMoney(money[p], -cut)
             drafts == (IF a.bidder = None THEN <<>> ELSE <<AuctionMail(a.bidder, {}, a.bid)>>)
                          \o <<AuctionMail(p, {i}, 0)>>
             t == Then(Then(SendMailToStmts(drafts), SaveGoldToDB(p, g)), DelAuction(i))
             e == RunAll(Settled, t)
  <1>1. /\ p \in online /\ a # None
        /\ money' = [money EXCEPT ![p] = g]
        /\ auctions' = [auctions EXCEPT ![i] = None]
        /\ SendMails(drafts, m_mail) /\ Commit(t)
        /\ m_items' = m_items /\ AuctionUnchanged
    BY DEF HandleAuctionRemoveItem, Then, DelAuction
  <1>2. up
    BY <1>1 DEF Inv, Memory
  <1>3. /\ auctions = Settled.auctionhouse /\ a \in Auction /\ Settled \in Tables /\ OneRow(Settled)
        /\ auctions \in [Items -> Auction \cup {None}]
    BY <1>1, <1>2, AuctionSettled, SettledGood DEF Inv, Good
  <1>4. Settled \in Tables
    BY <1>3
  <1>5. g \in 0..(MaxMoney - 1) /\ g \in Nat
    <2>1. cut \in Nat /\ money[p] \in 0..(MaxMoney - 1) /\ MaxMoney \in Nat
      BY <1>3, AuctionFields, ItemsSaved, CustodyAssumption
    <2> HIDE DEF cut
    <2>2. -cut \in Int /\ -cut <= MaxMoney
      BY <2>1
    <2> QED BY <2>1, <2>2, ModifyMoneyType
  <1>6. Proper(drafts) /\ Carries(drafts) = {i}
    <2> DEFINE x == AuctionMail(a.bidder, {}, a.bid)
               y == AuctionMail(p, {i}, 0)
    <2>1. y \in DraftMail /\ y.items = {i} /\ (y.row.COD > 0 => y.row.sender # None)
      <3>1. {i} \in SUBSET Items /\ 0 \in Nat
        OBVIOUS
      <3> QED BY <3>1, AuctionMailType
    <2>2. CASE a.bidder = None
      <3>1. drafts = <<y>>
        BY <2>2
      <3> HIDE DEF y, drafts
      <3> QED BY <2>1, <3>1, ProperOne
    <2>3. CASE a.bidder # None
      <3>1. x \in DraftMail /\ x.items = {} /\ (x.row.COD > 0 => x.row.sender # None)
        BY <1>3, <2>3, OutbiddedDraft
      <3>3. drafts = <<x>> \o <<y>>
        BY <2>3
      <3> HIDE DEF x, y, drafts
      <3>2. drafts = <<x, y>>
        BY <2>1, <3>1, <3>3, Drafts
      <3> QED BY <2>1, <3>1, <3>2, ProperTwo
    <2> QED BY <2>2, <2>3
  <1>7. NewMails(drafts) \in SentMails
    BY <1>1, <1>6, SentDrafts
  <1>8. Yields(Settled, t, e) /\ t = Then(Then(SendMailToStmts(drafts), SaveGoldToDB(p, g)), DelAuction(i))
    BY DEF Yields
  <1>9. money' = Put(money, {p}, g) /\ auctions' = Put(auctions, {i}, None)
    BY <1>1, <1>3, ItemsSaved DEF Put
  <1> HIDE DEF g, drafts, t, e
  <1>10. t \in Seq(Statement) /\ e \in Tables /\ Dealt(Settled, e, NewMails(drafts), i, None, p, g)
    BY <1>4, <1>5, <1>7, <1>8, RemoveDb
  <1>11. Moves(Settled, e, Carries(drafts), discarded \cup unsent)
    BY <1>1, <1>3, <1>6, <1>10, AuctionEnds DEF Dealt
  <1>14. p \in online /\ Commit(t) /\ SendMails(drafts, m_mail) /\ m_items' = m_items /\ AuctionUnchanged
    BY <1>1
  <1> QED BY <1>5, <1>6, <1>8, <1>9, <1>10, <1>11, <1>14, DealtInv

LEMMA BuyoutInv ==
    ASSUME Inv, NEW p \in Players, NEW i \in Items, NEW price \in Bids, Buyout(p, i, price)
    PROVE  Inv'
  <1> DEFINE a == auctions[i]
             sold == [a EXCEPT !.bidder = p, !.bid = a.buyout]
             drafts == Outbidded(a, p) \o Sold(sold, i)
             g == ModifyMoney(money[p], -ToPay(a, p, a.buyout))
             t == Then(Then(SendMailToStmts(drafts), DelAuction(i)), SaveGoldToDB(p, g))
             e == RunAll(Settled, t)
  <1>1. /\ p \in online /\ a # None
        /\ money' = [money EXCEPT ![p] = g]
        /\ auctions' = [auctions EXCEPT ![i] = None]
        /\ SendMails(drafts, m_mail) /\ Commit(t)
        /\ m_items' = m_items /\ AuctionUnchanged
    BY DEF Buyout, MayBid, Then, DelAuction
  <1>2. up
    BY <1>1 DEF Inv, Memory
  <1>3. /\ auctions = Settled.auctionhouse /\ a \in Auction /\ Settled \in Tables /\ OneRow(Settled)
        /\ auctions \in [Items -> Auction \cup {None}]
    BY <1>1, <1>2, AuctionSettled, SettledGood DEF Inv, Good
  <1>4. Settled \in Tables
    BY <1>3
  <1>5. g \in 0..(MaxMoney - 1) /\ g \in Nat
    <2>0. a.buyout \in Nat
      BY <1>3, AuctionFields
    <2>1. a.bid < MaxMoney
      BY <1>3, BidBelow DEF Buyout
    <2>2. -ToPay(a, p, a.buyout) \in Int /\ -ToPay(a, p, a.buyout) <= MaxMoney /\ money[p] \in 0..(MaxMoney - 1)
      BY <1>3, <2>0, <2>1, ToPayType, ItemsSaved
    <2> QED BY <2>2, ModifyMoneyType
  <1>6. Proper(drafts) /\ Carries(drafts) = {i}
    <2> DEFINE w == AuctionMail(a.bidder, {}, a.bid)
               x == Successful(sold)
               y == Won(sold, i)
    <2>0. sold \in Auction /\ sold.bidder # None
      BY <1>3, CustodyAssumption DEF Auction
    <2> HIDE DEF sold
    <2>1. /\ x \in DraftMail /\ x.items = {} /\ (x.row.COD > 0 => x.row.sender # None)
          /\ y \in DraftMail /\ y.items = {i} /\ (y.row.COD > 0 => y.row.sender # None)
      BY <2>0, SoldDrafts
    <2>4. Sold(sold, i) = <<x, y>>
      BY DEF Sold
    <2>2. CASE a.bidder \in {None, p}
      <3>2. Outbidded(a, p) = <<>>
        BY <2>2 DEF Outbidded
      <3> HIDE DEF x, y
      <3>1. drafts = <<x, y>>
        BY <2>4, <3>2
      <3> HIDE DEF drafts
      <3> QED BY <2>1, <3>1, ProperTwo
    <2>3. CASE a.bidder \notin {None, p}
      <3>1. w \in DraftMail /\ w.items = {} /\ (w.row.COD > 0 => w.row.sender # None)
        BY <1>3, <2>3, OutbiddedDraft
      <3>3. Outbidded(a, p) = <<w>>
        BY <2>3 DEF Outbidded
      <3>4. drafts = <<w>> \o <<x, y>>
        BY <2>4, <3>3
      <3> HIDE DEF w, x, y, drafts
      <3>2. drafts = <<w, x, y>>
        BY <2>1, <3>1, <3>4, Drafts
      <3> QED BY <2>1, <3>1, <3>2, ProperThree
    <2> QED BY <2>2, <2>3
  <1>7. NewMails(drafts) \in SentMails
    BY <1>1, <1>6, SentDrafts
  <1>8. Yields(Settled, t, e) /\ t = Then(Then(SendMailToStmts(drafts), DelAuction(i)), SaveGoldToDB(p, g))
    BY DEF Yields
  <1>9. money' = Put(money, {p}, g) /\ auctions' = Put(auctions, {i}, None)
    BY <1>1, <1>3, ItemsSaved DEF Put
  <1> HIDE DEF g, drafts, t, e
  <1>10. t \in Seq(Statement) /\ e \in Tables /\ Dealt(Settled, e, NewMails(drafts), i, None, p, g)
    BY <1>4, <1>5, <1>7, <1>8, BuyoutDb
  <1>11. Moves(Settled, e, Carries(drafts), discarded \cup unsent)
    BY <1>1, <1>3, <1>6, <1>10, AuctionEnds DEF Dealt
  <1>14. p \in online /\ Commit(t) /\ SendMails(drafts, m_mail) /\ m_items' = m_items /\ AuctionUnchanged
    BY <1>1
  <1> QED BY <1>5, <1>6, <1>8, <1>9, <1>10, <1>11, <1>14, DealtInv

LEMMA PlaceBidInv ==
    ASSUME Inv, NEW p \in Players, NEW i \in Items, NEW price \in Bids, PlaceBid(p, i, price)
    PROVE  Inv'
  <1> DEFINE a == auctions[i]
             drafts == Outbidded(a, p)
             g == ModifyMoney(money[p], -ToPay(a, p, price))
             v == Bidden(a, p, price)
             t == Then(Then(SendMailToStmts(drafts), BidStmts(i, p, price)), SaveGoldToDB(p, g))
             e == RunAll(Settled, t)
  <1>1. /\ p \in online /\ a # None
        /\ money' = [money EXCEPT ![p] = g]
        /\ auctions' = [auctions EXCEPT ![i].bidder = p, ![i].bid = price]
        /\ SendMails(drafts, m_mail) /\ Commit(t)
        /\ m_items' = m_items /\ AuctionUnchanged
    BY DEF PlaceBid, MayBid, Then, BidStmts, BidStmt
  <1>2. up /\ price \in Nat
    BY <1>1, CustodyAssumption DEF Inv, Memory
  <1>3. /\ auctions = Settled.auctionhouse /\ a \in Auction /\ Settled \in Tables /\ OneRow(Settled)
        /\ auctions \in [Items -> Auction \cup {None}]
    BY <1>1, <1>2, AuctionSettled, SettledGood DEF Inv, Good
  <1>4. Settled \in Tables /\ Settled.auctionhouse[i] # None /\ v = Bidden(Settled.auctionhouse[i], p, price)
    BY <1>1, <1>3
  <1>5. g \in 0..(MaxMoney - 1) /\ g \in Nat
    <2>1. a.bid < MaxMoney
      BY <1>3, BidBelow DEF PlaceBid
    <2>2. -ToPay(a, p, price) \in Int /\ -ToPay(a, p, price) <= MaxMoney /\ money[p] \in 0..(MaxMoney - 1)
      BY <1>2, <1>3, <2>1, ToPayType, ItemsSaved
    <2> QED BY <2>2, ModifyMoneyType
  <1>6. Proper(drafts) /\ Carries(drafts) = {}
    <2> DEFINE w == AuctionMail(a.bidder, {}, a.bid)
    <2>2. CASE a.bidder \in {None, p}
      <3>2. drafts = <<>>
        BY <2>2 DEF Outbidded
      <3> QED BY <3>2, ProperNone
    <2>3. CASE a.bidder \notin {None, p}
      <3>1. w \in DraftMail /\ w.items = {} /\ (w.row.COD > 0 => w.row.sender # None)
        BY <1>3, <2>3, OutbiddedDraft
      <3>3. drafts = <<w>>
        BY <2>3 DEF Outbidded
      <3> HIDE DEF w, drafts
      <3> QED BY <3>1, <3>3, ProperOne
    <2> QED BY <2>2, <2>3
  <1>7. NewMails(drafts) \in SentMails
    BY <1>1, <1>6, SentDrafts
  <1>8. Yields(Settled, t, e) /\ t = Then(Then(SendMailToStmts(drafts), BidStmts(i, p, price)), SaveGoldToDB(p, g))
    BY DEF Yields
  <1>12. v \in Auction /\ v # None
    BY <1>2, <1>3, BiddenType
  <1>9. money' = Put(money, {p}, g) /\ auctions' = Put(auctions, {i}, v)
    <2>1. auctions' = [auctions EXCEPT ![i] = v]
      BY <1>1, <1>3 DEF Bidden, Auction
    <2> HIDE DEF v
    <2> QED BY <1>1, <1>3, <2>1, ItemsSaved DEF Put
  <1> HIDE DEF g, drafts, t, e, v
  <1>13. t \in Seq(Statement) /\ e \in Tables
         /\ Dealt(Settled, e, NewMails(drafts), i, Bidden(Settled.auctionhouse[i], p, price), p, g)
    BY <1>2, <1>4, <1>5, <1>7, <1>8, PlaceBidDb
  <1>10. Dealt(Settled, e, NewMails(drafts), i, v, p, g)
    BY <1>4, <1>13
  <1>11. Moves(Settled, e, Carries(drafts), discarded \cup unsent)
    <2>1. \A j \in Items : /\ e.character_inventory[j] = Settled.character_inventory[j]
                           /\ e.auctionhouse[j] = IF j = i THEN v ELSE Settled.auctionhouse[j]
      BY <1>4, <1>10, TablesFields DEF Dealt, Put
    <2> QED BY <1>3, <1>4, <1>6, <1>12, <2>1 DEF Moves, OneRow
  <1>14. p \in online /\ Commit(t) /\ SendMails(drafts, m_mail) /\ m_items' = m_items /\ AuctionUnchanged
    BY <1>1
  <1> QED BY <1>5, <1>6, <1>8, <1>9, <1>10, <1>11, <1>13, <1>14, DealtInv

-----------------------------------------------------------------------------
(* Handlers that take items out of an inventory *)

OutOfInventory(d, e, T) ==
    /\ e.character_inventory = Put(d.character_inventory, T, None)
    /\ e.item_instance = d.item_instance
    /\ e.money = d.money /\ e.auctionhouse = d.auctionhouse
    /\ e.mail = d.mail /\ e.mail_items = d.mail_items

LEMMA DelInventoryYields ==
    ASSUME NEW d \in Tables, NEW T \in SUBSET Items, NEW e, Yields(d, DeleteFromInventoryDB(T), e)
    PROVE  e \in Tables /\ OutOfInventory(d, e, T)
  <1> DEFINE s == [stmt |-> "DEL_CHAR_INVENTORY_BY_ITEM", items |-> T]
  <1>1. DeleteFromInventoryDB(T) = <<s>>
    BY DEF DeleteFromInventoryDB
  <1> HIDE DEF s
  <1>2. e = Run(d, s)
    BY <1>1, RunAllOne DEF Yields
  <1> QED BY <1>2, RunOfInventory DEF s, OutOfInventory

LEMMA DelInventoryStmts ==
    ASSUME NEW T \in SUBSET Items
    PROVE  DeleteFromInventoryDB(T) \in Seq(Statement)
  <1> DEFINE s == [stmt |-> "DEL_CHAR_INVENTORY_BY_ITEM", items |-> T]
  <1>1. s \in Statement
    BY DEF Statement
  <1>2. DeleteFromInventoryDB(T) = <<s>>
    BY DEF DeleteFromInventoryDB
  <1> HIDE DEF s
  <1> QED BY <1>1, <1>2

InsAuction(i, a) == <<[stmt |-> "INS_AUCTION", item |-> i, row |-> a]>>

LEMMA InsAuctionYields ==
    ASSUME NEW d \in Tables, NEW i \in Items, NEW a \in Auction, NEW e, Yields(d, InsAuction(i, a), e)
    PROVE  e \in Tables /\ AuctionRow(d, e, i, a)
  <1> DEFINE s == [stmt |-> "INS_AUCTION", item |-> i, row |-> a]
  <1>1. InsAuction(i, a) = <<s>>
    BY DEF InsAuction
  <1> HIDE DEF s
  <1>2. e = Run(d, s)
    BY <1>1, RunAllOne DEF Yields
  <1>3. e = Run(d, [stmt |-> "INS_AUCTION", item |-> i, row |-> a])
    BY <1>2 DEF s
  <1>4. /\ e \in Tables
        /\ e.auctionhouse = Put(d.auctionhouse, {i}, a)
        /\ e.character_inventory = d.character_inventory
        /\ e.item_instance = d.item_instance /\ e.money = d.money
        /\ e.mail = d.mail /\ e.mail_items = d.mail_items
    BY <1>3, RunAuction, SMTT(30)
  <1> QED BY <1>4 DEF AuctionRow

LEMMA InsAuctionStmts ==
    ASSUME NEW i \in Items, NEW a \in Auction
    PROVE  InsAuction(i, a) \in Seq(Statement)
  <1> DEFINE s == [stmt |-> "INS_AUCTION", item |-> i, row |-> a]
  <1>1. s \in Statement
    BY DEF Statement
  <1>2. InsAuction(i, a) = <<s>>
    BY DEF InsAuction
  <1> HIDE DEF s
  <1> QED BY <1>1, <1>2

(* Tables e agree with inventories x, and the goods of who is offline stay. *)
GoodsKept(e, x) ==
    /\ x \in [Items -> online \cup {None}]
    /\ \A i \in Items, q \in online : x[i] = q <=> e.character_inventory[i] = q
    /\ \A i \in Items, q \in Players \ online :
          Settled.character_inventory[i] = q <=> e.character_inventory[i] = q

LEMMA Taken ==
    ASSUME Inv, NEW p \in online, NEW T \in SUBSET Items, \A j \in T : m_items[j] = p,
           NEW x, x = Put(m_items, T, None), NEW e,
           e.character_inventory = Put(Settled.character_inventory, T, None)
    PROVE  /\ GoodsKept(e, x)
           /\ \A j \in T : Settled.character_inventory[j] = p
           /\ \A j \in Items : e.character_inventory[j] = IF j \in T THEN None ELSE Settled.character_inventory[j]
  <1>1. /\ m_items \in [Items -> online \cup {None}] /\ online \subseteq Players
        /\ \A i \in Items, q \in online : m_items[i] = q <=> Settled.character_inventory[i] = q
    BY ItemsSaved
  <1>2. Settled \in Tables
    BY SettledGood DEF Inv, Good
  <1>3. \A j \in Items : e.character_inventory[j] = IF j \in T THEN None ELSE Settled.character_inventory[j]
    BY <1>2, TablesFields DEF Put
  <1>4. x \in [Items -> online \cup {None}] /\ \A j \in Items : x[j] = IF j \in T THEN None ELSE m_items[j]
    BY <1>1 DEF Put
  <1>5. \A j \in T : Settled.character_inventory[j] = p
    BY <1>1
  <1>6. None \notin online
    BY <1>1, CustodyAssumption
  <1>7. \A i \in Items, q \in online : x[i] = q <=> e.character_inventory[i] = q
    BY <1>1, <1>3, <1>4, <1>6
  <1>8. \A i \in Items, q \in Players \ online :
          Settled.character_inventory[i] = q <=> e.character_inventory[i] = q
    BY <1>3, <1>5, CustodyAssumption
  <1> QED BY <1>3, <1>4, <1>5, <1>7, <1>8 DEF GoodsKept

LEMMA GoodsAndGold ==
    ASSUME NEW e, NEW x, NEW y, NEW p \in online, GoodsKept(e, x), GoldKept(e, y, p)
    PROVE  Agrees(e, x, y, online) /\ Outside(Settled, e, online) /\ Rich(e)
  BY DEF GoodsKept, GoldKept, Agrees, Outside, SameGoods

LEMMA NothingPosted ==
    ASSUME NEW d \in Tables, NEW e, e.mail = d.mail, e.mail_items = d.mail_items,
           e.item_instance = d.item_instance, NEW N, DOMAIN N = {}, Carried(N) = {}
    PROVE  Posted(d, e, N)
  BY TablesFields DEF Posted

(* An item to be sold: out of the inventory, into the auctions *)
Listed(d, e, i, a, p, g) ==
    /\ e.character_inventory = Put(d.character_inventory, {i}, None)
    /\ e.auctionhouse = Put(d.auctionhouse, {i}, a)
    /\ Pays(d, e, p, g)
    /\ e.item_instance = d.item_instance /\ e.mail = d.mail /\ e.mail_items = d.mail_items

LEMMA SellDb ==
    ASSUME NEW d \in Tables, NEW i \in Items, NEW a \in Auction, NEW p \in Players, NEW g \in Nat,
           NEW t, t = Then(Then(DeleteFromInventoryDB({i}), InsAuction(i, a)), SaveGoldToDB(p, g)),
           NEW e, Yields(d, t, e)
    PROVE  t \in Seq(Statement) /\ e \in Tables /\ Listed(d, e, i, a, p, g)
  <1> DEFINE T == {i}
             A == DeleteFromInventoryDB(T)
             B == InsAuction(i, a)
             G == SaveGoldToDB(p, g)
  <1>0. T \in SUBSET Items
    OBVIOUS
  <1> HIDE DEF T
  <1>1. A \in Seq(Statement) /\ B \in Seq(Statement) /\ G \in Seq(Statement)
    BY <1>0, DelInventoryStmts, InsAuctionStmts, GoldStmts
  <1>2. Then(A, B) \in Seq(Statement)
    BY <1>1 DEF Then
  <1> HIDE DEF A, B, G
  <1>3. t = Then(Then(A, B), G)
    BY DEF A, B, G, T
  <1>4. t \in Seq(Statement) /\ \E h : Yields(d, Then(A, B), h) /\ Yields(h, G, e)
    BY <1>1, <1>2, <1>3, YieldsThen
  <1>5. PICK h : Yields(d, Then(A, B), h) /\ Yields(h, G, e)
    BY <1>4
  <1>6. PICK f : Yields(d, A, f) /\ Yields(f, B, h)
    BY <1>1, <1>5, YieldsThen
  <1>7. f \in Tables /\ OutOfInventory(d, f, T)
    BY <1>0, <1>6, DelInventoryYields DEF A
  <1>8. h \in Tables /\ AuctionRow(f, h, i, a)
    BY <1>6, <1>7, InsAuctionYields DEF B
  <1>9. e \in Tables /\ OnlyGold(h, e, p, g)
    BY <1>5, <1>8, GoldYields DEF G
  <1>10. Listed(d, e, i, a, p, g)
    BY <1>7, <1>8, <1>9 DEF OutOfInventory, AuctionRow, OnlyGold, Listed, Pays, T
  <1> QED BY <1>4, <1>9, <1>10

LEMMA DepositTaken ==
    ASSUME NEW g \in 0..(MaxMoney - 1), g >= Deposit
    PROVE  ModifyMoney(g, -Deposit) \in 0..(MaxMoney - 1) /\ Owed(g, ModifyMoney(g, -Deposit))
  <1>1. Deposit \in Nat /\ MaxMoney \in Nat
    BY CustodyAssumption
  <1>2. ModifyMoney(g, -Deposit) = g - Deposit
    BY <1>1 DEF ModifyMoney
  <1>3. g - (g - Deposit) = Deposit /\ g - Deposit \in 0..(MaxMoney - 1)
    BY <1>1
  <1> QED BY <1>2, <1>3 DEF Owed

LEMMA SellInv ==
    ASSUME Inv, NEW p \in Players, NEW i \in Items, NEW buyout \in Buyouts, HandleAuctionSellItem(p, i, buyout)
    PROVE  Inv'
  <1> DEFINE a == [owner |-> p, bidder |-> None, bid |-> 0, buyout |-> buyout, deposit |-> Deposit]
             g == money[p]
             h == ModifyMoney(g, -Deposit)
             t == Then(Then(DeleteFromInventoryDB({i}), InsAuction(i, a)), SaveGoldToDB(p, g))
             e == RunAll(Settled, t)
  <1>1. /\ p \in online /\ m_items[i] = p /\ auctions[i] = None /\ g >= Deposit
        /\ auctions' = [auctions EXCEPT ![i] = a] /\ Commit(t)
        /\ m_items' = [m_items EXCEPT ![i] = None]
        /\ money' = [money EXCEPT ![p] = h]
        /\ m_mail' = m_mail /\ mailId' = mailId
        /\ AuctionUnchanged
    BY DEF HandleAuctionSellItem, Having, Then, InsAuction
  <1>2. a \in Auction /\ a # None
    <2>1. a \in Auction
      BY CustodyAssumption DEF Auction
    <2> QED BY <2>1, NullAssumption
  <1>3. /\ m_items \in [Items -> online \cup {None}]
        /\ money \in [Players -> 0..(MaxMoney - 1)] /\ auctions \in [Items -> Auction \cup {None}]
        /\ m_mail \in [MailIds -> Mail \cup {None}] /\ mailId \in 0..MaxMails
        /\ discarded \subseteq Items /\ unsent \subseteq Items
    BY DEF Inv, Types
  <1>4. g \in 0..(MaxMoney - 1) /\ g \in Nat /\ h \in 0..(MaxMoney - 1) /\ Owed(g, h)
    BY <1>1, <1>3, DepositTaken, CustodyAssumption
  <1>5. money' = Put(money, {p}, h) /\ m_items' = Put(m_items, {i}, None) /\ auctions' = Put(auctions, {i}, a)
    <2> HIDE DEF a, h
    <2> QED BY <1>1, <1>3 DEF Put
  <1>6. Settled \in Tables
    BY SettledGood DEF Inv, Good
  <1>7. OneRow(Settled) /\ up /\ auctions = Settled.auctionhouse
    BY <1>1, SettledGood DEF Inv, Good, Memory, Saved
  <1>8. Yields(Settled, t, e) /\ t = Then(Then(DeleteFromInventoryDB({i}), InsAuction(i, a)), SaveGoldToDB(p, g))
    BY DEF Yields
  <1> HIDE DEF a, g, h, t, e
  <1>9. t \in Seq(Statement) /\ e \in Tables /\ Listed(Settled, e, i, a, p, g)
    BY <1>2, <1>4, <1>6, <1>8, SellDb
  <1>10. GoldKept(e, money', p)
    <2>1. Pays(Settled, e, p, g)
      BY <1>9 DEF Listed
    <2>2. money' = Put(money, {p}, h)
      BY <1>5
    <2> QED BY <1>4, <2>1, <2>2, GoldSaved
  <1>11. /\ GoodsKept(e, m_items')
         /\ Settled.character_inventory[i] = p
         /\ \A j \in Items : e.character_inventory[j] = IF j = i THEN None ELSE Settled.character_inventory[j]
    <2> DEFINE T == {i}
    <2>1. T \in SUBSET Items /\ \A j \in T : m_items[j] = p
      BY <1>1
    <2>2. m_items' = Put(m_items, T, None) /\ e.character_inventory = Put(Settled.character_inventory, T, None)
      BY <1>5, <1>9 DEF Listed
    <2>4. i \in T /\ \A j \in Items : j \in T <=> j = i
      OBVIOUS
    <2>5. p \in online
      BY <1>1
    <2> HIDE DEF T
    <2>3. /\ GoodsKept(e, m_items')
          /\ \A j \in T : Settled.character_inventory[j] = p
          /\ \A j \in Items : e.character_inventory[j] = IF j \in T THEN None ELSE Settled.character_inventory[j]
      BY <2>1, <2>2, <2>5, Taken
    <2> QED BY <2>3, <2>4
  <1>12. Agrees(e, m_items', money', online) /\ Outside(Settled, e, online) /\ Rich(e)
    BY <1>1, <1>10, <1>11, GoodsAndGold
  <1>13. auctions' = e.auctionhouse /\ auctions' \in [Items -> Auction \cup {None}]
    BY <1>5, <1>7, <1>9, TablesFields DEF Listed
  <1>14. /\ Proper(<<>>) /\ SendMails(<<>>, m_mail) /\ Carries(<<>>) = {}
         /\ DOMAIN NewMails(<<>>) = {} /\ Carried(NewMails(<<>>)) = {}
    BY <1>1, <1>3, NoDrafts, ProperNone
  <1>15. Posted(Settled, e, NewMails(<<>>))
    <2> DEFINE N == NewMails(<<>>)
    <2>1. DOMAIN N = {} /\ Carried(N) = {}
      BY <1>14
    <2>2. e.mail = Settled.mail /\ e.mail_items = Settled.mail_items /\ e.item_instance = Settled.item_instance
      BY <1>9 DEF Listed
    <2> HIDE DEF N
    <2>3. Posted(Settled, e, N)
      BY <1>6, <2>1, <2>2, NothingPosted
    <2> QED BY <2>3 DEF N
  <1>16. Moves(Settled, e, Carries(<<>>), discarded' \cup unsent')
    <2>1. \A j \in Items : e.auctionhouse[j] = IF j = i THEN a ELSE Settled.auctionhouse[j]
      BY <1>6, <1>9, TablesFields DEF Listed, Put
    <2>2. Settled.character_inventory[i] # None
      BY <1>11, CustodyAssumption
    <2> QED BY <1>2, <1>7, <1>11, <1>14, <2>1, <2>2 DEF Moves, OneRow
  <1>17. /\ online' = online /\ loaded' = loaded /\ db' = db /\ up' = up /\ crashes' = crashes /\ expired' = expired
         /\ discarded' = discarded /\ unsent \subseteq unsent' /\ unsent' \subseteq Items /\ Trades'
    BY <1>1, <1>3, TradesKept DEF AuctionUnchanged
  <1>18. Commit(t)
    BY <1>1
  <1> QED BY <1>8, <1>9, <1>12, <1>13, <1>14, <1>15, <1>16, <1>17, <1>18, PostInv

(* Items sent: out of the inventory, into a mail *)
Sent(d, e, T, N, p, g) ==
    /\ e.character_inventory = Put(d.character_inventory, T, None)
    /\ Posted(d, e, N)
    /\ Pays(d, e, p, g)
    /\ e.auctionhouse = d.auctionhouse

LEMMA SendDb ==
    ASSUME NEW d \in Tables, NEW T \in SUBSET Items, NEW drafts, NewMails(drafts) \in SentMails,
           NEW p \in Players, NEW g \in Nat,
           NEW t, t = Then(Then(DeleteFromInventoryDB(T), SendMailToStmts(drafts)), SaveGoldToDB(p, g)),
           NEW e, Yields(d, t, e)
    PROVE  t \in Seq(Statement) /\ e \in Tables /\ Sent(d, e, T, NewMails(drafts), p, g)
  <1> DEFINE A == DeleteFromInventoryDB(T)
             B == SendMailToStmts(drafts)
             G == SaveGoldToDB(p, g)
             N == NewMails(drafts)
  <1>1. A \in Seq(Statement) /\ B \in Seq(Statement) /\ G \in Seq(Statement)
    BY DelInventoryStmts, MailStmts, GoldStmts
  <1>2. Then(A, B) \in Seq(Statement)
    BY <1>1 DEF Then
  <1> HIDE DEF A, B, G, N
  <1>3. t = Then(Then(A, B), G)
    BY DEF A, B, G
  <1>4. t \in Seq(Statement) /\ \E h : Yields(d, Then(A, B), h) /\ Yields(h, G, e)
    BY <1>1, <1>2, <1>3, YieldsThen
  <1>5. PICK h : Yields(d, Then(A, B), h) /\ Yields(h, G, e)
    BY <1>4
  <1>6. PICK f : Yields(d, A, f) /\ Yields(f, B, h)
    BY <1>1, <1>5, YieldsThen
  <1>7. f \in Tables /\ OutOfInventory(d, f, T)
    BY <1>6, DelInventoryYields DEF A
  <1>8. h \in Tables /\ OnlyMails(f, h, N)
    BY <1>6, <1>7, MailYields DEF B, N
  <1>9. e \in Tables /\ OnlyGold(h, e, p, g)
    BY <1>5, <1>8, GoldYields DEF G
  <1>10. Sent(d, e, T, N, p, g)
    BY <1>7, <1>8, <1>9 DEF OutOfInventory, OnlyMails, OnlyGold, Posted, Sent, Pays
  <1> QED BY <1>4, <1>9, <1>10 DEF N

(* What is mailed, charged and left, in 32 bits *)
Charge(m) == AsInt32(AsUint32(-AsUint32(Postage + m)))

LEMMA SumsType ==
    ASSUME Inv, NEW m \in scenario.sums
    PROVE  /\ m \in 0..(Uint32 - 1) /\ Uint32 \in Nat /\ Postage \in Nat /\ 2 * Postage < Uint32
           /\ Charge(m) \in Int
  <1>1. scenario.sums \in SUBSET (0..Uint32 - 1)
    <2>1. scenario \in Scenarios
      BY DEF Inv, Types
    <2>2. scenario \in [players : SUBSET Players, masters : SUBSET Players, items : SUBSET Items,
                        sums : SUBSET (0..Uint32 - 1), commits : Nat,
                        uses : SUBSET {"trade", "auction", "mail"}]
      BY <2>1, CustodyAssumption
    <2> QED BY <2>2
  <1>2. m \in 0..(Uint32 - 1)
    BY <1>1
  <1>3. Uint32 \in Nat /\ Postage \in Nat /\ 2 * Postage < Uint32
    BY CustodyAssumption
  <1>4. Charge(m) \in Int
    BY <1>2, <1>3 DEF Charge, AsUint32, AsInt32
  <1> QED BY <1>2, <1>3, <1>4

LEMMA SendMailInv ==
    ASSUME Inv, NEW p \in Players, NEW to \in Players, NEW T \in SUBSET Items, NEW m \in scenario.sums,
           NEW cod \in Amounts, HandleSendMail(p, to, T, m, cod), ~astray'
    PROVE  Inv'
  <1> DEFINE g == ModifyMoney(money[p], Charge(m))
             x == Draft(p, to, T, m, cod, FALSE)
             drafts == <<x>>
             t == Then(Then(DeleteFromInventoryDB(T), SendMailToStmts(drafts)), SaveGoldToDB(p, g))
             e == RunAll(Settled, t)
  <1>1. /\ p \in online /\ T \subseteq Having(p)
        /\ money' = [money EXCEPT ![p] = g]
        /\ SendMails(drafts, m_mail) /\ Commit(t)
        /\ m_items' = [i \in Items |-> IF i \in T THEN None ELSE m_items[i]]
        /\ discarded' = discarded /\ MailUnchanged /\ ~PassesMaximum(Charge(m))
    BY DEF HandleSendMail, Then, Charge
  <1>2. /\ m_items \in [Items -> online \cup {None}]
        /\ money \in [Players -> 0..(MaxMoney - 1)] /\ auctions \in [Items -> Auction \cup {None}]
        /\ discarded \subseteq Items /\ unsent \subseteq Items
    BY DEF Inv, Types
  <1>3. g \in 0..(MaxMoney - 1) /\ g \in Nat
    <2>1. Charge(m) \in Int /\ money[p] \in 0..(MaxMoney - 1) /\ MaxMoney \in Nat
      BY <1>2, SumsType, CustodyAssumption
    <2>2. Charge(m) <= MaxMoney
      BY <1>1, <2>1 DEF PassesMaximum
    <2> QED BY <2>1, <2>2, ModifyMoneyType
  <1>4. Proper(drafts) /\ Carries(drafts) = T
    <2>1. p \in Players \cup {None} /\ m \in Nat /\ cod \in Nat /\ FALSE \in BOOLEAN /\ p # None
      BY SumsType, CustodyAssumption
    <2>2. x \in DraftMail /\ x.items = T /\ x.row.sender = p
      BY <2>1 DEF Draft, DraftMail, MailRow
    <2> HIDE DEF x
    <2> QED BY <2>1, <2>2, ProperOne
  <1>5. NewMails(drafts) \in SentMails
    BY <1>1, <1>4, SentDrafts
  <1>6. Settled \in Tables
    BY SettledGood DEF Inv, Good
  <1>7. OneRow(Settled) /\ up /\ auctions = Settled.auctionhouse
    BY <1>1, SettledGood DEF Inv, Good, Memory, Saved
  <1>8. Yields(Settled, t, e) /\ t = Then(Then(DeleteFromInventoryDB(T), SendMailToStmts(drafts)), SaveGoldToDB(p, g))
    BY DEF Yields
  <1>9. money' = Put(money, {p}, g) /\ m_items' = Put(m_items, T, None)
    <2> HIDE DEF g
    <2> QED BY <1>1, <1>2 DEF Put
  <1> HIDE DEF g, drafts, t, e
  <1>10. t \in Seq(Statement) /\ e \in Tables /\ Sent(Settled, e, T, NewMails(drafts), p, g)
    BY <1>3, <1>5, <1>6, <1>8, SendDb
  <1>11. GoldKept(e, money', p)
    <2>3. g - g = 0
      BY <1>3
    <2>1. Pays(Settled, e, p, g) /\ Owed(g, g)
      BY <1>10, <2>3 DEF Sent, Owed
    <2>2. money' = Put(money, {p}, g)
      BY <1>9
    <2> QED BY <1>3, <2>1, <2>2, GoldSaved
  <1>12. /\ GoodsKept(e, m_items')
         /\ \A j \in T : Settled.character_inventory[j] = p
         /\ \A j \in Items : e.character_inventory[j] = IF j \in T THEN None ELSE Settled.character_inventory[j]
    <2>1. \A j \in T : m_items[j] = p
      BY <1>1 DEF Having
    <2>3. e.character_inventory = Put(Settled.character_inventory, T, None)
      BY <1>10 DEF Sent
    <2>2. m_items' = Put(m_items, T, None) /\ e.character_inventory = Put(Settled.character_inventory, T, None)
      BY <1>9, <2>3
    <2>5. p \in online
      BY <1>1
    <2> QED BY <2>1, <2>2, <2>5, Taken
  <1>13. Agrees(e, m_items', money', online) /\ Outside(Settled, e, online) /\ Rich(e)
    BY <1>1, <1>11, <1>12, GoodsAndGold
  <1>14. auctions' = e.auctionhouse /\ auctions' \in [Items -> Auction \cup {None}]
    BY <1>1, <1>2, <1>7, <1>10 DEF Sent, MailUnchanged
  <1>15. Posted(Settled, e, NewMails(drafts))
    BY <1>10 DEF Sent
  <1>16. Moves(Settled, e, Carries(drafts), discarded' \cup unsent')
    <2>1. \A j \in Items : e.auctionhouse[j] = Settled.auctionhouse[j]
      BY <1>10 DEF Sent
    <2>2. \A j \in T : Settled.character_inventory[j] # None /\ j \in Items
      BY <1>12, CustodyAssumption
    <2> QED BY <1>4, <1>7, <1>12, <2>1, <2>2 DEF Moves, OneRow
  <1>17. /\ online' = online /\ loaded' = loaded /\ db' = db /\ up' = up /\ crashes' = crashes /\ expired' = expired
         /\ discarded' = discarded /\ unsent \subseteq unsent' /\ unsent' \subseteq Items /\ Trades'
    BY <1>1, <1>2, TradesKept DEF MailUnchanged
  <1>18. Commit(t) /\ SendMails(drafts, m_mail) /\ Proper(drafts)
    BY <1>1, <1>4
  <1> QED BY <1>8, <1>10, <1>13, <1>14, <1>15, <1>16, <1>17, <1>18, PostInv

-----------------------------------------------------------------------------
(* Handlers that delete mails *)

(* L is what is in the mails D, but for X. *)
Inside(S, D, X, L) ==
    /\ L \in SUBSET Items
    /\ \A i \in L : S.mail_items[i] \in D /\ i \in S.item_instance /\ i \notin X
    /\ \A i \in Items : S.mail_items[i] \in D /\ i \in S.item_instance /\ i \notin X => i \in L

LEMMA DeletesMails ==
    ASSUME NEW S \in Tables, NEW p, NEW box, NEW X, NEW R, NEW B,
           MailsOf(S, {}, X, R, B), Opened(S, box, {}, X, R, B)
    PROVE  /\ MailsOf(S, DeletedMails(p, box), X, R, B)
           /\ Opened(S, Kept(p, box), DeletedMails(p, box), X, R, B)
           /\ Inside(S, DeletedMails(p, box), X, DeletedItems(p, box))
  <1> DEFINE D == DeletedMails(p, box)
             L == DeletedItems(p, box)
  <1>1. /\ box \in [MailIds -> Mail \cup {None}]
        /\ \A m \in MailIds : box[m] # None =>
              /\ S.mail[m] # None /\ box[m].row = R[m] /\ box[m].row.receiver \in B
              /\ box[m].items = Contents(S, m) \ X
    BY DEF Opened
  <1>2. D \subseteq MailIds /\ \A m \in D : box[m] # None
    BY DEF DeletedMails
  <1>3. \A m \in D : S.mail[m] # None /\ S.mail[m].receiver \in B
    BY <1>1, <1>2 DEF MailsOf
  <1>4. Kept(p, box) \in [MailIds -> Mail \cup {None}]
        /\ \A m \in MailIds : Kept(p, box)[m] = IF m \in D THEN None ELSE box[m]
    BY <1>1 DEF Kept
  <1>5. \A i : i \in L <=> \E m \in D : i \in box[m].items
    BY DEF DeletedItems
  <1> HIDE DEF D, L
  <1>6. MailsOf(S, D, X, R, B)
    BY <1>2, <1>3 DEF MailsOf
  <1>7. Opened(S, Kept(p, box), D, X, R, B)
    BY <1>1, <1>4 DEF Opened
  <1>8. \A m \in D : box[m].items = {i \in Items : S.mail_items[i] = m /\ i \in S.item_instance /\ i \notin X}
    BY <1>1, <1>2 DEF Contents, MailedIn
  <1>9. Inside(S, D, X, L)
    BY <1>5, <1>8 DEF Inside
  <1> QED BY <1>6, <1>7, <1>9 DEF D, L

Swept(d, e, D, L) ==
    /\ e.mail = Put(d.mail, D, None)
    /\ e.mail_items = [i \in Items |-> IF d.mail_items[i] \in D THEN None ELSE d.mail_items[i]]
    /\ e.item_instance = d.item_instance \ L
    /\ e.money = d.money /\ e.character_inventory = d.character_inventory
    /\ e.auctionhouse = d.auctionhouse

LEMMA SweptYields ==
    ASSUME NEW d \in Tables, NEW p, NEW box, DeletedItems(p, box) \in SUBSET Items,
           NEW e, Yields(d, SaveDeleted(p, box), e)
    PROVE  e \in Tables /\ Swept(d, e, DeletedMails(p, box), DeletedItems(p, box))
  <1>1. e = RunAll(d, SaveDeleted(p, box))
    BY DEF Yields
  <1> QED BY <1>1, DeletedDb DEF Swept

LEMMA SweptStmts ==
    ASSUME NEW d \in Tables, NEW p, NEW box, DeletedItems(p, box) \in SUBSET Items
    PROVE  SaveDeleted(p, box) \in Seq(Statement)
  BY DeletedDb

(* Tables e without the mails D and their items L, the other mails as in R *)
Sweeps(d, e, D, L, R) ==
    /\ e.mail = [m \in MailIds |-> IF m \in D THEN None ELSE R[m]]
    /\ e.mail_items = [i \in Items |-> IF d.mail_items[i] \in D THEN None ELSE d.mail_items[i]]
    /\ e.item_instance = d.item_instance \ L
    /\ e.character_inventory = d.character_inventory
    /\ e.auctionhouse = d.auctionhouse

LEMMA SweepInv ==
    ASSUME Inv, NEW t \in Seq(Statement), Commit(t), NEW e, Yields(Settled, t, e), e \in Tables,
           NEW D, NEW L, NEW R, Sweeps(Settled, e, D, L, R),
           MailsOf(Settled, D, {}, R, loaded), Opened(Settled, m_mail', D, {}, R, loaded),
           Inside(Settled, D, {}, L), discarded' = discarded \cup L, mailId' = mailId,
           Rich(e), db' = db, up' = up, crashes' = crashes, expired' = expired, unsent' = unsent, auctions' = auctions,
           online' \subseteq online, loaded' \subseteq online', online' \ loaded' \subseteq online \ loaded,
           loaded' = loaded \/ \A m \in MailIds : m_mail'[m] # None => m_mail'[m].row.receiver \in loaded',
           Agrees(e, m_items', money', online'), Outside(Settled, e, online), Trades'
    PROVE  Inv'
  <1> DEFINE S == Settled
             N == NewMails(<<>>)
  <1>1. /\ mailId \in 0..MaxMails /\ discarded \subseteq Items /\ unsent \subseteq Items
        /\ auctions \in [Items -> Auction \cup {None}]
    BY DEF Inv, Types
  <1>2. S \in Tables /\ OneRow(S)
    BY SettledGood DEF Inv, Good
  <1>3. m_mail' \in [MailIds -> Mail \cup {None}]
    BY DEF Opened
  <1>4. /\ Proper(<<>>) /\ SendMails(<<>>, m_mail')
        /\ DOMAIN N = {} /\ Carried(N) = {}
    BY <1>1, <1>3, NoDrafts
  <1>5. Sweeps(S, e, D, L, R) /\ Inside(S, D, {}, L)
    OBVIOUS
  <1> HIDE DEF S, N
  <1>6. Delivers(S, e, N, D, {}, L, R)
    BY <1>2, <1>4, <1>5 DEF Delivers, Sweeps
  <1>7. ItemsMove(S, e, N, D, {}, L, discarded' \cup unsent')
    <2>1. /\ \A i \in Items : /\ e.character_inventory[i] = S.character_inventory[i]
                              /\ e.auctionhouse[i] = S.auctionhouse[i]
      BY <1>5 DEF Sweeps
    <2>2. \A i \in Items : S.mail_items[i] \in D /\ i \in S.item_instance => i \in L
      BY <1>5 DEF Inside
    <2>3. L \subseteq Items /\ \A i \in L : S.mail_items[i] \in D
      BY <1>5 DEF Inside
    <2> QED BY <1>2, <1>4, <2>1, <2>2, <2>3 DEF ItemsMove, OneRow
  <1>8. /\ Delivers(Settled, e, NewMails(<<>>), D, {}, L, R)
        /\ ItemsMove(Settled, e, NewMails(<<>>), D, {}, L, discarded' \cup unsent')
    BY <1>6, <1>7 DEF S, N
  <1>9. /\ discarded \subseteq discarded' /\ discarded' \subseteq Items
        /\ unsent \subseteq unsent' /\ unsent' \subseteq Items
        /\ auctions' \in [Items -> Auction \cup {None}]
    BY <1>1, <1>5 DEF Inside
  <1>10. up => auctions' = e.auctionhouse
    BY DEF Inv, Saved, Sweeps
  <1>11. /\ m_items' \in [Items -> online' \cup {None}]
         /\ money' \in [Players -> 0..(MaxMoney - 1)]
         /\ \A i \in Items, p \in online' : m_items'[i] = p <=> e.character_inventory[i] = p
         /\ \A p \in online' : e.money[p] - money'[p] \in {0, Deposit}
         /\ \A p \in Players \ online : SameGoods(p, Settled, e)
    BY DEF Agrees, Outside
  <1>12. e = RunAll(Settled, t)
    BY DEF Yields
  <1>13. Proper(<<>>) /\ SendMails(<<>>, m_mail')
    BY <1>4
  <1> QED BY <1>8, <1>9, <1>10, <1>11, <1>12, <1>13, DealInv

(* The opened mails, as they are *)
LEMMA NothingTaken ==
    ASSUME Inv
    PROVE  /\ MailsOf(Settled, {}, {}, Settled.mail, loaded)
           /\ Opened(Settled, m_mail, {}, {}, Settled.mail, loaded)
  <1>1. Settled \in Tables
    BY SettledGood DEF Inv, Good
  <1>2. Settled.mail \in [MailIds -> MailRow \cup {None}]
    BY <1>1, TablesFields
  <1>3. MailsOf(Settled, {}, {}, Settled.mail, loaded)
    BY <1>2 DEF MailsOf
  <1>4. Opened(Settled, m_mail, {}, {}, Settled.mail, loaded)
    BY OpenedMails DEF Opened
  <1> QED BY <1>3, <1>4

(* Player::SaveToDB *)
LEMMA SaveDb ==
    ASSUME Inv, NEW p \in Players, NEW t, t = SaveToDB(p), NEW e, Yields(Settled, t, e)
    PROVE  /\ t \in Seq(Statement) /\ e \in Tables
           /\ Sweeps(Settled, e, DeletedMails(p, m_mail), DeletedItems(p, m_mail), Settled.mail)
           /\ Pays(Settled, e, p, money[p])
           /\ MailsOf(Settled, DeletedMails(p, m_mail), {}, Settled.mail, loaded)
           /\ Opened(Settled, Kept(p, m_mail), DeletedMails(p, m_mail), {}, Settled.mail, loaded)
           /\ Inside(Settled, DeletedMails(p, m_mail), {}, DeletedItems(p, m_mail))
  <1> DEFINE S == Settled
             D == DeletedMails(p, m_mail)
             L == DeletedItems(p, m_mail)
             G == SaveGoldToDB(p, money[p])
             A == SaveDeleted(p, m_mail)
  <1>1. S \in Tables
    BY SettledGood DEF Inv, Good
  <1>2. /\ MailsOf(S, D, {}, S.mail, loaded)
        /\ Opened(S, Kept(p, m_mail), D, {}, S.mail, loaded)
        /\ Inside(S, D, {}, L)
    BY <1>1, NothingTaken, DeletesMails
  <1>3. L \in SUBSET Items /\ D \subseteq MailIds
    BY <1>2 DEF Inside, DeletedMails
  <1>4. money[p] \in Nat
    BY ItemsSaved
  <1>5. G \in Seq(Statement) /\ A \in Seq(Statement)
    BY <1>1, <1>3, <1>4, GoldStmts, SweptStmts
  <1>6. t = Then(G, A)
    BY DEF SaveToDB, Then
  <1> HIDE DEF S, D, L, G, A
  <1>7. Yields(S, Then(G, A), e)
    BY <1>6 DEF S
  <1>8. t \in Seq(Statement) /\ \E f : Yields(S, G, f) /\ Yields(f, A, e)
    BY <1>5, <1>6, <1>7, YieldsThen
  <1>9. PICK f : Yields(S, G, f) /\ Yields(f, A, e)
    BY <1>8
  <1>10. f \in Tables /\ OnlyGold(S, f, p, money[p])
    BY <1>1, <1>4, <1>9, GoldYields DEF G
  <1>11. e \in Tables /\ Swept(f, e, D, L)
    BY <1>3, <1>9, <1>10, SweptYields DEF A, D, L
  <1>12. Sweeps(S, e, D, L, S.mail) /\ Pays(S, e, p, money[p])
    <2>1. S.mail \in [MailIds -> MailRow \cup {None}]
      BY <1>1, TablesFields
    <2> QED BY <1>10, <1>11, <2>1 DEF OnlyGold, Swept, Sweeps, Pays, Put
  <1> QED BY <1>2, <1>8, <1>11, <1>12 DEF S, D, L

LEMMA GoldAsIs ==
    ASSUME Inv, NEW p \in Players, NEW e, Pays(Settled, e, p, money[p])
    PROVE  GoldKept(e, money, p)
  <1>1. money \in [Players -> 0..(MaxMoney - 1)]
    BY ItemsSaved
  <1>2. money[p] \in 0..(MaxMoney - 1) /\ money = Put(money, {p}, money[p])
    BY <1>1 DEF Put
  <1> DEFINE g == money[p]
  <1>3. g - g = 0
    BY <1>2
  <1>4. Owed(g, g)
    BY <1>3 DEF Owed
  <1> QED BY <1>2, <1>4, GoldSaved

LEMMA GoodsAsIs ==
    ASSUME Inv, NEW e, e.character_inventory = Settled.character_inventory
    PROVE  GoodsKept(e, m_items)
  BY ItemsSaved DEF GoodsKept

LEMMA SavesInv ==
    ASSUME Inv, NEW p \in Players, PlayerSaves(p)
    PROVE  Inv'
  <1> DEFINE t == SaveToDB(p)
             e == RunAll(Settled, t)
             D == DeletedMails(p, m_mail)
             L == DeletedItems(p, m_mail)
             R == Settled.mail
  <1>1. /\ p \in online /\ Commit(t)
        /\ m_mail' = Kept(p, m_mail)
        /\ discarded' = discarded \cup L
        /\ m_items' = m_items /\ money' = money /\ mailId' = mailId
        /\ online' = online /\ loaded' = loaded /\ m_trade' = m_trade /\ auctions' = auctions
        /\ db' = db /\ up' = up /\ crashes' = crashes /\ expired' = expired /\ unsent' = unsent
    BY DEF PlayerSaves, MailUnchanged
  <1>2. Yields(Settled, t, e) /\ t = SaveToDB(p)
    BY DEF Yields
  <1> HIDE DEF t, e
  <1>3. /\ t \in Seq(Statement) /\ e \in Tables
        /\ Sweeps(Settled, e, D, L, R)
        /\ Pays(Settled, e, p, money[p])
        /\ MailsOf(Settled, D, {}, R, loaded)
        /\ Opened(Settled, Kept(p, m_mail), D, {}, R, loaded)
        /\ Inside(Settled, D, {}, L)
    BY <1>2, SaveDb
  <1> HIDE DEF D, L, R
  <1>4. GoldKept(e, money, p)
    BY <1>3, GoldAsIs
  <1>5. e.character_inventory = Settled.character_inventory
    BY <1>3 DEF Sweeps
  <1>6. Agrees(e, m_items, money, online) /\ Outside(Settled, e, online) /\ Rich(e)
    BY <1>1, <1>4, <1>5, GoodsAsIs, GoodsAndGold
  <1>7. Agrees(e, m_items', money', online') /\ Opened(Settled, m_mail', D, {}, R, loaded)
    BY <1>1, <1>3, <1>6
  <1>8. Trades'
    BY <1>1, TradesKept
  <1>9. online' \subseteq online /\ loaded' \subseteq online' /\ online' \ loaded' \subseteq online \ loaded
    BY <1>1 DEF Inv, Types
  <1> QED BY <1>1, <1>2, <1>3, <1>6, <1>7, <1>8, <1>9, SweepInv

LEMMA LogoutInv ==
    ASSUME Inv, NEW p \in Players, LogoutPlayer(p)
    PROVE  Inv'
  <1> DEFINE t == SaveToDB(p)
             e == RunAll(Settled, t)
             D == DeletedMails(p, m_mail)
             L == DeletedItems(p, m_mail)
             R == Settled.mail
  <1>1. /\ p \in online /\ Commit(t)
        /\ discarded' = discarded \cup L
        /\ online' = online \ {p} /\ loaded' = loaded \ {p}
        /\ m_trade' = (IF m_trade[p] = None THEN m_trade ELSE NoTrades(p))
        /\ m_items' = [i \in Items |-> IF m_items[i] = p THEN None ELSE m_items[i]]
        /\ m_mail' = [m \in MailIds |-> IF MailOf(p, m) THEN None ELSE m_mail[m]]
        /\ money' = money /\ mailId' = mailId /\ auctions' = auctions
        /\ db' = db /\ up' = up /\ crashes' = crashes /\ expired' = expired /\ unsent' = unsent
    BY DEF LogoutPlayer
  <1>2. Yields(Settled, t, e) /\ t = SaveToDB(p)
    BY DEF Yields
  <1>10. \A m \in D : MailOf(p, m)
    BY OpenedMails DEF DeletedMails, MailOf
  <1> HIDE DEF t, e
  <1>3. /\ t \in Seq(Statement) /\ e \in Tables
        /\ Sweeps(Settled, e, D, L, R)
        /\ Pays(Settled, e, p, money[p])
        /\ MailsOf(Settled, D, {}, R, loaded)
        /\ Inside(Settled, D, {}, L)
    BY <1>2, SaveDb
  <1>11. Opened(Settled, m_mail, {}, {}, R, loaded)
    BY NothingTaken
  <1> HIDE DEF D, L, R
  <1>12. m_mail' \in [MailIds -> Mail \cup {None}]
         /\ \A m \in MailIds : m_mail'[m] # None => m_mail'[m] = m_mail[m] /\ ~MailOf(p, m) /\ m \notin D
    BY <1>1, <1>10, OpenedMails
  <1>13. Opened(Settled, m_mail', D, {}, R, loaded)
    BY <1>11, <1>12 DEF Opened
  <1>14. \A m \in MailIds : m_mail'[m] # None => m_mail'[m].row.receiver \in loaded'
    BY <1>1, <1>12, OpenedMails DEF MailOf
  <1>4. GoldKept(e, money, p)
    BY <1>3, GoldAsIs
  <1>5. e.character_inventory = Settled.character_inventory
    BY <1>3 DEF Sweeps
  <1>6. Agrees(e, m_items, money, online) /\ Outside(Settled, e, online) /\ Rich(e)
    BY <1>1, <1>4, <1>5, GoodsAsIs, GoodsAndGold
  <1>7. Agrees(e, m_items', money', online')
    <2>1. /\ m_items \in [Items -> online \cup {None}]
          /\ \A i \in Items, q \in online : m_items[i] = q <=> e.character_inventory[i] = q
          /\ money \in [Players -> 0..(MaxMoney - 1)]
          /\ \A q \in online : e.money[q] - money[q] \in {0, Deposit}
      BY <1>6 DEF Agrees
    <2>2. None \notin online'
      BY <1>1, ItemsSaved, CustodyAssumption
    <2>3. m_items' \in [Items -> online' \cup {None}]
      BY <1>1, <2>1
    <2>4. \A i \in Items, q \in online' : m_items'[i] = q <=> m_items[i] = q
      BY <1>1, <2>2
    <2>5. \A i \in Items, q \in online' : m_items'[i] = q <=> e.character_inventory[i] = q
      BY <1>1, <2>1, <2>4
    <2>6. \A q \in online' : e.money[q] - money'[q] \in {0, Deposit}
      BY <1>1, <2>1
    <2> QED BY <1>1, <2>1, <2>3, <2>5, <2>6 DEF Agrees
  <1>8. Trades'
    <2>1. Trades
      BY DEF Inv
    <2>2. \A r \in Players : m_trade[r] # None => r \in online /\ Apart(m_trade[r])
      BY <2>1, TradesAre
    <2>3. CASE m_trade[p] = None
      <3>1. Paired(m_trade') /\ m_trade' = m_trade
        BY <1>1, <2>1, <2>3 DEF Trades
      <3> QED BY <1>1, <2>2, <2>3, <3>1, TradesAreNext
    <2>4. CASE m_trade[p] # None
      <3>1. m_trade' = NoTrades(p)
        BY <1>1, <2>4
      <3>2. /\ Paired(m_trade') /\ m_trade'[p] = None
            /\ \A r \in Players : m_trade'[r] # None => m_trade'[r] = m_trade[r]
        BY <2>1, <2>4, <3>1, EndedTrades
      <3> QED BY <1>1, <2>2, <3>2, TradesAreNext
    <2> QED BY <2>3, <2>4
  <1>9. online' \subseteq online /\ loaded' \subseteq online' /\ online' \ loaded' \subseteq online \ loaded
    BY <1>1 DEF Inv, Types
  <1>15. /\ Commit(t) /\ discarded' = discarded \cup L /\ mailId' = mailId /\ auctions' = auctions
         /\ db' = db /\ up' = up /\ crashes' = crashes /\ expired' = expired /\ unsent' = unsent
    BY <1>1
  <1>16. loaded' = loaded \/ \A m \in MailIds : m_mail'[m] # None => m_mail'[m].row.receiver \in loaded'
    BY <1>14
  <1> QED BY <1>2, <1>3, <1>6, <1>7, <1>8, <1>9, <1>13, <1>15, <1>16, SweepInv

(* One opened mail is changed, or some of its items are taken. *)
LEMMA UpdatedIs ==
    ASSUME NEW a \in MailRow, NEW r \in MailRow,
           r.sender = a.sender, r.receiver = a.receiver, r.returned = a.returned
    PROVE  Updated(a, r) = r
  BY DEF MailRow, Updated

LEMMA ChangedYields ==
    ASSUME NEW d \in Tables, NEW m \in MailIds, NEW mail, mail.row \in MailRow, d.mail[m] # None,
           NEW e, Yields(d, SaveChanged(m, mail), e)
    PROVE  e \in Tables /\ MailChanged(d, e, m, Updated(d.mail[m], mail.row))
  <1> DEFINE r == mail.row
  <1>1. SaveChanged(m, mail) = <<MailStmt(m, r)>>
    BY DEF SaveChanged, MailStmt
  <1> HIDE DEF r
  <1>2. e = Run(d, MailStmt(m, r))
    BY <1>1, RunAllOne DEF Yields
  <1>3. r \in MailRow
    BY DEF r
  <1>4. e \in Tables /\ MailChanged(d, e, m, Updated(d.mail[m], r))
    BY <1>2, <1>3, RunMailChange
  <1> QED BY <1>4 DEF r

LEMMA ChangedStmts ==
    ASSUME NEW m \in MailIds, NEW mail, mail.row \in MailRow
    PROVE  SaveChanged(m, mail) \in Seq(Statement)
  <1>1. MailStmt(m, mail.row) \in Statement
    BY DEF Statement, MailStmt
  <1>2. SaveChanged(m, mail) = <<MailStmt(m, mail.row)>>
    BY DEF SaveChanged, MailStmt
  <1> QED BY <1>1, <1>2

LEMMA MailTaken ==
    ASSUME Inv, NEW m \in MailIds, m_mail[m] # None, NEW mail \in Mail,
           mail.row.sender = m_mail[m].row.sender, mail.row.receiver = m_mail[m].row.receiver,
           mail.row.COD > 0 => mail.row.sender # None,
           NEW X, X \subseteq m_mail[m].items, mail.items = m_mail[m].items \ X,
           NEW R, R = Put(Settled.mail, {m}, mail.row), NEW box, box = Put(m_mail, {m}, mail)
    PROVE  MailsOf(Settled, {}, X, R, loaded) /\ Opened(Settled, box, {}, X, R, loaded)
  <1> DEFINE S == Settled
  <1>1. S \in Tables
    BY SettledGood DEF Inv, Good
  <1>2. /\ m_mail \in [MailIds -> Mail \cup {None}]
        /\ \A k \in MailIds : m_mail[k] # None =>
              /\ m_mail[k] \in Mail /\ m_mail[k].row = S.mail[k] /\ S.mail[k] # None
              /\ m_mail[k].row.receiver \in loaded
              /\ m_mail[k].items = Contents(S, k)
    BY OpenedMails
  <1>3. mail.row \in MailRow /\ mail.row # None /\ mail # None
    BY MailFields, NullAssumption
  <1>4. R \in [MailIds -> MailRow \cup {None}] /\ \A k \in MailIds : R[k] = IF k = m THEN mail.row ELSE S.mail[k]
    BY <1>1, <1>3, TablesFields DEF Put
  <1>5. box \in [MailIds -> Mail \cup {None}] /\ \A k \in MailIds : box[k] = IF k = m THEN mail ELSE m_mail[k]
    BY <1>2 DEF Put
  <1> HIDE DEF S
  <1>6. X \subseteq Items /\ \A i \in X : S.mail_items[i] = m
    BY <1>2 DEF Contents, MailedIn
  <1>7. MailsOf(S, {}, X, R, loaded)
    <2>1. S.mail[m] # None /\ S.mail[m] = m_mail[m].row /\ S.mail[m].receiver \in loaded
      BY <1>2
    <2>2. R[m] = mail.row
      BY <1>4
    <2>3. R[m] # None /\ R[m].receiver = S.mail[m].receiver /\ (R[m].COD > 0 => R[m].sender # None)
      BY <1>3, <2>1, <2>2
    <2>4. \A k \in MailIds : R[k] # S.mail[k] => k = m
      BY <1>4
    <2>5. m # None
      BY NullAssumption
    <2>6. \A k \in MailIds : R[k] # S.mail[k] =>
            /\ S.mail[k] # None /\ S.mail[k].receiver \in loaded
            /\ R[k] # None /\ R[k].receiver = S.mail[k].receiver
            /\ R[k].COD > 0 => R[k].sender # None
      BY <2>1, <2>3, <2>4
    <2>7. \A i \in X : S.mail_items[i] # None /\ S.mail[S.mail_items[i]] # None
                       /\ S.mail[S.mail_items[i]].receiver \in loaded
      BY <1>6, <2>1, <2>5
    <2> QED BY <1>4, <1>6, <2>6, <2>7 DEF MailsOf
  <1>8. \A k \in MailIds \ {m} : Contents(S, k) \ X = Contents(S, k)
    BY <1>6 DEF Contents, MailedIn
  <1>9. Opened(S, box, {}, X, R, loaded)
    <2> SUFFICES ASSUME NEW k \in MailIds, box[k] # None
                 PROVE  /\ S.mail[k] # None /\ box[k].row = R[k] /\ box[k].row.receiver \in loaded
                        /\ box[k].items = Contents(S, k) \ X
      BY <1>5 DEF Opened
    <2>1. CASE k = m
      BY <1>2, <1>4, <1>5, <2>1
    <2>2. CASE k # m
      BY <1>2, <1>4, <1>5, <1>8, <2>2
    <2> QED BY <2>1, <2>2
  <1> QED BY <1>7, <1>9 DEF S

LEMMA OpenedSender ==
    ASSUME Inv, NEW m \in MailIds, m_mail[m] # None
    PROVE  m_mail[m].row.COD > 0 => m_mail[m].row.sender # None
  <1>1. Numbered(Settled, mailId)
    BY SettledGood DEF Inv, Good
  <1>2. Settled.mail[m] # None /\ m_mail[m].row = Settled.mail[m]
    BY OpenedMails
  <1> QED BY <1>1, <1>2 DEF Numbered

(* The statements of HandleMailTakeMoney *)
LEMMA TakeMoneyDb ==
    ASSUME NEW S \in Tables, NEW p \in Players, NEW g \in Nat, NEW m \in MailIds, NEW mail, NEW box,
           mail.row \in MailRow, S.mail[m] # None, Updated(S.mail[m], mail.row) = mail.row,
           DeletedItems(p, box) \in SUBSET Items,
           NEW t, t = Then(Then(SaveGoldToDB(p, g), SaveChanged(m, mail)), SaveDeleted(p, box)),
           NEW e, Yields(S, t, e)
    PROVE  /\ t \in Seq(Statement) /\ e \in Tables /\ Pays(S, e, p, g)
           /\ Sweeps(S, e, DeletedMails(p, box), DeletedItems(p, box), Put(S.mail, {m}, mail.row))
  <1> DEFINE G == SaveGoldToDB(p, g)
             C == SaveChanged(m, mail)
             A == SaveDeleted(p, box)
             D == DeletedMails(p, box)
             L == DeletedItems(p, box)
             R == Put(S.mail, {m}, mail.row)
  <1>1. G \in Seq(Statement) /\ C \in Seq(Statement) /\ A \in Seq(Statement)
    BY GoldStmts, ChangedStmts, SweptStmts
  <1>2. L \in SUBSET Items
    OBVIOUS
  <1> HIDE DEF G, C, A, D, L, R
  <1>3. t = Then(Then(G, C), A)
    BY DEF G, C, A
  <1>4. Then(G, C) \in Seq(Statement)
    BY <1>1, RunBoth DEF Then
  <1>5. t \in Seq(Statement) /\ \E f : Yields(S, Then(G, C), f) /\ Yields(f, A, e)
    BY <1>1, <1>3, <1>4, YieldsThen
  <1>6. PICK f : Yields(S, Then(G, C), f) /\ Yields(f, A, e)
    BY <1>5
  <1>7. PICK c : Yields(S, G, c) /\ Yields(c, C, f)
    BY <1>1, <1>6, YieldsThen
  <1>8. c \in Tables /\ OnlyGold(S, c, p, g)
    BY <1>7, GoldYields DEF G
  <1>9. c.mail[m] = S.mail[m]
    BY <1>8 DEF OnlyGold
  <1>10. f \in Tables /\ MailChanged(c, f, m, mail.row)
    BY <1>7, <1>8, <1>9, ChangedYields DEF C
  <1>11. e \in Tables /\ Swept(f, e, D, L)
    BY <1>2, <1>6, <1>10, SweptYields DEF A, D, L
  <1>12. f.mail = R
    BY <1>8, <1>10 DEF OnlyGold, MailChanged, R
  <1>13. R \in [MailIds -> MailRow \cup {None}]
    BY <1>10, <1>12, TablesFields
  <1>14. e.mail = [k \in MailIds |-> IF k \in D THEN None ELSE R[k]]
    BY <1>11, <1>12, <1>13 DEF Swept, Put
  <1>15. Sweeps(S, e, D, L, R) /\ Pays(S, e, p, g)
    BY <1>8, <1>10, <1>11, <1>14 DEF OnlyGold, MailChanged, Swept, Sweeps, Pays
  <1> QED BY <1>5, <1>11, <1>15 DEF D, L, R

LEMMA EmptiedType ==
    ASSUME NEW x \in Mail, NEW y, y = [x EXCEPT !.row.money = 0]
    PROVE  /\ y \in Mail /\ y.items = x.items
           /\ y.row.sender = x.row.sender /\ y.row.receiver = x.row.receiver
           /\ y.row.returned = x.row.returned /\ y.row.COD = x.row.COD
  BY DEF Mail, MailRow

LEMMA BoxIsPut ==
    ASSUME Inv, NEW m \in MailIds, NEW mail
    PROVE  [m_mail EXCEPT ![m] = mail] = Put(m_mail, {m}, mail)
  BY OpenedMails DEF Put

LEMMA TakeMoneyInv ==
    ASSUME Inv, NEW p \in Players, NEW m \in MailIds, HandleMailTakeMoney(p, m), ~astray'
    PROVE  Inv'
  <1> DEFINE mail == [m_mail[m] EXCEPT !.row.money = 0]
             box == [m_mail EXCEPT ![m] = mail]
             change == AsInt32(m_mail[m].row.money)
             g == ModifyMoney(money[p], change)
             t == Then(Then(SaveGoldToDB(p, g), SaveChanged(m, mail)), SaveDeleted(p, box))
             e == RunAll(Settled, t)
             D == DeletedMails(p, box)
             L == DeletedItems(p, box)
             R == Put(Settled.mail, {m}, mail.row)
  <1>1. /\ m_mail[m] # None /\ p \in loaded /\ ~PassesMaximum(change)
        /\ money' = [money EXCEPT ![p] = g]
        /\ m_mail' = Kept(p, box)
        /\ discarded' = discarded \cup L
        /\ Commit(t)
        /\ m_items' = m_items /\ mailId' = mailId
        /\ online' = online /\ loaded' = loaded /\ m_trade' = m_trade /\ auctions' = auctions
        /\ db' = db /\ up' = up /\ crashes' = crashes /\ expired' = expired /\ unsent' = unsent
    BY DEF HandleMailTakeMoney, Readable, MailOf, MailUnchanged, Then
  <1>2. p \in online /\ loaded \subseteq online
    BY <1>1 DEF Inv, Types
  <1>3. m_mail[m] \in Mail /\ Settled.mail[m] = m_mail[m].row /\ Settled.mail[m] # None
    BY <1>1, OpenedMails
  <1>4. /\ mail \in Mail /\ mail.items = m_mail[m].items
        /\ mail.row.sender = m_mail[m].row.sender /\ mail.row.receiver = m_mail[m].row.receiver
        /\ mail.row.returned = m_mail[m].row.returned /\ mail.row.COD = m_mail[m].row.COD
    BY <1>3, EmptiedType
  <1>5. mail.row.COD > 0 => mail.row.sender # None
    BY <1>1, <1>4, OpenedSender
  <1>6. m_mail[m].row \in MailRow /\ mail.row \in MailRow
    BY <1>3, <1>4, MailFields
  <1>7. change \in Int /\ change <= MaxMoney
    <2>1. m_mail[m].row.money \in Nat /\ Uint32 \in Nat /\ MaxMoney \in Nat
      BY <1>6, CustodyAssumption DEF MailRow
    <2>2. change \in Int
      BY <2>1 DEF AsInt32
    <2> HIDE DEF change
    <2> QED BY <1>1, <2>1, <2>2 DEF PassesMaximum
  <1>8. money[p] \in 0..(MaxMoney - 1) /\ money \in [Players -> 0..(MaxMoney - 1)]
    BY ItemsSaved
  <1>9. g \in 0..(MaxMoney - 1)
    BY <1>7, <1>8, ModifyMoneyType
  <1>10. g \in Nat /\ g - g = 0
    BY <1>9
  <1>11. money' = Put(money, {p}, g)
    BY <1>1, <1>8 DEF Put
  <1>12. box = Put(m_mail, {m}, mail)
    BY BoxIsPut
  <1>13. Yields(Settled, t, e)
    BY DEF Yields
  <1>14. t = Then(Then(SaveGoldToDB(p, g), SaveChanged(m, mail)), SaveDeleted(p, box))
    OBVIOUS
  <1>15. R = Put(Settled.mail, {m}, mail.row)
    OBVIOUS
  <1> HIDE DEF mail, box, change, g, t, e, R
  <1>16. Updated(Settled.mail[m], mail.row) = mail.row
    BY <1>3, <1>4, <1>6, UpdatedIs
  <1>17. {} \subseteq m_mail[m].items /\ mail.items = m_mail[m].items \ {}
    BY <1>4
  <1>18. MailsOf(Settled, {}, {}, R, loaded) /\ Opened(Settled, box, {}, {}, R, loaded)
    BY <1>1, <1>4, <1>5, <1>12, <1>15, <1>17, MailTaken
  <1>19. Settled \in Tables
    BY SettledGood DEF Inv, Good
  <1>20. /\ MailsOf(Settled, D, {}, R, loaded)
         /\ Opened(Settled, Kept(p, box), D, {}, R, loaded)
         /\ Inside(Settled, D, {}, L)
    BY <1>18, <1>19, DeletesMails
  <1>21. DeletedItems(p, box) \in SUBSET Items
    BY <1>20 DEF Inside
  <1>22. /\ t \in Seq(Statement) /\ e \in Tables /\ Pays(Settled, e, p, g)
         /\ Sweeps(Settled, e, D, L, R)
    BY <1>3, <1>6, <1>10, <1>13, <1>14, <1>15, <1>16, <1>19, <1>21, TakeMoneyDb
  <1> HIDE DEF D, L
  <1>23. Owed(g, g)
    BY <1>10 DEF Owed
  <1>24. GoldKept(e, money', p)
    BY <1>9, <1>11, <1>22, <1>23, GoldSaved
  <1>25. e.character_inventory = Settled.character_inventory
    BY <1>22 DEF Sweeps
  <1>26. Agrees(e, m_items, money', online) /\ Outside(Settled, e, online) /\ Rich(e)
    BY <1>2, <1>24, <1>25, GoodsAsIs, GoodsAndGold
  <1>27. Agrees(e, m_items', money', online') /\ Opened(Settled, m_mail', D, {}, R, loaded)
    BY <1>1, <1>20, <1>26
  <1>28. Trades'
    BY <1>1, TradesKept
  <1>29. online' \subseteq online /\ loaded' \subseteq online' /\ online' \ loaded' \subseteq online \ loaded
    BY <1>1, <1>2
  <1>30. /\ Commit(t) /\ discarded' = discarded \cup L /\ mailId' = mailId /\ auctions' = auctions
         /\ db' = db /\ up' = up /\ crashes' = crashes /\ expired' = expired /\ unsent' = unsent /\ loaded' = loaded
    BY <1>1
  <1> QED BY <1>13, <1>20, <1>22, <1>26, <1>27, <1>28, <1>29, <1>30, SweepInv

(* A handler of the mail that moves items *)
LEMMA MailDealInv ==
    ASSUME Inv, NEW t \in Seq(Statement), Commit(t), NEW e, Yields(Settled, t, e),
           NEW drafts, Proper(drafts), NEW box, SendMails(drafts, box),
           NEW D, NEW X, NEW L, NEW R,
           Delivers(Settled, e, NewMails(drafts), D, X, L, R),
           MailsOf(Settled, D, X, R, loaded),
           ItemsMove(Settled, e, NewMails(drafts), D, X, L, discarded' \cup unsent'),
           Opened(Settled, box, D, X, R, loaded),
           Agrees(e, m_items', money', online), Outside(Settled, e, online), Rich(e),
           e.auctionhouse = Settled.auctionhouse,
           discarded \subseteq discarded', discarded' \subseteq Items, MailUnchanged
    PROVE  Inv'
  <1>1. /\ online' = online /\ loaded' = loaded /\ m_trade' = m_trade /\ auctions' = auctions
        /\ db' = db /\ up' = up /\ crashes' = crashes /\ expired' = expired /\ unsent' = unsent
    BY DEF MailUnchanged
  <1>2. /\ loaded \subseteq online /\ unsent \subseteq Items
        /\ auctions \in [Items -> Auction \cup {None}] /\ (up => auctions = Settled.auctionhouse)
    BY DEF Inv, Types, Saved
  <1>3. /\ online' \subseteq online /\ loaded' \subseteq online' /\ online' \ loaded' \subseteq online \ loaded
        /\ unsent \subseteq unsent' /\ unsent' \subseteq Items
        /\ auctions' \in [Items -> Auction \cup {None}] /\ (up => auctions' = e.auctionhouse)
    BY <1>1, <1>2
  <1>4. /\ m_items' \in [Items -> online' \cup {None}]
        /\ money' \in [Players -> 0..(MaxMoney - 1)]
        /\ \A i \in Items, p \in online' : m_items'[i] = p <=> e.character_inventory[i] = p
        /\ \A p \in online' : e.money[p] - money'[p] \in {0, Deposit}
        /\ \A p \in Players \ online : SameGoods(p, Settled, e)
    BY <1>1 DEF Agrees, Outside
  <1>5. e = RunAll(Settled, t)
    BY DEF Yields
  <1>6. Trades'
    BY <1>1, TradesKept
  <1>7. /\ loaded' = loaded \/ \A m \in MailIds : m_mail'[m] # None => m_mail'[m].row.receiver \in loaded'
        /\ db' = db /\ up' = up /\ crashes' = crashes /\ expired' = expired
    BY <1>1
  <1> QED BY <1>3, <1>4, <1>5, <1>6, <1>7, DealInv

(* The goods of a player who gets the items T, which were in no inventory *)
LEMMA Stored ==
    ASSUME Inv, NEW p \in online, NEW T \in SUBSET Items, \A j \in T : Settled.character_inventory[j] = None,
           NEW x, x = Put(m_items, T, p), NEW e,
           e.character_inventory = Put(Settled.character_inventory, T, p)
    PROVE  /\ GoodsKept(e, x)
           /\ \A j \in Items : e.character_inventory[j] = IF j \in T THEN p ELSE Settled.character_inventory[j]
  <1>1. /\ m_items \in [Items -> online \cup {None}] /\ online \subseteq Players
        /\ \A i \in Items, q \in online : m_items[i] = q <=> Settled.character_inventory[i] = q
    BY ItemsSaved
  <1>2. Settled \in Tables
    BY SettledGood DEF Inv, Good
  <1>3. \A j \in Items : e.character_inventory[j] = IF j \in T THEN p ELSE Settled.character_inventory[j]
    BY <1>2, TablesFields DEF Put
  <1>4. x \in [Items -> online \cup {None}] /\ \A j \in Items : x[j] = IF j \in T THEN p ELSE m_items[j]
    BY <1>1 DEF Put
  <1>7. \A i \in Items, q \in online : x[i] = q <=> e.character_inventory[i] = q
    BY <1>1, <1>3, <1>4
  <1>8. \A i \in Items, q \in Players \ online :
          Settled.character_inventory[i] = q <=> e.character_inventory[i] = q
    BY <1>3, CustodyAssumption
  <1> QED BY <1>3, <1>4, <1>7, <1>8 DEF GoodsKept

Stocked(d, e, p, T, g) ==
    /\ e.money = Put(d.money, {p}, g)
    /\ e.character_inventory = Put(d.character_inventory, T, p)
    /\ e.item_instance = d.item_instance \cup T /\ e.auctionhouse = d.auctionhouse
    /\ e.mail = d.mail /\ e.mail_items = d.mail_items

RepInventory(p, T) == <<[stmt |-> "REP_INVENTORY_ITEM", items |-> T, player |-> p]>>
Repped(d, e, p, T) ==
    /\ e.character_inventory = Put(d.character_inventory, T, p)
    /\ e.item_instance = d.item_instance \cup T
    /\ e.money = d.money /\ e.auctionhouse = d.auctionhouse
    /\ e.mail = d.mail /\ e.mail_items = d.mail_items

LEMMA RepYields ==
    ASSUME NEW d \in Tables, NEW p \in Players, NEW T \in SUBSET Items, NEW e, Yields(d, RepInventory(p, T), e)
    PROVE  e \in Tables /\ Repped(d, e, p, T)
  <1> DEFINE s == [stmt |-> "REP_INVENTORY_ITEM", items |-> T, player |-> p]
  <1>1. RepInventory(p, T) = <<s>>
    BY DEF RepInventory
  <1> HIDE DEF s
  <1>2. e = Run(d, s)
    BY <1>1, RunAllOne DEF Yields
  <1> QED BY <1>2, RunInventory DEF s, Repped

LEMMA StockStmts ==
    ASSUME NEW p \in Players, NEW g \in Nat, NEW T \in SUBSET Items
    PROVE  /\ RepInventory(p, T) \in Seq(Statement)
           /\ SaveInventoryAndGoldToDB(p, T, g) \in Seq(Statement)
           /\ SaveInventoryAndGoldToDB(p, T, g) = Then(RepInventory(p, T), SaveGoldToDB(p, g))
  <1> DEFINE s == [stmt |-> "REP_INVENTORY_ITEM", items |-> T, player |-> p]
  <1>1. s \in Statement
    BY DEF Statement
  <1>2. RepInventory(p, T) = <<s>>
    BY DEF RepInventory
  <1> HIDE DEF s
  <1>3. RepInventory(p, T) \in Seq(Statement) /\ SaveGoldToDB(p, g) \in Seq(Statement)
    BY <1>1, <1>2, GoldStmts
  <1>4. SaveInventoryAndGoldToDB(p, T, g) = Then(RepInventory(p, T), SaveGoldToDB(p, g))
    BY DEF SaveInventoryAndGoldToDB, RepInventory, Then
  <1> QED BY <1>3, <1>4, RunBoth DEF Then

LEMMA StockYields ==
    ASSUME NEW d \in Tables, NEW p \in Players, NEW g \in Nat, NEW T \in SUBSET Items,
           NEW e, Yields(d, SaveInventoryAndGoldToDB(p, T, g), e)
    PROVE  e \in Tables /\ Stocked(d, e, p, T, g)
  <1> DEFINE A == RepInventory(p, T)
             G == SaveGoldToDB(p, g)
  <1>1. A \in Seq(Statement) /\ G \in Seq(Statement) /\ SaveInventoryAndGoldToDB(p, T, g) = Then(A, G)
    BY StockStmts, GoldStmts
  <1>2. Yields(d, Then(A, G), e)
    BY <1>1
  <1> HIDE DEF A, G
  <1>3. PICK f : Yields(d, A, f) /\ Yields(f, G, e)
    BY <1>1, <1>2, YieldsThen
  <1>4. f \in Tables /\ Repped(d, f, p, T)
    BY <1>3, RepYields DEF A
  <1>5. e \in Tables /\ OnlyGold(f, e, p, g)
    BY <1>3, <1>4, GoldYields DEF G
  <1> QED BY <1>4, <1>5 DEF Repped, OnlyGold, Stocked

DelMailItem(i) == <<[stmt |-> "DEL_MAIL_ITEM", item |-> i]>>
OutOfMail(d, e, i) ==
    /\ e.mail_items = Put(d.mail_items, {i}, None)
    /\ e.character_inventory = d.character_inventory
    /\ e.item_instance = d.item_instance /\ e.money = d.money
    /\ e.auctionhouse = d.auctionhouse /\ e.mail = d.mail

LEMMA DelMailItemYields ==
    ASSUME NEW d \in Tables, NEW i \in Items, NEW e, Yields(d, DelMailItem(i), e)
    PROVE  e \in Tables /\ OutOfMail(d, e, i)
  <1> DEFINE s == [stmt |-> "DEL_MAIL_ITEM", item |-> i]
  <1>1. DelMailItem(i) = <<s>>
    BY DEF DelMailItem
  <1> HIDE DEF s
  <1>2. e = Run(d, s)
    BY <1>1, RunAllOne DEF Yields
  <1> QED BY <1>2, RunNoMailItem DEF s, OutOfMail

LEMMA DelMailItemStmts ==
    ASSUME NEW i \in Items
    PROVE  DelMailItem(i) \in Seq(Statement)
  <1> DEFINE s == [stmt |-> "DEL_MAIL_ITEM", item |-> i]
  <1>1. s \in Statement
    BY DEF Statement
  <1>2. DelMailItem(i) = <<s>>
    BY DEF DelMailItem
  <1> HIDE DEF s
  <1> QED BY <1>1, <1>2

LEMMA ThenStmts ==
    ASSUME NEW u \in Seq(Statement), NEW v \in Seq(Statement)
    PROVE  Then(u, v) \in Seq(Statement)
  BY DEF Then

TakeItemStmts(p, m, i, drafts, mail, box, g) ==
    Then(Then(Then(Then(SendMailToStmts(drafts), SaveInventoryAndGoldToDB(p, {i}, g)),
                   SaveChanged(m, mail)), DelMailItem(i)), SaveDeleted(p, box))

TookItem(S, e, N, D, L, p, m, i, row, g) ==
    /\ Pays(S, e, p, g)
    /\ e.character_inventory = Put(S.character_inventory, {i}, p)
    /\ e.auctionhouse = S.auctionhouse
    /\ Delivers(S, e, N, D, {i}, L, Put(S.mail, {m}, row))

NoneOf(N, m, D) == \A k \in DOMAIN N : k # m /\ k \notin D

LEMMA TakeItemDb ==
    ASSUME NEW S \in Tables, NEW p \in Players, NEW g \in Nat, NEW m \in MailIds, NEW i \in Items,
           NEW mail, NEW box, NEW drafts, NewMails(drafts) \in SentMails,
           Carried(NewMails(drafts)) = {},
           NoneOf(NewMails(drafts), m, DeletedMails(p, box)),
           mail.row \in MailRow, S.mail[m] # None, Updated(S.mail[m], mail.row) = mail.row,
           i \in S.item_instance,
           DeletedItems(p, box) \in SUBSET Items,
           NEW t, t = TakeItemStmts(p, m, i, drafts, mail, box, g),
           NEW e, Yields(S, t, e)
    PROVE  /\ t \in Seq(Statement) /\ e \in Tables
           /\ TookItem(S, e, NewMails(drafts), DeletedMails(p, box), DeletedItems(p, box), p, m, i, mail.row, g)
  <1> DEFINE M == SendMailToStmts(drafts)
             G == SaveInventoryAndGoldToDB(p, {i}, g)
             C == SaveChanged(m, mail)
             I == DelMailItem(i)
             A == SaveDeleted(p, box)
             N == NewMails(drafts)
             D == DeletedMails(p, box)
             L == DeletedItems(p, box)
             R == Put(S.mail, {m}, mail.row)
  <1>0. {i} \in SUBSET Items
    OBVIOUS
  <1>1. M \in Seq(Statement) /\ G \in Seq(Statement) /\ C \in Seq(Statement)
        /\ I \in Seq(Statement) /\ A \in Seq(Statement)
    BY <1>0, MailStmts, StockStmts, ChangedStmts, DelMailItemStmts, SweptStmts
  <1>2. L \in SUBSET Items /\ D \subseteq MailIds /\ \A k \in DOMAIN N : k # m /\ k \notin D
    BY DEF DeletedMails, NoneOf
  <1> HIDE DEF M, G, C, I, A, N, D, L, R
  <1>3. t = Then(Then(Then(Then(M, G), C), I), A)
    BY DEF TakeItemStmts, M, G, C, I, A
  <1>4. Then(M, G) \in Seq(Statement)
    BY <1>1, ThenStmts
  <1>5. Then(Then(M, G), C) \in Seq(Statement)
    BY <1>1, <1>4, ThenStmts
  <1>6. Then(Then(Then(M, G), C), I) \in Seq(Statement)
    BY <1>1, <1>5, ThenStmts
  <1>7. t \in Seq(Statement) /\ \E f : Yields(S, Then(Then(Then(M, G), C), I), f) /\ Yields(f, A, e)
    BY <1>1, <1>3, <1>6, YieldsThen
  <1>8. PICK f : Yields(S, Then(Then(Then(M, G), C), I), f) /\ Yields(f, A, e)
    BY <1>7
  <1>9. PICK c : Yields(S, Then(Then(M, G), C), c) /\ Yields(c, I, f)
    BY <1>1, <1>5, <1>8, YieldsThen
  <1>10. PICK b : Yields(S, Then(M, G), b) /\ Yields(b, C, c)
    BY <1>1, <1>4, <1>9, YieldsThen
  <1>11. PICK a : Yields(S, M, a) /\ Yields(a, G, b)
    BY <1>1, <1>10, YieldsThen
  <1>12. a \in Tables /\ OnlyMails(S, a, N)
    BY <1>11, MailYields DEF M, N
  <1>13. b \in Tables /\ Stocked(a, b, p, {i}, g)
    BY <1>0, <1>11, <1>12, StockYields DEF G
  <1>14. b.mail[m] = S.mail[m]
    BY <1>2, <1>12, <1>13 DEF OnlyMails, Posted, Stocked
  <1>15. c \in Tables /\ MailChanged(b, c, m, mail.row)
    BY <1>10, <1>13, <1>14, ChangedYields DEF C
  <1>16. f \in Tables /\ OutOfMail(c, f, i)
    BY <1>9, <1>15, DelMailItemYields DEF I
  <1>17. e \in Tables /\ Swept(f, e, D, L)
    BY <1>2, <1>8, <1>16, SweptYields DEF A, D, L
  <1>18. S.mail \in [MailIds -> MailRow \cup {None}] /\ S.mail_items \in [Items -> MailIds \cup {None}]
    BY TablesFields
  <1>19. \A k \in MailIds : R[k] = IF k = m THEN mail.row ELSE S.mail[k]
    BY <1>18 DEF R, Put
  <1>20. f.mail = Put(a.mail, {m}, mail.row) /\ DOMAIN a.mail = MailIds
         /\ \A k \in MailIds : a.mail[k] = IF k \in DOMAIN N THEN N[k].row ELSE S.mail[k]
    BY <1>12, <1>13, <1>15, <1>16 DEF OnlyMails, Posted, Stocked, MailChanged, OutOfMail
  <1>21. DOMAIN f.mail = MailIds
         /\ \A k \in MailIds : f.mail[k] = IF k \in DOMAIN N THEN N[k].row ELSE R[k]
    BY <1>2, <1>19, <1>20 DEF Put
  <1>22. e.mail = [k \in MailIds |-> IF k \in DOMAIN N THEN N[k].row ELSE IF k \in D THEN None ELSE R[k]]
    BY <1>2, <1>17, <1>21 DEF Swept, Put
  <1>23. Carried(N) = {}
    BY DEF N
  <1>24. f.mail_items = Put(S.mail_items, {i}, None)
    <2>1. a.mail_items = S.mail_items
      BY <1>12, <1>18, <1>23 DEF OnlyMails, Posted
    <2> QED BY <1>13, <1>15, <1>16, <2>1 DEF Stocked, MailChanged, OutOfMail
  <1>25. \A j \in Items : f.mail_items[j] = IF j = i THEN None ELSE S.mail_items[j]
    BY <1>18, <1>24 DEF Put
  <1>26. None \notin D
    BY <1>2, NullAssumption
  <1>27. e.mail_items = [j \in Items |-> IF j \in {i} \/ S.mail_items[j] \in D THEN None ELSE S.mail_items[j]]
    BY <1>17, <1>25, <1>26 DEF Swept
  <1>28. e.item_instance = S.item_instance \ L
    BY <1>12, <1>13, <1>15, <1>16, <1>17 DEF OnlyMails, Posted, Stocked, MailChanged, OutOfMail, Swept
  <1>29. Delivers(S, e, N, D, {i}, L, R)
    BY <1>17, <1>22, <1>23, <1>27, <1>28 DEF Delivers
  <1>30. /\ e.character_inventory = Put(S.character_inventory, {i}, p)
         /\ e.auctionhouse = S.auctionhouse /\ Pays(S, e, p, g)
    BY <1>12, <1>13, <1>15, <1>16, <1>17 DEF OnlyMails, Stocked, MailChanged, OutOfMail, Swept, Pays
  <1> QED BY <1>7, <1>17, <1>29, <1>30 DEF N, D, L, R, TookItem

TakenOut(x, i) == [x EXCEPT !.row.COD = 0, !.items = @ \ {i}]

LEMMA TakenOutType ==
    ASSUME NEW x \in Mail, NEW i, NEW y, y = TakenOut(x, i)
    PROVE  /\ y \in Mail /\ y.items = x.items \ {i}
           /\ y.row.sender = x.row.sender /\ y.row.receiver = x.row.receiver
           /\ y.row.returned = x.row.returned /\ y.row.COD = 0
  BY DEF Mail, MailRow, TakenOut

(* The ids of new mails are not those of opened ones. *)
LEMMA NewIds ==
    ASSUME Inv, NEW drafts, Proper(drafts), NEW box, SendMails(drafts, box)
    PROVE  /\ NewMails(drafts) \in SentMails /\ Carried(NewMails(drafts)) = Carries(drafts)
           /\ \A k \in DOMAIN NewMails(drafts) : k \in MailIds /\ Settled.mail[k] = None
  <1>1. mailId \in 0..MaxMails /\ mailId + Len(drafts) <= MaxMails
    BY DEF Inv, Types, SendMails
  <1>2. FreshMails(NewMails(drafts), mailId, mailId + Len(drafts)) /\ Carried(NewMails(drafts)) = Carries(drafts)
    BY <1>1, DraftsFresh
  <1> DEFINE N == NewMails(drafts)
  <1> HIDE DEF N
  <1>3. N \in SentMails /\ \A k \in DOMAIN N : k > mailId
    BY <1>2 DEF FreshMails, N
  <1>4. \A k \in DOMAIN N : k \in MailIds
    BY <1>3 DEF SentMails
  <1>5. Numbered(Settled, mailId) /\ mailId \in Nat
    BY <1>1, SettledGood DEF Inv, Good
  <1>6. \A k \in MailIds : k \in Nat
    BY DEF MailIds
  <1>7. \A k \in DOMAIN N : Settled.mail[k] = None
    BY <1>3, <1>4, <1>5, <1>6 DEF Numbered
  <1> QED BY <1>2, <1>3, <1>4, <1>7 DEF N

Payment(p, row) == IF row.COD = 0 THEN <<>> ELSE <<Draft(p, row.sender, {}, row.COD, 0, TRUE)>>

LEMMA PaymentProper ==
    ASSUME NEW p \in Players, NEW row \in MailRow, row.COD > 0 => row.sender # None
    PROVE  Proper(Payment(p, row)) /\ Carries(Payment(p, row)) = {}
  <1>1. CASE row.COD = 0
    BY <1>1, ProperNone DEF Payment
  <1>2. CASE row.COD # 0
    <2> DEFINE x == Draft(p, row.sender, {}, row.COD, 0, TRUE)
    <2>1. row.COD \in Nat /\ row.sender \in Players \cup {None}
      BY DEF MailRow
    <2>2. row.sender \in Players
      BY <1>2, <2>1
    <2>3. x \in DraftMail /\ x.items = {} /\ x.row.COD = 0
      BY <2>1, <2>2 DEF Draft, DraftMail, MailRow
    <2>4. Payment(p, row) = <<x>>
      BY <1>2 DEF Payment
    <2> HIDE DEF x
    <2>5. x.row.COD > 0 => x.row.sender # None
      BY <2>3
    <2> QED BY <2>3, <2>4, <2>5, ProperOne
  <1> QED BY <1>1, <1>2

LEMMA TakeItemInv ==
    ASSUME Inv, NEW p \in Players, NEW m \in MailIds, NEW i \in Items, HandleMailTakeItem(p, m, i), ~astray'
    PROVE  Inv'
  <1> DEFINE old == m_mail[m]
             mail == [old EXCEPT !.row.COD = 0, !.items = @ \ {i}]
             box == [m_mail EXCEPT ![m] = mail]
             g == ModifyMoney(money[p], -old.row.COD)
             drafts == Payment(p, old.row)
             t == TakeItemStmts(p, m, i, drafts, mail, box, g)
             e == RunAll(Settled, t)
             S == Settled
             N == NewMails(drafts)
             D == DeletedMails(p, box)
             L == DeletedItems(p, box)
             R == Put(S.mail, {m}, mail.row)
  <1>1. /\ m_mail[m] # None /\ p \in loaded /\ i \in m_mail[m].items
        /\ money' = [money EXCEPT ![p] = g]
        /\ SendMails(drafts, Kept(p, box))
        /\ discarded' = discarded \cup L
        /\ Commit(t)
        /\ m_items' = [m_items EXCEPT ![i] = p]
        /\ MailUnchanged
    BY DEF HandleMailTakeItem, Readable, MailOf, Payment, TakeItemStmts, Then, DelMailItem
  <1>2. p \in online /\ discarded \subseteq Items
    BY <1>1 DEF Inv, Types
  <1>3. m_mail[m] \in Mail /\ S.mail[m] = m_mail[m].row /\ S.mail[m] # None /\ m_mail[m].items = Contents(S, m)
    BY <1>1, OpenedMails
  <1>4. /\ mail \in Mail /\ mail.items = m_mail[m].items \ {i}
        /\ mail.row.sender = m_mail[m].row.sender /\ mail.row.receiver = m_mail[m].row.receiver
        /\ mail.row.returned = m_mail[m].row.returned /\ mail.row.COD = 0
    <2>1. mail = TakenOut(old, i) /\ old \in Mail
      BY <1>3 DEF TakenOut
    <2> HIDE DEF mail, old
    <2>2. /\ mail \in Mail /\ mail.items = old.items \ {i}
          /\ mail.row.sender = old.row.sender /\ mail.row.receiver = old.row.receiver
          /\ mail.row.returned = old.row.returned /\ mail.row.COD = 0
      BY <2>1, TakenOutType
    <2> QED BY <2>2 DEF old
  <1>5. mail.row.COD > 0 => mail.row.sender # None
    BY <1>4
  <1>6. old.row \in MailRow /\ mail.row \in MailRow
    BY <1>3, <1>4, MailFields
  <1>7. old.row.COD \in Nat
    BY <1>6 DEF MailRow
  <1>8. money[p] \in 0..(MaxMoney - 1) /\ money \in [Players -> 0..(MaxMoney - 1)]
    BY ItemsSaved
  <1>9. g \in 0..(MaxMoney - 1)
    <2>1. -old.row.COD \in Int /\ -old.row.COD <= MaxMoney
      BY <1>7, CustodyAssumption
    <2> QED BY <1>8, <2>1, ModifyMoneyType
  <1>10. g \in Nat /\ g - g = 0
    BY <1>9
  <1>11. money' = Put(money, {p}, g) /\ m_items' = Put(m_items, {i}, p)
    <2>1. m_items \in [Items -> online \cup {None}]
      BY ItemsSaved
    <2> HIDE DEF g
    <2> QED BY <1>1, <1>8, <2>1 DEF Put
  <1>12. box = Put(m_mail, {m}, mail)
    BY BoxIsPut
  <1>13. old.row.COD > 0 => old.row.sender # None
    BY <1>1, OpenedSender
  <1>14. Proper(drafts) /\ Carries(drafts) = {}
    BY <1>6, <1>13, PaymentProper
  <1>15. Yields(S, t, e)
    BY DEF Yields
  <1>16. /\ t = TakeItemStmts(p, m, i, drafts, mail, box, g) /\ R = Put(S.mail, {m}, mail.row)
         /\ N = NewMails(drafts)
    OBVIOUS
  <1> HIDE DEF old, mail, box, g, t, e, R, N, S, drafts
  <1>17. S \in Tables /\ OneRow(S)
    BY SettledGood DEF Inv, Good, S
  <1>18. N \in SentMails /\ Carried(N) = {} /\ \A k \in DOMAIN N : k \in MailIds /\ S.mail[k] = None
    BY <1>1, <1>14, NewIds DEF N, S
  <1>19. Updated(S.mail[m], mail.row) = mail.row
    BY <1>3, <1>4, <1>6, UpdatedIs DEF old
  <1>20. {i} \subseteq m_mail[m].items
    BY <1>1
  <1>21. MailsOf(S, {}, {i}, R, loaded) /\ Opened(S, box, {}, {i}, R, loaded)
    BY <1>1, <1>4, <1>5, <1>12, <1>16, <1>20, MailTaken DEF S
  <1>22. /\ MailsOf(S, D, {i}, R, loaded)
         /\ Opened(S, Kept(p, box), D, {i}, R, loaded)
         /\ Inside(S, D, {i}, L)
    BY <1>17, <1>21, DeletesMails
  <1>23. DeletedItems(p, box) \in SUBSET Items
    BY <1>22 DEF Inside
  <1>24. \A k \in DOMAIN N : k # m /\ k \notin DeletedMails(p, box)
    BY <1>3, <1>18, <1>22 DEF MailsOf
  <1>25. i \in S.item_instance /\ S.mail_items[i] = m /\ m # None
    BY <1>1, <1>3, NullAssumption DEF Contents, MailedIn
  <1>26. /\ t \in Seq(Statement) /\ e \in Tables /\ Pays(S, e, p, g)
         /\ e.character_inventory = Put(S.character_inventory, {i}, p)
         /\ e.auctionhouse = S.auctionhouse
         /\ Delivers(S, e, N, D, {i}, L, R)
    <2>1. /\ NewMails(drafts) \in SentMails /\ Carried(NewMails(drafts)) = {}
          /\ NoneOf(NewMails(drafts), m, DeletedMails(p, box))
      BY <1>18, <1>24 DEF N, NoneOf
    <2>2. /\ S \in Tables /\ mail.row \in MailRow /\ S.mail[m] # None
          /\ i \in S.item_instance /\ g \in Nat
          /\ t = TakeItemStmts(p, m, i, drafts, mail, box, g)
      BY <1>3, <1>6, <1>10, <1>16, <1>17, <1>25
    <2>3. /\ t \in Seq(Statement) /\ e \in Tables
          /\ TookItem(S, e, NewMails(drafts), DeletedMails(p, box), DeletedItems(p, box), p, m, i, mail.row, g)
      BY <1>15, <1>19, <1>23, <2>1, <2>2, TakeItemDb
    <2> QED BY <2>3 DEF N, R, TookItem
  <1> HIDE DEF D, L
  <1>27. GoldKept(e, money', p)
    <2>1. Owed(g, g)
      BY <1>10 DEF Owed
    <2>2. Pays(Settled, e, p, g) /\ money' = Put(money, {p}, g)
      BY <1>11, <1>26 DEF S
    <2> QED BY <1>9, <2>1, <2>2, GoldSaved
  <1>28. S.character_inventory[i] = None /\ S.auctionhouse[i] = None
    BY <1>17, <1>25 DEF OneRow
  <1>29. /\ GoodsKept(e, m_items')
         /\ \A j \in Items : e.character_inventory[j] = IF j \in {i} THEN p ELSE S.character_inventory[j]
    <2>1. \A j \in {i} : Settled.character_inventory[j] = None
      BY <1>28 DEF S
    <2>2. {i} \in SUBSET Items /\ m_items' = Put(m_items, {i}, p)
      BY <1>11
    <2>3. e.character_inventory = Put(Settled.character_inventory, {i}, p)
      BY <1>26 DEF S
    <2>4. p \in online
      BY <1>2
    <2> QED BY <2>1, <2>2, <2>3, <2>4, Stored DEF S
  <1>30. Agrees(e, m_items', money', online) /\ Outside(Settled, e, online) /\ Rich(e)
    BY <1>2, <1>27, <1>29, GoodsAndGold
  <1>31. ItemsMove(S, e, N, D, {i}, L, discarded' \cup unsent')
    <2>1. L \subseteq discarded' \cup unsent'
      BY <1>1
    <2>2. p # None
      BY CustodyAssumption
    <2>3. /\ L \subseteq Items /\ \A j \in L : S.mail_items[j] \in D /\ j \notin {i}
          /\ \A j \in Items : S.mail_items[j] \in D /\ j \in S.item_instance \ {i} => j \in discarded' \cup unsent'
      BY <1>22, <2>1 DEF Inside
    <2>4. \A j \in Items : e.auctionhouse[j] = S.auctionhouse[j]
      BY <1>26
    <2>5. e.character_inventory[i] # None /\ e.auctionhouse[i] = None
      BY <1>28, <1>29, <2>2, <2>4
    <2>6. \A j \in Items : e.character_inventory[j] # None => e.auctionhouse[j] = None
      BY <1>17, <1>28, <1>29, <2>4 DEF OneRow
    <2> QED BY <1>18, <1>25, <1>29, <2>3, <2>4, <2>5, <2>6 DEF ItemsMove
  <1>32. /\ Delivers(Settled, e, NewMails(drafts), D, {i}, L, R)
         /\ MailsOf(Settled, D, {i}, R, loaded)
         /\ ItemsMove(Settled, e, NewMails(drafts), D, {i}, L, discarded' \cup unsent')
         /\ Opened(Settled, Kept(p, box), D, {i}, R, loaded)
    BY <1>22, <1>26, <1>31 DEF S, N
  <1>33. e.auctionhouse = Settled.auctionhouse /\ Yields(Settled, t, e)
    BY <1>15, <1>26 DEF S
  <1>34. Commit(t) /\ Proper(drafts) /\ SendMails(drafts, Kept(p, box)) /\ MailUnchanged
    BY <1>1, <1>14
  <1>35. discarded \subseteq discarded' /\ discarded' \subseteq Items
    BY <1>1, <1>2, <1>22 DEF Inside
  <1>36. t \in Seq(Statement)
    BY <1>26
  <1> QED BY <1>30, <1>32, <1>33, <1>34, <1>35, <1>36, MailDealInv

LEMMA AllAsIs ==
    ASSUME Inv, NEW e, e.character_inventory = Settled.character_inventory, e.money = Settled.money
    PROVE  Agrees(e, m_items, money, online) /\ Outside(Settled, e, online) /\ Rich(e)
  <1>1. Rich(e)
    BY SettledGood DEF Inv, Good, Rich
  <1>2. Outside(Settled, e, online)
    BY DEF Outside, SameGoods
  <1> QED BY <1>1, <1>2, ItemsSaved DEF Agrees

DelMail(m) == <<[stmt |-> "DEL_MAIL_BY_ID", ids |-> {m}], [stmt |-> "DEL_MAIL_ITEM_BY_ID", ids |-> {m}]>>

LEMMA DelMailYields ==
    ASSUME NEW d \in Tables, NEW m \in MailIds, NEW e, Yields(d, DelMail(m), e)
    PROVE  DelMail(m) \in Seq(Statement) /\ e \in Tables /\ Swept(d, e, {m}, {})
  <1> DEFINE M == {m}
             s == [stmt |-> "DEL_MAIL_BY_ID", ids |-> M]
             r == [stmt |-> "DEL_MAIL_ITEM_BY_ID", ids |-> M]
             f == Run(d, s)
  <1>1. M \in SUBSET MailIds
    OBVIOUS
  <1>2. s \in Statement /\ r \in Statement
    BY <1>1 DEF Statement
  <1>3. DelMail(m) = <<s, r>>
    BY DEF DelMail
  <1> HIDE DEF M
  <1>4. /\ f \in Tables /\ f.mail = Put(d.mail, M, None)
        /\ f.character_inventory = d.character_inventory
        /\ f.item_instance = d.item_instance /\ f.money = d.money
        /\ f.auctionhouse = d.auctionhouse /\ f.mail_items = d.mail_items
    BY <1>1, RunNoMail
  <1> HIDE DEF s, r
  <1>5. DelMail(m) \in Seq(Statement)
    BY <1>2, <1>3
  <1>6. e = Run(f, r)
    BY <1>2, <1>3, RunTwo DEF Yields
  <1> HIDE DEF f
  <1>7. /\ e \in Tables
        /\ e.mail_items = [i \in Items |-> IF f.mail_items[i] \in M THEN None ELSE f.mail_items[i]]
        /\ e.character_inventory = f.character_inventory
        /\ e.item_instance = f.item_instance /\ e.money = f.money
        /\ e.auctionhouse = f.auctionhouse /\ e.mail = f.mail
    BY <1>1, <1>4, <1>6, RunNoMailItems DEF r
  <1>8. Swept(d, e, M, {})
    BY <1>4, <1>7 DEF Swept
  <1> QED BY <1>5, <1>7, <1>8 DEF M

Returned(p, mail) ==
    IF mail.row.sender # None THEN <<Draft(p, mail.row.sender, mail.items, mail.row.money, 0, TRUE)>> ELSE <<>>

LEMMA ReturnedProper ==
    ASSUME NEW p \in Players, NEW mail \in Mail
    PROVE  /\ Proper(Returned(p, mail))
           /\ Carries(Returned(p, mail)) = IF mail.row.sender # None THEN mail.items ELSE {}
  <1>1. CASE mail.row.sender = None
    BY <1>1, ProperNone DEF Returned
  <1>2. CASE mail.row.sender # None
    <2> DEFINE x == Draft(p, mail.row.sender, mail.items, mail.row.money, 0, TRUE)
    <2>1. mail.row \in MailRow /\ mail.items \in SUBSET Items
      BY MailFields
    <2>2. mail.row.sender \in Players /\ mail.row.money \in Nat
      BY <1>2, <2>1 DEF MailRow
    <2>3. x \in DraftMail /\ x.items = mail.items /\ x.row.COD = 0
      BY <2>1, <2>2 DEF Draft, DraftMail, MailRow
    <2>4. Returned(p, mail) = <<x>>
      BY <1>2 DEF Returned
    <2> HIDE DEF x
    <2>5. x.row.COD > 0 => x.row.sender # None
      BY <2>3
    <2> QED BY <1>2, <2>3, <2>4, <2>5, ProperOne
  <1> QED BY <1>1, <1>2

LEMMA ReturnInv ==
    ASSUME Inv, NEW p \in Players, NEW m \in MailIds, HandleMailReturnToSender(p, m)
    PROVE  Inv'
  <1> DEFINE mail == m_mail[m]
             drafts == Returned(p, mail)
             box == [m_mail EXCEPT ![m] = None]
             t == Then(DelMail(m), SendMailToStmts(drafts))
             e == RunAll(Settled, t)
             S == Settled
             N == NewMails(drafts)
             D == {m}
             R == S.mail
  <1>1. /\ m_mail[m] # None /\ p \in loaded
        /\ SendMails(drafts, box)
        /\ discarded' = IF mail.row.sender # None THEN discarded ELSE discarded \cup mail.items
        /\ Commit(t)
        /\ m_items' = m_items /\ money' = money
        /\ MailUnchanged
    BY DEF HandleMailReturnToSender, Readable, MailOf, Returned, Then, DelMail
  <1>2. discarded \subseteq Items
    BY DEF Inv, Types
  <1>3. /\ mail \in Mail /\ S.mail[m] = mail.row /\ S.mail[m] # None /\ mail.items = Contents(S, m)
        /\ mail.row.receiver \in loaded
    BY <1>1, OpenedMails
  <1>4. Proper(drafts) /\ Carries(drafts) = IF mail.row.sender # None THEN mail.items ELSE {}
    BY <1>3, ReturnedProper
  <1>5. S \in Tables /\ OneRow(S)
    BY SettledGood DEF Inv, Good
  <1>6. S.mail \in [MailIds -> MailRow \cup {None}]
    BY <1>5, TablesFields
  <1>7. Opened(S, box, D, {}, R, loaded)
    <2>1. Opened(S, m_mail, {}, {}, R, loaded) /\ m_mail \in [MailIds -> Mail \cup {None}]
      BY NothingTaken, OpenedMails
    <2>2. box \in [MailIds -> Mail \cup {None}] /\ \A k \in MailIds : box[k] = IF k = m THEN None ELSE m_mail[k]
      BY <2>1
    <2> HIDE DEF box, S, R
    <2> QED BY <2>1, <2>2 DEF Opened
  <1>8. MailsOf(S, D, {}, R, loaded)
    BY <1>3, <1>6 DEF MailsOf
  <1>9. Yields(S, t, e) /\ t = Then(DelMail(m), SendMailToStmts(drafts))
    BY DEF Yields
  <1> HIDE DEF mail, drafts, box, t, e, S, N, R
  <1>10. N \in SentMails /\ Carried(N) = Carries(drafts) /\ \A k \in DOMAIN N : k \in MailIds /\ S.mail[k] = None
    BY <1>1, <1>4, NewIds DEF N, S
  <1>11. NewMails(drafts) \in SentMails
    BY <1>10 DEF N
  <1>12. DelMail(m) \in Seq(Statement) /\ SendMailToStmts(drafts) \in Seq(Statement)
    <2>1. Yields(S, DelMail(m), RunAll(S, DelMail(m)))
      BY DEF Yields
    <2> QED BY <1>5, <1>11, <2>1, DelMailYields, MailStmts
  <1>13. t \in Seq(Statement) /\ \E f : Yields(S, DelMail(m), f) /\ Yields(f, SendMailToStmts(drafts), e)
    BY <1>9, <1>12, YieldsThen
  <1>14. PICK f : Yields(S, DelMail(m), f) /\ Yields(f, SendMailToStmts(drafts), e)
    BY <1>13
  <1>15. f \in Tables /\ Swept(S, f, {m}, {})
    BY <1>5, <1>14, DelMailYields
  <1>16. e \in Tables /\ OnlyMails(f, e, NewMails(drafts))
    BY <1>11, <1>14, <1>15, MailYields
  <1>17. OnlyMails(f, e, N) /\ Swept(S, f, D, {})
    BY <1>15, <1>16 DEF N
  <1> HIDE DEF D
  <1>18. Delivers(S, e, N, D, {}, {}, R)
    <2>1. e.mail = [k \in MailIds |-> IF k \in DOMAIN N THEN N[k].row ELSE IF k \in D THEN None ELSE R[k]]
      BY <1>6, <1>17 DEF OnlyMails, Posted, Swept, Put, R
    <2>2. e.mail_items = [j \in Items |-> IF j \in Carried(N) THEN Carrier(N, j)
                                          ELSE IF j \in {} \/ S.mail_items[j] \in D THEN None ELSE S.mail_items[j]]
      BY <1>17 DEF OnlyMails, Posted, Swept
    <2>3. e.item_instance = S.item_instance \ {}
      BY <1>17 DEF OnlyMails, Posted, Swept
    <2> QED BY <1>5, <1>16, <2>1, <2>2, <2>3 DEF Delivers
  <1>19. /\ e.character_inventory = S.character_inventory /\ e.auctionhouse = S.auctionhouse
         /\ e.money = S.money
    BY <1>17 DEF OnlyMails, Swept
  <1>20. Agrees(e, m_items, money, online) /\ Outside(Settled, e, online) /\ Rich(e)
    BY <1>19, AllAsIs DEF S
  <1>21. ItemsMove(S, e, N, D, {}, {}, discarded' \cup unsent')
    <2>1. \A j \in mail.items : j \in Items /\ S.mail_items[j] = m /\ j \in S.item_instance
      BY <1>3 DEF Contents, MailedIn
    <2>2. \A j \in Items : S.mail_items[j] = m /\ j \in S.item_instance => j \in mail.items
      BY <1>3 DEF Contents, MailedIn
    <2>3. (Carried(N) = {} /\ mail.items \subseteq discarded') \/ Carried(N) = mail.items
      BY <1>1, <1>4, <1>10
    <2>4. \A j \in Items : /\ e.character_inventory[j] = S.character_inventory[j]
                           /\ e.auctionhouse[j] = S.auctionhouse[j]
      BY <1>19
    <2>5. m \in D /\ (\A k \in D : k = m) /\ m # None
      BY NullAssumption DEF D
    <2>6. \A j \in Carried(N) : j \in Items /\ S.mail_items[j] = m /\ j \in S.item_instance
      BY <2>1, <2>3
    <2>7. \A j \in Carried(N) : S.character_inventory[j] = None /\ S.auctionhouse[j] = None
      BY <1>5, <2>5, <2>6 DEF OneRow
    <2>8. \A j \in Items : S.mail_items[j] \in D /\ j \in S.item_instance \ (Carried(N) \cup {}) => j \in discarded' \cup unsent'
      BY <2>2, <2>3, <2>5
    <2>9. \A j \in Items : S.character_inventory[j] # None => S.auctionhouse[j] = None
      BY <1>5 DEF OneRow
    <2> QED BY <2>4, <2>5, <2>6, <2>7, <2>8, <2>9 DEF ItemsMove
  <1>22. /\ Delivers(Settled, e, NewMails(drafts), D, {}, {}, R)
         /\ MailsOf(Settled, D, {}, R, loaded)
         /\ ItemsMove(Settled, e, NewMails(drafts), D, {}, {}, discarded' \cup unsent')
         /\ Opened(Settled, box, D, {}, R, loaded)
    BY <1>7, <1>8, <1>18, <1>21 DEF S, N
  <1>23. e.auctionhouse = Settled.auctionhouse /\ Yields(Settled, t, e)
    BY <1>9, <1>19 DEF S
  <1>24. Commit(t) /\ Proper(drafts) /\ SendMails(drafts, box) /\ MailUnchanged /\ t \in Seq(Statement)
    BY <1>1, <1>4, <1>13
  <1>25. discarded \subseteq discarded' /\ discarded' \subseteq Items
    <2>1. mail.items \subseteq Items
      BY <1>3, MailFields
    <2> QED BY <1>1, <1>2, <2>1
  <1>26. Agrees(e, m_items', money', online)
    BY <1>1, <1>20
  <1> QED BY <1>20, <1>22, <1>23, <1>24, <1>25, <1>26, MailDealInv

-----------------------------------------------------------------------------
(* The trade that completes.  The operators of MoveItems, by name: *)

OfferIn(r, s) == IF m_trade[r].items[s] \in Having(r) THEN m_trade[r].items[s] ELSE None
Fits(h, r, i) == i = None \/ Cardinality({j \in Items : h[j] = r}) < Slots
Store(h, r, i) == IF i # None /\ Fits(h, r, i) THEN [h EXCEPT ![i] = r] ELSE h
Swap(h, p, q, a, b) ==
    IF Fits(h, q, a) /\ Fits(h, p, b) THEN Store(Store(h, q, a), p, b)
    ELSE Store(Store(h, p, a), q, b)
Removed(p, q) == [i \in Items |-> IF i \in Offered(p) \cup Offered(q) THEN None ELSE m_items[i]]
IsMoving(f, p, q) ==
    f = [s \in 0..TradeSlotCount |->
            IF s = 0 THEN Removed(p, q) ELSE Swap(f[s - 1], p, q, OfferIn(p, s), OfferIn(q, s))]

LEMMA MoveItemsDef ==
    ASSUME NEW p, NEW q
    PROVE  MoveItems(p, q) = (CHOOSE f : IsMoving(f, p, q))[TradeSlotCount]
  BY DEF MoveItems, IsMoving, Swap, Store, Fits, OfferIn, Removed

(* There is space as long as an item of Room is missing. *)
LEMMA FitsIn ==
    ASSUME NEW h, NEW r, NEW Room \in SUBSET Items, Cardinality(Room) <= Slots,
           \A j \in Items : h[j] = r => j \in Room, NEW a \in Room, h[a] # r
    PROVE  Fits(h, r, a)
  <1> DEFINE H == {j \in Items : h[j] = r}
  <1>1. IsFiniteSet(Room)
    BY CustodyAssumption, FS_Subset
  <1>2. H \in SUBSET Room /\ H # Room
    OBVIOUS
  <1> HIDE DEF H
  <1>3. IsFiniteSet(H) /\ Cardinality(H) <= Cardinality(Room) /\ Cardinality(H) # Cardinality(Room)
    BY <1>1, <1>2, FS_Subset
  <1>4. Cardinality(H) \in Nat /\ Cardinality(Room) \in Nat /\ Slots \in Nat
    BY <1>1, <1>3, FS_CardinalityType, CustodyAssumption
  <1>5. Cardinality(H) < Slots
    BY <1>3, <1>4
  <1> QED BY <1>5 DEF Fits, H

LEMMA FewerFits ==
    ASSUME NEW h, NEW k, NEW r, NEW a, Fits(h, r, a), \A j \in Items : k[j] = r => h[j] = r
    PROVE  Fits(k, r, a)
  <1> DEFINE H == {j \in Items : h[j] = r}
             K == {j \in Items : k[j] = r}
  <1>1. IsFiniteSet(H) /\ K \in SUBSET H
    BY CustodyAssumption, FS_Subset
  <1> HIDE DEF H, K
  <1>2. IsFiniteSet(K) /\ Cardinality(K) <= Cardinality(H)
    BY <1>1, FS_Subset
  <1>3. Cardinality(K) \in Nat /\ Cardinality(H) \in Nat /\ Slots \in Nat
    BY <1>1, <1>2, FS_CardinalityType, CustodyAssumption
  <1>4. Cardinality(H) < Slots => Cardinality(K) < Slots
    BY <1>2, <1>3
  <1> QED BY <1>4 DEF Fits, H, K

Swapped(h, p, q, a, b) == [i \in Items |-> IF i = a THEN q ELSE IF i = b THEN p ELSE h[i]]

LEMMA SwapIs ==
    ASSUME NEW h, h = [i \in Items |-> h[i]], NEW p \in Players, NEW q \in Players, p # q,
           NEW a \in Items \cup {None}, NEW b \in Items \cup {None}, a # None => a # b,
           Fits(h, q, a), Fits(h, p, b), a # None => h[a] = None
    PROVE  Swap(h, p, q, a, b) = Swapped(h, p, q, a, b)
  <1> DEFINE k == Store(h, q, a)
  <1>1. k = [i \in Items |-> IF i = a THEN q ELSE h[i]]
    <2>1. CASE a = None
      BY <2>1, CustodyAssumption DEF Store
    <2>2. CASE a # None
      <3>1. k = [h EXCEPT ![a] = q] /\ a \in Items
        BY <2>2 DEF Store
      <3> QED BY <3>1
    <2> QED BY <2>1, <2>2
  <1>2. Swap(h, p, q, a, b) = Store(k, p, b)
    BY DEF Swap
  <1> HIDE DEF k
  <1>3. \A j \in Items : k[j] = p => h[j] = p
    BY <1>1
  <1>4. Fits(k, p, b)
    BY <1>3, FewerFits
  <1>5. CASE b = None
    <2>1. Store(k, p, b) = k
      BY <1>5 DEF Store
    <2> QED BY <1>1, <1>2, <1>5, <2>1, CustodyAssumption DEF Swapped
  <1>6. CASE b # None
    <2>1. Store(k, p, b) = [k EXCEPT ![b] = p] /\ b \in Items
      BY <1>4, <1>6 DEF Store
    <2>2. \A i \in Items : i = b => i # a
      BY <1>6
    <2> QED BY <1>1, <1>2, <2>1, <2>2 DEF Swapped
  <1> QED BY <1>5, <1>6

Ready(p, q) ==
    /\ p \in Players /\ q \in Players /\ p # q
    /\ m_trade[p] \in TradeData /\ m_trade[q] \in TradeData
    /\ Apart(m_trade[p]) /\ Apart(m_trade[q])
    /\ CanStoreItems(q, Offered(p), Offered(q)) /\ CanStoreItems(p, Offered(q), Offered(p))

(* What slot s offers, and that no other slot offers it *)
LEMMA OfferIs ==
    ASSUME NEW r \in Players, m_trade[r] \in TradeData, Apart(m_trade[r]), NEW s \in TradeSlots
    PROVE  /\ OfferIn(r, s) # None => OfferIn(r, s) \in Offered(r)
           /\ \A k \in TradeSlots : OfferIn(r, k) = OfferIn(r, s) /\ k # s => OfferIn(r, s) = None
  <1>1. Offered(r) = {m_trade[r].items[k] : k \in TradeSlots} \cap Having(r)
    BY DEF Offered
  <1>2. OfferIn(r, s) # None => OfferIn(r, s) \in Offered(r)
    BY <1>1 DEF OfferIn
  <1>3. \A k \in TradeSlots : OfferIn(r, k) = OfferIn(r, s) /\ k # s => OfferIn(r, s) = None
    BY DEF OfferIn, Apart
  <1> QED BY <1>2, <1>3

LEMMA OfferedIs ==
    ASSUME NEW r \in Players, NEW i \in Items
    PROVE  /\ i \in Offered(r) <=> \E s \in TradeSlots : OfferIn(r, s) = i
           /\ i \in Offered(r) => m_items[i] = r
  <1>1. i # None
    BY CustodyAssumption
  <1> QED BY <1>1 DEF Offered, OfferIn, Having

Room(p, q) == (Having(q) \ Offered(q)) \cup Offered(p)
Before(r, s, i) == \E k \in 1..s : OfferIn(r, k) = i

(* The goods after the first slots *)
Half(p, q, s) ==
    [i \in Items |-> IF Before(p, s, i) THEN q ELSE IF Before(q, s, i) THEN p ELSE Removed(p, q)[i]]


LEMMA HalfIs ==
    ASSUME NEW p, NEW q, Ready(p, q), NEW s \in 0..TradeSlotCount
    PROVE  /\ \A i \in Items : Half(p, q, s)[i] =
                 IF Before(p, s, i) THEN q ELSE IF Before(q, s, i) THEN p
                 ELSE IF i \in Offered(p) \cup Offered(q) THEN None ELSE m_items[i]
           /\ \A i \in Items, r \in {p, q} : Before(r, s, i) => i \in Offered(r) /\ m_items[i] = r
  <1>1. \A i \in Items : Removed(p, q)[i] = IF i \in Offered(p) \cup Offered(q) THEN None ELSE m_items[i]
    BY DEF Removed
  <1>2. 1..s \subseteq TradeSlots
    BY CustodyAssumption DEF TradeSlots
  <1>3. \A i \in Items, r \in {p, q} : Before(r, s, i) => i \in Offered(r) /\ m_items[i] = r
    <2> SUFFICES ASSUME NEW i \in Items, NEW r \in {p, q}, Before(r, s, i)
                 PROVE  i \in Offered(r) /\ m_items[i] = r
      OBVIOUS
    <2>1. \E k \in TradeSlots : OfferIn(r, k) = i
      BY <1>2 DEF Before
    <2>2. r \in Players
      BY DEF Ready
    <2> QED BY <2>1, <2>2, OfferedIs
  <1> QED BY <1>1, <1>3 DEF Half

(* One slot more: both items fit, and nothing else moves. *)
LEMMA HalfStep ==
    ASSUME NEW p, NEW q, Ready(p, q), NEW s \in TradeSlots
    PROVE  Swap(Half(p, q, s - 1), p, q, OfferIn(p, s), OfferIn(q, s)) = Half(p, q, s)
  <1> DEFINE h == Half(p, q, s - 1)
             a == OfferIn(p, s)
             b == OfferIn(q, s)
  <1>1. /\ p \in Players /\ q \in Players /\ p # q
        /\ m_trade[p] \in TradeData /\ m_trade[q] \in TradeData /\ Apart(m_trade[p]) /\ Apart(m_trade[q])
    BY DEF Ready
  <1>2. s \in 0..TradeSlotCount /\ s - 1 \in 0..TradeSlotCount /\ s \in 1..s /\ 1..s = (1..(s - 1)) \cup {s}
        /\ s \notin 1..(s - 1) /\ 1..(s - 1) \subseteq TradeSlots
    BY CustodyAssumption DEF TradeSlots
  <1>3. /\ \A i \in Items : h[i] =
                 IF Before(p, s - 1, i) THEN q ELSE IF Before(q, s - 1, i) THEN p
                 ELSE IF i \in Offered(p) \cup Offered(q) THEN None ELSE m_items[i]
        /\ \A i \in Items, r \in {p, q} : Before(r, s - 1, i) => i \in Offered(r) /\ m_items[i] = r
    BY <1>2, HalfIs
  <1>4. h = [i \in Items |-> h[i]]
    BY DEF Half
  <1>5. \A r \in {p, q} : /\ OfferIn(r, s) # None => OfferIn(r, s) \in Offered(r)
                          /\ \A k \in TradeSlots : OfferIn(r, k) = OfferIn(r, s) /\ k # s => OfferIn(r, s) = None
    BY <1>1, OfferIs
  <1>6. Offered(p) \subseteq Items /\ Offered(q) \subseteq Items
        /\ (\A i \in Offered(p) : m_items[i] = p) /\ (\A i \in Offered(q) : m_items[i] = q)
    BY DEF Offered, Having
  <1>7. p # None /\ q # None
    BY <1>1, CustodyAssumption
  <1>8. /\ a # None => a \in Offered(p) /\ ~Before(p, s - 1, a)
        /\ b # None => b \in Offered(q) /\ ~Before(q, s - 1, b)
    BY <1>2, <1>5 DEF Before
  <1> HIDE DEF h, a, b
  <1>9. a \in Items \cup {None} /\ b \in Items \cup {None}
    BY <1>6, <1>8
  <1>10. a # None => a # b
    BY <1>1, <1>6, <1>8
  <1>11. a # None => h[a] = None
    BY <1>1, <1>3, <1>6, <1>8
  <1>12. b # None => h[b] = None
    BY <1>1, <1>3, <1>6, <1>8
  <1>13. /\ Room(p, q) \in SUBSET Items /\ Cardinality(Room(p, q)) <= Slots
         /\ Room(q, p) \in SUBSET Items /\ Cardinality(Room(q, p)) <= Slots
    BY <1>6 DEF Room, Having, Ready, CanStoreItems
  <1>14. \A j \in Items : h[j] = q => j \in Room(p, q)
    BY <1>1, <1>3, <1>7 DEF Room, Having
  <1>15. \A j \in Items : h[j] = p => j \in Room(q, p)
    BY <1>1, <1>3, <1>7 DEF Room, Having
  <1>16. Fits(h, q, a)
    <2>1. CASE a = None
      BY <2>1 DEF Fits
    <2>2. CASE a # None
      <3>1. a \in Room(p, q) /\ h[a] # q
        BY <1>7, <1>8, <1>11, <2>2 DEF Room
      <3> QED BY <1>13, <1>14, <3>1, FitsIn
    <2> QED BY <2>1, <2>2
  <1>17. Fits(h, p, b)
    <2>1. CASE b = None
      BY <2>1 DEF Fits
    <2>2. CASE b # None
      <3>1. b \in Room(q, p) /\ h[b] # p
        BY <1>7, <1>8, <1>12, <2>2 DEF Room
      <3> QED BY <1>13, <1>15, <3>1, FitsIn
    <2> QED BY <2>1, <2>2
  <1>18. Swap(h, p, q, a, b) = Swapped(h, p, q, a, b)
    BY <1>1, <1>4, <1>9, <1>10, <1>11, <1>16, <1>17, SwapIs
  <1>19. \A i \in Items : /\ Before(p, s, i) <=> Before(p, s - 1, i) \/ i = a
                          /\ Before(q, s, i) <=> Before(q, s - 1, i) \/ i = b
    BY <1>2 DEF Before, a, b
  <1>20. /\ \A i \in Items : Half(p, q, s)[i] =
                 IF Before(p, s, i) THEN q ELSE IF Before(q, s, i) THEN p
                 ELSE IF i \in Offered(p) \cup Offered(q) THEN None ELSE m_items[i]
    BY <1>2, HalfIs
  <1>21. \A i \in Items : Swapped(h, p, q, a, b)[i] = IF i = a THEN q ELSE IF i = b THEN p ELSE h[i]
    BY DEF Swapped
  <1>22. ASSUME NEW i \in Items PROVE Swapped(h, p, q, a, b)[i] = Half(p, q, s)[i]
    <2>1. i # None
      BY CustodyAssumption
    <2>2. CASE i = a
      BY <1>19, <1>20, <1>21, <2>2
    <2>3. CASE i # a /\ i = b
      <3>1. m_items[i] = q
        BY <1>6, <1>8, <2>1, <2>3
      <3>2. ~Before(p, s - 1, i)
        BY <1>1, <1>3, <3>1
      <3> QED BY <1>19, <1>20, <1>21, <2>3, <3>2
    <2>4. CASE i # a /\ i # b
      BY <1>3, <1>19, <1>20, <1>21, <2>4
    <2> QED BY <2>2, <2>3, <2>4
  <1>23. Swapped(h, p, q, a, b) = Half(p, q, s)
    BY <1>22 DEF Swapped, Half
  <1> QED BY <1>18, <1>23 DEF h, a, b

Exchanged(x, p, q) ==
    [i \in Items |-> IF i \in Offered(p) THEN q ELSE IF i \in Offered(q) THEN p ELSE x[i]]

(* Each side gets all that the other offered. *)
LEMMA MoveItemsIs ==
    ASSUME NEW p, NEW q, Ready(p, q)
    PROVE  MoveItems(p, q) = Exchanged(m_items, p, q)
  <1> DEFINE n == TradeSlotCount
             P(f) == IsMoving(f, p, q)
             c == CHOOSE f : P(f)
             H == [s \in 0..n |-> Half(p, q, s)]
  <1>1. n \in Nat /\ TradeSlots = 1..n
    BY CustodyAssumption DEF TradeSlots
  <1>2. Half(p, q, 0) = Removed(p, q)
    <2>1. \A r, i : ~Before(r, 0, i)
      BY DEF Before
    <2> QED BY <2>1 DEF Half, Removed
  <1>3. ASSUME NEW s \in 0..n
        PROVE  H[s] = IF s = 0 THEN Removed(p, q) ELSE Swap(H[s - 1], p, q, OfferIn(p, s), OfferIn(q, s))
    <2>1. CASE s = 0
      BY <1>2, <2>1
    <2>2. CASE s # 0
      <3>1. s \in TradeSlots /\ s - 1 \in 0..n
        BY <1>1, <2>2
      <3>2. H[s - 1] = Half(p, q, s - 1) /\ H[s] = Half(p, q, s)
        BY <3>1
      <3> QED BY <2>2, <3>1, <3>2, HalfStep
    <2> QED BY <2>1, <2>2
  <1>4. P(H)
    BY <1>3 DEF IsMoving
  <1>5. P(c)
    BY <1>4
  <1>6. MoveItems(p, q) = c[n]
    BY MoveItemsDef
  <1> HIDE DEF c
  <1>7. /\ c[0] = Removed(p, q)
        /\ \A s \in 1..n : c[s] = Swap(c[s - 1], p, q, OfferIn(p, s), OfferIn(q, s))
    BY <1>1, <1>5 DEF IsMoving
  <1> DEFINE T == {s \in Nat : s \in 0..n => c[s] = Half(p, q, s)}
  <1>8. 0 \in T
    BY <1>2, <1>7
  <1>9. ASSUME NEW s \in Nat, s \in T PROVE s + 1 \in T
    <2> SUFFICES ASSUME s + 1 \in 0..n PROVE c[s + 1] = Half(p, q, s + 1)
      OBVIOUS
    <2>1. s \in 0..n /\ s + 1 \in 1..n /\ (s + 1) - 1 = s
      BY <1>1
    <2>2. c[s] = Half(p, q, s)
      BY <1>9, <2>1
    <2>3. c[s + 1] = Swap(Half(p, q, s), p, q, OfferIn(p, s + 1), OfferIn(q, s + 1))
      BY <1>7, <2>1, <2>2
    <2>4. Swap(Half(p, q, (s + 1) - 1), p, q, OfferIn(p, s + 1), OfferIn(q, s + 1)) = Half(p, q, s + 1)
      BY <1>1, <2>1, HalfStep
    <2> QED BY <2>1, <2>3, <2>4
  <1>10. n \in T
    <2> HIDE DEF T
    <2> QED BY <1>1, <1>8, <1>9, SetInduction
  <1>11. MoveItems(p, q) = Half(p, q, n)
    BY <1>1, <1>6, <1>10
  <1>12. ASSUME NEW i \in Items PROVE Half(p, q, n)[i] = Exchanged(m_items, p, q)[i]
    <2>1. p \in Players /\ q \in Players
      BY DEF Ready
    <2>2. (Before(p, n, i) <=> i \in Offered(p)) /\ (Before(q, n, i) <=> i \in Offered(q))
      BY <1>1, <2>1, OfferedIs DEF Before
    <2>3. Half(p, q, n)[i] =
                 IF Before(p, n, i) THEN q ELSE IF Before(q, n, i) THEN p
                 ELSE IF i \in Offered(p) \cup Offered(q) THEN None ELSE m_items[i]
      BY <1>1, HalfIs
    <2> QED BY <2>2, <2>3 DEF Exchanged
  <1> QED BY <1>11, <1>12 DEF Half, Exchanged

LEMMA ReadyToTrade ==
    ASSUME Inv, NEW p \in Players, AcceptCompletes(p)
    PROVE  /\ Ready(p, Trader(p)) /\ p \in online /\ Trader(p) \in online
           /\ m_trade[p] # None /\ m_trade[p].money \in Nat /\ m_trade[Trader(p)].money \in Nat
           /\ Trader(Trader(p)) = p
  <1> DEFINE q == Trader(p)
  <1>1. m_trade[p] # None
    BY DEF AcceptCompletes, AcceptsSecond
  <1>2. Paired(m_trade) /\ \A r \in Players : m_trade[r] # None => r \in online /\ Apart(m_trade[r])
    BY TradesAre DEF Inv
  <1>3. q \in Players /\ m_trade[p] \in TradeData /\ m_trade[q] \in TradeData
    BY <1>1, <1>2, SideType DEF Trader
  <1>4. q # p /\ m_trade[q] # None /\ Trader(q) = p
    BY <1>1, <1>2 DEF Paired, Trader
  <1>5. m_trade[p].money \in Nat /\ m_trade[q].money \in Nat
    BY <1>3 DEF TradeData
  <1>6. CanStoreItems(q, Offered(p), Offered(q)) /\ CanStoreItems(p, Offered(q), Offered(p))
    BY DEF AcceptCompletes
  <1> QED BY <1>1, <1>2, <1>3, <1>4, <1>5, <1>6 DEF Ready

Paid(p, q) == ModifyMoney(ModifyMoney(money[p], -m_trade[p].money), m_trade[q].money)

(* Both sides can pay what they offer and hold what they get. *)
LEMMA PaidIs ==
    ASSUME Inv, NEW p \in Players, AcceptCompletes(p)
    PROVE  /\ Paid(p, Trader(p)) = money[p] - m_trade[p].money + m_trade[Trader(p)].money
           /\ Paid(Trader(p), p) = money[Trader(p)] - m_trade[Trader(p)].money + m_trade[p].money
           /\ Paid(p, Trader(p)) \in 0..(MaxMoney - 1) /\ Paid(Trader(p), p) \in 0..(MaxMoney - 1)
  <1> DEFINE q == Trader(p)
             a == m_trade[p].money
             b == m_trade[q].money
             g == money[p]
             h == money[q]
  <1>1. a \in Nat /\ b \in Nat /\ q \in Players /\ Trader(q) = p /\ p # q
    BY ReadyToTrade DEF Ready
  <1>2. g \in 0..(MaxMoney - 1) /\ h \in 0..(MaxMoney - 1) /\ MaxMoney \in Nat
    BY <1>1, ItemsSaved, CustodyAssumption
  <1>3. p # None /\ q # None
    BY <1>1, CustodyAssumption
  <1>4. Refused(p) = None
    BY DEF AcceptCompletes, AcceptsSecond
  <1>5. ~Poor(p) /\ ~Poor(q) /\ ~TooRich(p) /\ ~TooRich(q)
    BY <1>3, <1>4 DEF Refused
  <1>6. ~(g < a) /\ ~(h < b) /\ ~(g >= MaxMoney - b) /\ ~(h >= MaxMoney - a)
    BY <1>1, <1>5 DEF Poor, TooRich
  <1>7. Paid(p, q) = ModifyMoney(ModifyMoney(g, -a), b) /\ Paid(q, p) = ModifyMoney(ModifyMoney(h, -b), a)
    BY DEF Paid
  <1> HIDE DEF q, a, b, g, h
  <1>8. ModifyMoney(g, -a) = g - a /\ ModifyMoney(h, -b) = h - b
    BY <1>1, <1>2, <1>6 DEF ModifyMoney
  <1>9. ModifyMoney(g - a, b) = g - a + b /\ ModifyMoney(h - b, a) = h - b + a
    <2>1. Uint32 \in Nat /\ 2 * MaxMoney < Uint32
      BY CustodyAssumption
    <2>2. AsUint32(MaxMoney - b) = MaxMoney - b /\ AsUint32(MaxMoney - a) = MaxMoney - a
      BY <1>1, <1>2, <1>6, <2>1 DEF AsUint32
    <2>3. Holds(g - a, b) /\ Holds(h - b, a)
      BY <1>1, <1>2, <1>6, <2>2 DEF Holds
    <2> QED BY <1>1, <1>2, <1>6, <2>3 DEF ModifyMoney
  <1>10. g - a + b \in 0..(MaxMoney - 1) /\ h - b + a \in 0..(MaxMoney - 1)
    BY <1>1, <1>2, <1>6
  <1>11. Paid(p, q) = g - a + b /\ Paid(q, p) = h - b + a
    BY <1>7, <1>8, <1>9
  <1> QED BY <1>10, <1>11 DEF q, a, b, g, h

(* What the step that completes a trade does *)
LEMMA CompletesIs ==
    ASSUME Inv, NEW p \in Players, AcceptCompletes(p), NEW q, q = Trader(p)
    PROVE  /\ m_items' = Exchanged(m_items, p, q)
           /\ money' = [money EXCEPT ![p] = Paid(p, q), ![q] = Paid(q, p)]
           /\ m_trade' = NoTrades(p)
           /\ Commit(Then(SaveInventoryAndGoldToDB(p, Offered(q), Paid(p, q)),
                          SaveInventoryAndGoldToDB(q, Offered(p), Paid(q, p))))
           /\ UNCHANGED <<online, auctions, m_mail, loaded, mailId, db, up, crashes, discarded, unsent, expired>>
  <1> DEFINE moved == MoveItems(p, q)
             all == Offered(p) \cup Offered(q)
  <1>1. Ready(p, q)
    BY ReadyToTrade
  <1>2. moved = Exchanged(m_items, p, q)
    BY <1>1, MoveItemsIs
  <1>3. /\ m_items' = moved
        /\ money' = [money EXCEPT ![p] = Paid(p, q), ![q] = Paid(q, p)]
        /\ m_trade' = NoTrades(p)
        /\ Commit(Then(SaveInventoryAndGoldToDB(p, {i \in all : moved[i] = p}, Paid(p, q)),
                       SaveInventoryAndGoldToDB(q, {i \in all : moved[i] = q}, Paid(q, p))))
        /\ UNCHANGED <<online, auctions, m_mail, loaded, mailId, db, up, crashes, discarded, unsent, expired>>
    BY DEF AcceptCompletes, Paid, Then
  <1>4. p # q /\ q \in Players
    BY <1>1 DEF Ready
  <1>5. /\ Offered(p) \subseteq Items /\ Offered(q) \subseteq Items /\ Offered(p) \cap Offered(q) = {}
    BY <1>4 DEF Offered, Having
  <1>6. \A i \in Items : moved[i] = IF i \in Offered(p) THEN q ELSE IF i \in Offered(q) THEN p ELSE m_items[i]
    BY <1>2 DEF Exchanged
  <1> HIDE DEF moved
  <1>7. {i \in all : moved[i] = p} = Offered(q) /\ {i \in all : moved[i] = q} = Offered(p)
    BY <1>4, <1>5, <1>6
  <1> QED BY <1>2, <1>3, <1>7

Traded(d, e, p, q, P, Q, g, h) ==
    /\ e.money = Put(Put(d.money, {p}, g), {q}, h)
    /\ e.character_inventory = Put(Put(d.character_inventory, Q, p), P, q)
    /\ e.item_instance = (d.item_instance \cup Q) \cup P
    /\ e.auctionhouse = d.auctionhouse
    /\ e.mail = d.mail /\ e.mail_items = d.mail_items

LEMMA TradeDb ==
    ASSUME NEW d \in Tables, NEW p \in Players, NEW q \in Players, NEW P \in SUBSET Items, NEW Q \in SUBSET Items,
           NEW g \in Nat, NEW h \in Nat,
           NEW t, t = Then(SaveInventoryAndGoldToDB(p, Q, g), SaveInventoryAndGoldToDB(q, P, h)),
           NEW e, Yields(d, t, e)
    PROVE  t \in Seq(Statement) /\ e \in Tables /\ Traded(d, e, p, q, P, Q, g, h)
  <1> DEFINE A == SaveInventoryAndGoldToDB(p, Q, g)
             B == SaveInventoryAndGoldToDB(q, P, h)
  <1>1. A \in Seq(Statement) /\ B \in Seq(Statement)
    BY StockStmts
  <1>2. t = Then(A, B)
    OBVIOUS
  <1> HIDE DEF A, B
  <1>3. t \in Seq(Statement) /\ \E f : Yields(d, A, f) /\ Yields(f, B, e)
    BY <1>1, <1>2, YieldsThen
  <1>4. PICK f : Yields(d, A, f) /\ Yields(f, B, e)
    BY <1>3
  <1>5. f \in Tables /\ Stocked(d, f, p, Q, g)
    BY <1>4, StockYields DEF A
  <1>6. e \in Tables /\ Stocked(f, e, q, P, h)
    BY <1>4, <1>5, StockYields DEF B
  <1>7. Traded(d, e, p, q, P, Q, g, h)
    BY <1>5, <1>6 DEF Stocked, Traded
  <1> QED BY <1>3, <1>6, <1>7

LEMMA CompletesInv ==
    ASSUME Inv, NEW p \in Players, AcceptCompletes(p)
    PROVE  Inv'
  <1> DEFINE q == Trader(p)
             P == Offered(p)
             Q == Offered(q)
             g == Paid(p, q)
             h == Paid(q, p)
             t == Then(SaveInventoryAndGoldToDB(p, Q, g), SaveInventoryAndGoldToDB(q, P, h))
             S == Settled
             e == RunAll(S, t)
  <1>1. /\ m_items' = Exchanged(m_items, p, q)
        /\ money' = [money EXCEPT ![p] = g, ![q] = h]
        /\ m_trade' = NoTrades(p) /\ Commit(t)
        /\ UNCHANGED <<online, auctions, m_mail, loaded, mailId, db, up, crashes, discarded, unsent, expired>>
    BY CompletesIs
  <1>2. p \in online /\ q \in online /\ q \in Players /\ p # q /\ m_trade[p] # None
    BY ReadyToTrade DEF Ready
  <1>3. g \in 0..(MaxMoney - 1) /\ h \in 0..(MaxMoney - 1)
    BY PaidIs
  <1>4. /\ m_items \in [Items -> online \cup {None}]
        /\ \A i \in Items, r \in online : m_items[i] = r <=> S.character_inventory[i] = r
        /\ money \in [Players -> 0..(MaxMoney - 1)] /\ online \subseteq Players
        /\ \A r \in online : S.money[r] - money[r] \in {0, Deposit}
    BY ItemsSaved
  <1>5. /\ P \in SUBSET Items /\ Q \in SUBSET Items
        /\ (\A i \in P : m_items[i] = p) /\ (\A i \in Q : m_items[i] = q)
    BY DEF Offered, Having
  <1>6. S \in Tables /\ OneRow(S) /\ Rich(S)
    BY SettledGood DEF Inv, Good
  <1>7. Yields(S, t, e) /\ t = Then(SaveInventoryAndGoldToDB(p, Q, g), SaveInventoryAndGoldToDB(q, P, h))
    BY DEF Yields
  <1>8. \A i \in Items : m_items'[i] = IF i \in P THEN q ELSE IF i \in Q THEN p ELSE m_items[i]
    BY <1>1 DEF Exchanged
  <1>9. m_items' = [i \in Items |-> IF i \in P THEN q ELSE IF i \in Q THEN p ELSE m_items[i]]
    BY <1>1 DEF Exchanged
  <1> HIDE DEF q, P, Q, g, h, t, e, S
  <1>10. \A r \in Players : money'[r] = IF r = q THEN h ELSE IF r = p THEN g ELSE money[r]
    BY <1>1, <1>2, <1>4
  <1>11. money' \in [Players -> 0..(MaxMoney - 1)]
    BY <1>1, <1>3, <1>4
  <1>12. g \in Nat /\ h \in Nat
    BY <1>3
  <1>13. t \in Seq(Statement) /\ e \in Tables /\ Traded(S, e, p, q, P, Q, g, h)
    BY <1>2, <1>5, <1>6, <1>7, <1>12, TradeDb
  <1>14. \A i \in Items : e.character_inventory[i] = IF i \in P THEN q ELSE IF i \in Q THEN p ELSE S.character_inventory[i]
    BY <1>6, <1>13, TablesFields DEF Traded, Put
  <1>15. \A r \in Players : e.money[r] = IF r = q THEN h ELSE IF r = p THEN g ELSE S.money[r]
    BY <1>6, <1>13, TablesFields DEF Traded, Put
  <1>16. /\ \A i \in P : S.character_inventory[i] = p
         /\ \A i \in Q : S.character_inventory[i] = q
    BY <1>2, <1>4, <1>5
  <1>17. p # None /\ q # None /\ None \notin online
    BY <1>2, <1>4, CustodyAssumption
  <1>18. e.item_instance = S.item_instance
    <2>1. \A i \in P \cup Q : i \in S.item_instance
      BY <1>5, <1>6, <1>16, <1>17 DEF OneRow
    <2> QED BY <1>13, <2>1 DEF Traded
  <1>19. e.mail = S.mail /\ e.mail_items = S.mail_items /\ e.auctionhouse = S.auctionhouse
    BY <1>13 DEF Traded
  <1>20. Rich(e)
    <2>1. g < MaxMoney /\ h < MaxMoney
      BY <1>3, CustodyAssumption
    <2> QED BY <1>6, <1>15, <2>1 DEF Rich
  <1>21. Agrees(e, m_items', money', online)
    <2>1. m_items' \in [Items -> online \cup {None}]
      BY <1>2, <1>4, <1>9
    <2>2. \A i \in Items, r \in online : m_items'[i] = r <=> e.character_inventory[i] = r
      BY <1>4, <1>8, <1>14
    <2>3. g - g = 0 /\ h - h = 0
      BY <1>12
    <2>4. \A r \in online : e.money[r] - money'[r] \in {0, Deposit}
      BY <1>4, <1>10, <1>15, <2>3
    <2> QED BY <1>11, <2>1, <2>2, <2>4 DEF Agrees
  <1>22. Outside(S, e, online)
    <2> SUFFICES ASSUME NEW r \in Players \ online PROVE SameGoods(r, S, e)
      BY DEF Outside
    <2>1. r # p /\ r # q /\ r \in Players
      BY <1>2
    <2>2. e.money[r] = S.money[r]
      BY <1>15, <2>1
    <2>3. \A i \in Items : S.character_inventory[i] = r <=> e.character_inventory[i] = r
      BY <1>14, <1>16, <2>1
    <2> QED BY <2>2, <2>3 DEF SameGoods
  <1>23. Moves(S, e, {}, discarded' \cup unsent')
    <2>1. \A i \in Items : e.character_inventory[i] # None <=> S.character_inventory[i] # None
      BY <1>14, <1>16, <1>17
    <2> QED BY <1>6, <1>19, <2>1 DEF Moves, OneRow
  <1>24. /\ auctions \in [Items -> Auction \cup {None}] /\ m_mail \in [MailIds -> Mail \cup {None}]
         /\ mailId \in 0..MaxMails /\ unsent \subseteq Items /\ (up => auctions = S.auctionhouse)
    BY DEF Inv, Types, Saved, S
  <1>25. /\ online' = online /\ loaded' = loaded /\ db' = db /\ up' = up /\ crashes' = crashes /\ expired' = expired
         /\ discarded' = discarded /\ unsent \subseteq unsent' /\ unsent' \subseteq Items
         /\ m_mail' = m_mail /\ mailId' = mailId /\ auctions' = auctions
    BY <1>1, <1>24
  <1>26. Trades'
    <2>1. Trades /\ \A r \in Players : m_trade[r] # None => r \in online /\ Apart(m_trade[r])
      BY TradesAre DEF Inv
    <2>2. Paired(m_trade') /\ \A r \in Players : m_trade'[r] # None => m_trade'[r] = m_trade[r]
      BY <1>1, <1>2, <2>1, EndedTrades
    <2> QED BY <1>25, <2>1, <2>2, TradesAreNext
  <1>27. /\ Proper(<<>>) /\ SendMails(<<>>, m_mail) /\ Carries(<<>>) = {}
         /\ DOMAIN NewMails(<<>>) = {} /\ Carried(NewMails(<<>>)) = {}
    BY <1>24, <1>25, NoDrafts, ProperNone
  <1>28. Posted(Settled, e, NewMails(<<>>))
    <2> DEFINE N == NewMails(<<>>)
    <2>1. DOMAIN N = {} /\ Carried(N) = {}
      BY <1>27
    <2> HIDE DEF N
    <2>2. Posted(S, e, N)
      BY <1>6, <1>18, <1>19, <2>1, NothingPosted
    <2> QED BY <2>2 DEF N, S
  <1>29. Moves(Settled, e, Carries(<<>>), discarded' \cup unsent')
    BY <1>23, <1>27 DEF S
  <1>30. Yields(Settled, t, e) /\ Outside(Settled, e, online) /\ Commit(t)
    BY <1>1, <1>7, <1>22 DEF S
  <1>31. auctions' \in [Items -> Auction \cup {None}] /\ (up => auctions' = e.auctionhouse)
    BY <1>19, <1>24, <1>25
  <1> QED BY <1>13, <1>20, <1>21, <1>25, <1>26, <1>27, <1>28, <1>29, <1>30, <1>31, PostInv

-----------------------------------------------------------------------------
(* Expired mails.  The statements, one transaction each, come after what is  *)
(* queued; each leaves tables that a crash may leave.                        *)

LEMMA SeqOfSet ==
    ASSUME NEW S, IsFiniteSet(S)
    PROVE  /\ Cardinality(S) \in Nat
           /\ SetToSeq(S) \in [1..Cardinality(S) -> S]
           /\ \A x \in S : \E k \in 1..Cardinality(S) : SetToSeq(S)[k] = x
  <1> DEFINE n == Cardinality(S)
             f == SetToSeq(S)
  <1>1. n \in Nat /\ ExistsBijection(1..n, S)
    BY FS_CardinalityType
  <1>2. \E g \in [1..n -> S] : IsInjective(g)
    BY <1>1 DEF ExistsBijection, Bijection, Injection
  <1>3. f \in [1..n -> S] /\ IsInjective(f)
    BY <1>2 DEF SetToSeq
  <1>4. f \in Injection(1..n, S)
    BY <1>3 DEF Injection
  <1>5. Cardinality(1..n) = n
    BY <1>1, FS_Interval
  <1> HIDE DEF f
  <1>6. f \in Surjection(1..n, S)
    BY <1>4, <1>5, FS_Injection
  <1>7. \A x \in S : \E k \in 1..n : f[k] = x
    BY <1>6 DEF Surjection
  <1> QED BY <1>1, <1>3, <1>7 DEF f

(* From d to e only mail m and its items are touched. *)
Aside(d, e, m) ==
    /\ e.character_inventory = d.character_inventory /\ e.money = d.money
    /\ e.auctionhouse = d.auctionhouse
    /\ \A k \in MailIds \ {m} : e.mail[k] = d.mail[k] /\ Contents(e, k) = Contents(d, k)

LEMMA ConcatParts ==
    ASSUME NEW X, NEW t \in Seq(X), NEW u \in Seq(X)
    PROVE  /\ t \o u \in Seq(X)
           /\ Len(t \o u) = Len(t) + Len(u)
           /\ \A k \in 1..Len(t) : (t \o u)[k] = t[k]
           /\ \A k \in 1..Len(u) : (t \o u)[Len(t) + k] = u[k]
  <1>1. t \o u \in Seq(X)
    OBVIOUS
  <1>2. Len(t \o u) = Len(t) + Len(u)
    OBVIOUS
  <1>3. (\A k \in 1..Len(t) : (t \o u)[k] = t[k]) /\ (\A k \in 1..Len(u) : (t \o u)[Len(t) + k] = u[k])
    OBVIOUS
  <1> QED BY <1>1, <1>2, <1>3

LEMMA ConcatIs ==
    ASSUME NEW X, NEW t \in Seq(X), NEW u \in Seq(X), NEW n \in Nat, n = Len(t), Len(u) = 1
    PROVE  /\ t \o u \in Seq(X) /\ Len(t \o u) = n + 1 /\ (t \o u)[n + 1] = u[1]
           /\ \A k \in 1..n : (t \o u)[k] = t[k]
  <1> DEFINE w == t \o u
  <1>1. /\ w \in Seq(X) /\ Len(w) = Len(t) + Len(u)
        /\ \A k \in 1..Len(t) : w[k] = t[k]
        /\ \A k \in 1..Len(u) : w[Len(t) + k] = u[k]
    BY ConcatParts
  <1> HIDE DEF w
  <1>2. w \in Seq(X) /\ Len(w) = n + 1 /\ w[n + 1] = u[1] /\ \A k \in 1..n : w[k] = t[k]
    BY <1>1
  <1> QED BY <1>2 DEF w

(* The queue u is q and then r. *)
Joined(u, q, r) ==
    /\ u \in Seq(Entry) /\ q \in Seq(Entry) /\ r \in Seq(Entry)
    /\ Len(u) = Len(q) + Len(r)
    /\ \A k \in 1..Len(q) : u[k] = q[k]
    /\ \A k \in 1..Len(r) : u[Len(q) + k] = r[k]

LEMMA AfterJoined ==
    ASSUME NEW d, NEW u, NEW q, NEW r, Joined(u, q, r)
    PROVE  /\ \A k \in 0..Len(q) : After(d, u)[k] = After(d, q)[k]
           /\ \A k \in 0..Len(r) : After(d, u)[Len(q) + k] = After(After(d, q)[Len(q)], r)[k]
  <1> DEFINE n == Len(q)
             l == Len(r)
             e == After(d, q)[n]
             g == After(d, q)
             h == After(d, u)
             f == After(e, r)
  <1>1. /\ n \in Nat /\ l \in Nat /\ Len(u) = n + l /\ Len(u) \in Nat
        /\ (\A k \in 1..n : u[k] = q[k]) /\ (\A k \in 1..l : u[n + k] = r[k])
    BY DEF Joined
  <1>2. g[0] = d /\ \A k \in 1..n : g[k] = RunAll(g[k - 1], q[k].stmts)
    BY <1>1, AfterDef
  <1>3. h[0] = d /\ \A k \in 1..(n + l) : h[k] = RunAll(h[k - 1], u[k].stmts)
    BY <1>1, AfterDef
  <1>4. f[0] = e /\ \A k \in 1..l : f[k] = RunAll(f[k - 1], r[k].stmts)
    <2> HIDE DEF e
    <2> QED BY <1>1, AfterDef
  <1>5. e = g[n]
    OBVIOUS
  <1> HIDE DEF n, l, e, g, h, f
  <1> DEFINE T == {k \in Nat : k <= n => h[k] = g[k]}
  <1>6. 0 \in T
    BY <1>2, <1>3
  <1>7. ASSUME NEW k \in Nat, k \in T PROVE k + 1 \in T
    <2> SUFFICES ASSUME k + 1 <= n PROVE h[k + 1] = g[k + 1]
      OBVIOUS
    <2>1. k + 1 \in 1..n /\ k + 1 \in 1..(n + l) /\ (k + 1) - 1 = k /\ h[k] = g[k]
      BY <1>1, <1>7
    <2>2. h[k + 1] = RunAll(h[k], u[k + 1].stmts) /\ g[k + 1] = RunAll(g[k], q[k + 1].stmts)
      BY <1>2, <1>3, <2>1
    <2> QED BY <1>1, <2>1, <2>2
  <1> HIDE DEF T
  <1>8. \A k \in Nat : k \in T
    BY <1>6, <1>7, SetInduction
  <1>9. \A k \in 0..n : h[k] = g[k]
    BY <1>1, <1>8 DEF T
  <1> DEFINE U == {k \in Nat : k <= l => h[n + k] = f[k]}
  <1>10. 0 \in U
    <2>1. n + 0 = n /\ n \in 0..n
      BY <1>1
    <2>2. h[n] = g[n]
      BY <1>9, <2>1
    <2> QED BY <1>4, <1>5, <2>1, <2>2
  <1>11. ASSUME NEW k \in Nat, k \in U PROVE k + 1 \in U
    <2> SUFFICES ASSUME k + 1 <= l PROVE h[n + (k + 1)] = f[k + 1]
      OBVIOUS
    <2>0. k <= l => h[n + k] = f[k]
      BY <1>11
    <2>1. /\ k + 1 \in 1..l /\ n + (k + 1) \in 1..(n + l) /\ (k + 1) - 1 = k
          /\ (n + (k + 1)) - 1 = n + k /\ h[n + k] = f[k]
      <3> HIDE DEF U
      <3> QED BY <1>1, <2>0, SMTT(30)
    <2>2. h[n + (k + 1)] = RunAll(h[n + k], u[n + (k + 1)].stmts)
      BY <1>3, <2>1
    <2>3. f[k + 1] = RunAll(f[k], r[k + 1].stmts)
      BY <1>4, <2>1
    <2> QED BY <1>1, <2>1, <2>2, <2>3
  <1> HIDE DEF U
  <1>12. \A k \in Nat : k \in U
    BY <1>10, <1>11, SetInduction
  <1>13. \A k \in 0..l : h[n + k] = f[k]
    BY <1>1, <1>12 DEF U
  <1> QED BY <1>9, <1>13 DEF n, l, e, g, h, f

(* What the queue leaves is not disturbed, but for mail m. *)
LEMMA AsideSame ==
    ASSUME NEW m, NEW H, NEW p, NEW d, NEW s, NEW e, SameMailsBut(H, p, d, s), Aside(s, e, m)
    PROVE  SameMailsBut(H \cup {m}, p, d, e)
  BY DEF SameMailsBut, Aside

LEMMA AsideBoth ==
    ASSUME NEW m, NEW H, NEW p, NEW d, NEW s, NEW e, Aside(s, d, m), Aside(s, e, m)
    PROVE  SameMailsBut(H \cup {m}, p, d, e) /\ SameGoods(p, d, e)
  BY DEF SameMailsBut, SameGoods, Aside

LEMMA AsideGoods ==
    ASSUME NEW m, NEW p, NEW d, NEW s, NEW e, SameGoods(p, d, s), Aside(s, e, m)
    PROVE  SameGoods(p, d, e)
  BY DEF SameGoods, Aside

(* What the timer leaves alone *)
OldMailUnchanged ==
    /\ m_items' = m_items /\ money' = money /\ m_mail' = m_mail /\ mailId' = mailId
    /\ online' = online /\ loaded' = loaded /\ m_trade' = m_trade /\ auctions' = auctions
    /\ db' = db /\ up' = up /\ crashes' = crashes /\ unsent' = unsent

LEMMA AsideInv ==
    ASSUME Inv, NEW m \in MailIds, NEW S, S = Settled, S.mail[m] # None, S.mail[m].receiver \notin loaded,
           NEW r, Joined(queue', queue, r), Len(queue') <= MaxQueue, \A k \in 1..Len(r) : r[k].login = None,
           \A k \in 0..Len(r) :
              /\ Good(After(S, r)[k], scenario.items, discarded' \cup unsent, mailId)
              /\ Aside(S, After(S, r)[k], m),
           scenario' = scenario, commits' \in 0..scenario'.commits,
           discarded \subseteq discarded', discarded' \subseteq Items, expired' = expired \cup {m}, OldMailUnchanged
    PROVE  Inv'
  <1> DEFINE n == Len(queue)
             l == Len(r)
             g == After(db, queue)
             h == After(db, queue')
             f == After(S, r)
             e == f[l]
  <1>1. /\ online' = online /\ loaded' = loaded /\ m_trade' = m_trade /\ auctions' = auctions
        /\ db' = db /\ up' = up /\ crashes' = crashes /\ unsent' = unsent
        /\ m_items' = m_items /\ money' = money /\ m_mail' = m_mail /\ mailId' = mailId
    BY DEF OldMailUnchanged
  <1>2. Types /\ Trades /\ Stages /\ Frozen /\ Logins /\ Memory /\ Saved
    BY DEF Inv
  <1>3. /\ n \in Nat /\ l \in Nat /\ Len(queue') = n + l /\ queue' \in Seq(Entry)
        /\ (\A k \in 1..n : queue'[k] = queue[k]) /\ (\A k \in 1..l : queue'[n + k] = r[k])
    BY DEF Joined
  <1>4. (\A k \in 0..n : h[k] = g[k]) /\ (\A k \in 0..l : h[n + k] = f[k])
    BY AfterJoined DEF Settled
  <1>5. \A k \in 0..(n + l) : k \in 0..n \/ (k - n \in 0..l /\ n + (k - n) = k)
    BY <1>3
  <1>6. \A k \in 1..(n + l) : k \in 1..n \/ (k - n \in 1..l /\ n + (k - n) = k)
    BY <1>3
  <1>7. \A k \in 0..l : Good(f[k], scenario.items, discarded' \cup unsent, mailId) /\ Aside(S, f[k], m)
    OBVIOUS
  <1>8. l \in 0..l
    BY <1>3
  <1>9. Aside(S, e, m)
    BY <1>7, <1>8
  <1>10. Settled' = e
    <2>1. Settled' = h[n + l]
      BY <1>1, <1>3 DEF Settled
    <2> QED BY <1>4, <1>8, <2>1
  <1> HIDE DEF n, l, g, h, f, e
  <1>11. Types'
    BY <1>1, <1>2, <1>3 DEF Types
  <1>12. Trades'
    BY <1>1, TradesKept
  <1>13. Memory'
    BY <1>1, <1>2 DEF Memory
  <1>14. Stages'
    <2>1. \A k \in 0..n : Good(g[k], scenario.items, discarded \cup unsent, mailId)
      BY <1>2 DEF Stages, g, n
    <2>2. mailId \in Nat /\ discarded \cup unsent \subseteq discarded' \cup unsent
      BY <1>2 DEF Types
    <2>3. \A k \in 0..n : Good(h[k], scenario.items, discarded' \cup unsent, mailId)
      BY <1>4, <2>1, <2>2, GoodLater
    <2>4. \A k \in 0..(n + l) : Good(h[k], scenario.items, discarded' \cup unsent, mailId)
      <3> TAKE k \in 0..(n + l)
      <3>1. CASE k \in 0..n
        BY <2>3, <3>1
      <3>2. CASE k - n \in 0..l /\ n + (k - n) = k
        BY <1>4, <1>7, <3>2
      <3> QED BY <1>5, <3>1, <3>2
    <2> QED BY <1>1, <1>3, <2>4 DEF Stages, h
  <1>15. \A k \in 1..(n + l) : queue'[k].login # None => k \in 1..n /\ queue'[k] = queue[k]
    <2> SUFFICES ASSUME NEW k \in 1..(n + l), k - n \in 1..l, n + (k - n) = k PROVE queue'[k].login = None
      BY <1>3, <1>6
    <2>1. queue'[n + (k - n)] = r[k - n]
      BY <1>3
    <2>2. r[k - n].login = None
      BY DEF l
    <2> QED BY <2>1, <2>2
  <1>16. Logins'
    <2>1. \A j \in 1..n : queue[j].login # None =>
             up /\ queue[j].login \notin online /\ queue[j].stmts = <<>>
      BY <1>2 DEF Logins, n
    <2>2. \A j, k \in 1..n : queue[j].login # None /\ queue[j].login = queue[k].login => j = k
      BY <1>2 DEF Logins, n
    <2>3. \A j \in 1..(n + l) : queue'[j].login # None =>
             up' /\ queue'[j].login \notin online' /\ queue'[j].stmts = <<>>
      BY <1>1, <1>15, <2>1
    <2>4. \A j, k \in 1..(n + l) : queue'[j].login # None /\ queue'[j].login = queue'[k].login => j = k
      BY <1>15, <2>2
    <2> QED BY <1>3, <2>3, <2>4 DEF Logins
  <1>17. Frozen'
    <2> SUFFICES ASSUME NEW k \in 0..(n + l), NEW p \in Players
                 PROVE  /\ p \in online \ loaded => SameMailsBut(expired \cup {m}, p, h[k], e)
                        /\ Waits(p, k)' => SameMailsBut(expired \cup {m}, p, h[k], e) /\ SameGoods(p, h[k], e)
      BY <1>1, <1>3, <1>10 DEF Frozen, h
    <2>1. CASE k \in 0..n
      <3>1. h[k] = g[k]
        BY <1>4, <2>1
      <3>2. /\ p \in online \ loaded => SameMailsBut(expired, p, g[k], S)
            /\ Waits(p, k) => SameMailsBut(expired, p, g[k], S) /\ SameGoods(p, g[k], S)
        BY <1>2, <2>1 DEF Frozen, n, g
      <3>3. Waits(p, k)' => Waits(p, k)
        <4> SUFFICES ASSUME NEW j \in 1..k, queue'[j].login = p PROVE Waits(p, k)
          BY DEF Waits
        <4>1. j \in 1..n
          BY <1>3, <2>1
        <4> QED BY <1>3, <4>1 DEF Waits
      <3> QED BY <1>9, <3>1, <3>2, <3>3, AsideSame, AsideGoods
    <2>2. CASE k - n \in 0..l /\ n + (k - n) = k
      <3>1. h[k] = f[k - n]
        BY <1>4, <2>2
      <3>2. Aside(S, h[k], m)
        BY <1>7, <2>2, <3>1
      <3> QED BY <1>9, <3>2, AsideBoth
    <2> QED BY <1>5, <2>1, <2>2
  <1>18. Saved'
    <2>1. \A k \in MailIds : m_mail[k] # None =>
             m_mail[k].row = S.mail[k] /\ m_mail[k].items = Contents(S, k) /\ k # m
      BY OpenedMails
    <2>2. \A k \in MailIds : m_mail'[k] # None =>
             /\ m_mail'[k].row = e.mail[k] /\ m_mail'[k].items = MailedIn(e.mail_items, k) \cap e.item_instance
      BY <1>1, <1>9, <2>1 DEF Aside, Contents
    <2>3. /\ up' => auctions' = e.auctionhouse
          /\ \A i \in Items, p \in online' : m_items'[i] = p <=> e.character_inventory[i] = p
          /\ \A p \in online' : e.money[p] - money'[p] \in {0, Deposit}
      BY <1>1, <1>2, <1>9 DEF Aside, Saved
    <2> QED BY <1>10, <2>2, <2>3 DEF Saved
  <1> QED BY <1>11, <1>12, <1>13, <1>14, <1>16, <1>17, <1>18 DEF Inv

(* Tables e without some items X of mail m, and perhaps without the mail *)
Shrunk(d, e, X) ==
    /\ e \in Tables
    /\ e.item_instance = d.item_instance \ X
    /\ e.character_inventory = d.character_inventory /\ e.money = d.money
    /\ e.auctionhouse = d.auctionhouse /\ e.mail_items = d.mail_items

LEMMA ShrunkGood ==
    ASSUME NEW d, NEW e, NEW I, NEW gone, NEW more, NEW last, Good(d, I, gone, last),
           NEW m \in MailIds, NEW X, X \subseteq Contents(d, m), Shrunk(d, e, X),
           e.mail = d.mail \/ (X = Contents(d, m) /\ e.mail = Put(d.mail, {m}, None)),
           gone \subseteq more, X \subseteq more
    PROVE  Good(e, I, more, last) /\ Aside(d, e, m)
  <1>1. d \in Tables /\ OneRow(d) /\ Found(d, I, gone) /\ Numbered(d, last) /\ Rich(d)
    BY DEF Good
  <1>2. /\ e \in Tables
        /\ e.item_instance = d.item_instance \ X
        /\ e.character_inventory = d.character_inventory /\ e.money = d.money
        /\ e.auctionhouse = d.auctionhouse /\ e.mail_items = d.mail_items
    BY DEF Shrunk
  <1>3. \A i \in X : i \in Items /\ d.mail_items[i] = m /\ i \in d.item_instance
    BY DEF Contents, MailedIn
  <1>4. m # None
    BY NullAssumption
  <1>5. d.mail \in [MailIds -> MailRow \cup {None}]
    BY <1>1, TablesFields
  <1>6. \A k \in MailIds : e.mail[k] = d.mail[k] \/ (k = m /\ e.mail[k] = None /\ X = Contents(d, m))
    BY <1>5 DEF Put
  <1>7. \A i \in X : d.character_inventory[i] = None /\ d.auctionhouse[i] = None
    BY <1>1, <1>3, <1>4 DEF OneRow
  <1>8. d.mail_items \in [Items -> MailIds \cup {None}]
    BY <1>1, TablesFields
  <1>9. OneRow(e)
    <2> SUFFICES ASSUME NEW i \in Items
                 PROVE  /\ e.character_inventory[i] # None => e.auctionhouse[i] = None /\ e.mail_items[i] = None
                        /\ e.auctionhouse[i] # None => e.mail_items[i] = None
                        /\ e.character_inventory[i] # None \/ e.auctionhouse[i] # None => i \in e.item_instance
                        /\ e.mail_items[i] # None /\ e.mail[e.mail_items[i]] = None => i \notin e.item_instance
      BY DEF OneRow
    <2>1. /\ d.character_inventory[i] # None => d.auctionhouse[i] = None /\ d.mail_items[i] = None
          /\ d.auctionhouse[i] # None => d.mail_items[i] = None
          /\ d.character_inventory[i] # None \/ d.auctionhouse[i] # None => i \in d.item_instance
          /\ d.mail_items[i] # None /\ d.mail[d.mail_items[i]] = None => i \notin d.item_instance
      BY <1>1 DEF OneRow
    <2>2. d.character_inventory[i] # None \/ d.auctionhouse[i] # None => i \notin X
      BY <1>7
    <2>3. ASSUME d.mail_items[i] # None, e.mail[d.mail_items[i]] = None, i \in d.item_instance
          PROVE  i \in X
      <3>1. d.mail_items[i] \in MailIds
        BY <1>8, <2>3
      <3>2. d.mail_items[i] = m /\ X = Contents(d, m)
        BY <1>6, <2>1, <2>3, <3>1
      <3> QED BY <2>3, <3>2 DEF Contents, MailedIn
    <2> QED BY <1>2, <2>1, <2>2, <2>3
  <1>10. Found(e, I, more)
    BY <1>1, <1>2 DEF Found
  <1>11. Numbered(e, last)
    BY <1>1, <1>6 DEF Numbered
  <1>12. Rich(e)
    BY <1>1, <1>2 DEF Rich
  <1>13. \A k \in MailIds \ {m} : Contents(e, k) = Contents(d, k)
    BY <1>2, <1>3 DEF Contents, MailedIn
  <1>14. Aside(d, e, m)
    BY <1>2, <1>6, <1>13 DEF Aside
  <1> QED BY <1>2, <1>9, <1>10, <1>11, <1>12, <1>14 DEF Good

(* One statement, one transaction *)
Alone(stmts) == [k \in 1..Len(stmts) |-> [login |-> None, stmts |-> <<stmts[k]>>]]

LEMMA AloneIs ==
    ASSUME NEW stmts \in Seq(Statement)
    PROVE  /\ Alone(stmts) \in Seq(Entry) /\ Len(Alone(stmts)) = Len(stmts)
           /\ <<>> \o Alone(stmts) = Alone(stmts)
           /\ \A k \in 1..Len(stmts) : Alone(stmts)[k].login = None /\ Alone(stmts)[k].stmts = <<stmts[k]>>
  <1> DEFINE n == Len(stmts)
             q == Alone(stmts)
  <1>1. n \in Nat
    OBVIOUS
  <1>2. \A k \in 1..n : <<stmts[k]>> \in Seq(Statement)
    OBVIOUS
  <1>3. \A k \in 1..n : [login |-> None, stmts |-> <<stmts[k]>>] \in Entry
    BY <1>2 DEF Entry
  <1>4. q \in [1..n -> Entry]
    BY <1>3 DEF Alone
  <1>5. \A k \in 1..n : q[k].login = None /\ q[k].stmts = <<stmts[k]>>
    BY DEF Alone
  <1> HIDE DEF q
  <1>6. q \in Seq(Entry) /\ Len(q) = n
    BY <1>1, <1>4
  <1>7. <<>> \o q = q
    BY <1>6
  <1> QED BY <1>5, <1>6, <1>7 DEF q

LEMMA AfterAlone ==
    ASSUME NEW d, NEW stmts \in Seq(Statement)
    PROVE  /\ After(d, Alone(stmts))[0] = d
           /\ \A k \in 1..Len(stmts) : After(d, Alone(stmts))[k] = Run(After(d, Alone(stmts))[k - 1], stmts[k])
  <1> DEFINE q == Alone(stmts)
  <1>1. q \in Seq(Entry) /\ Len(q) = Len(stmts) /\ \A k \in 1..Len(stmts) : q[k].stmts = <<stmts[k]>>
    BY AloneIs
  <1> HIDE DEF q
  <1>2. After(d, q)[0] = d /\ \A k \in 1..Len(q) : After(d, q)[k] = RunAll(After(d, q)[k - 1], q[k].stmts)
    BY <1>1, AfterDef
  <1>3. \A k \in 1..Len(stmts) : After(d, q)[k] = Run(After(d, q)[k - 1], stmts[k])
    BY <1>1, <1>2, RunAllOne, ZenonT(60)
  <1> QED BY <1>2, <1>3 DEF q

LEMMA AfterOne ==
    ASSUME NEW d, NEW s, NEW t \in Seq(Statement), Len(t) = 1, t[1] = s
    PROVE  After(d, Alone(t))[0] = d /\ After(d, Alone(t))[1] = Run(d, s)
  <1> DEFINE g == After(d, Alone(t))
  <1>1. t[1] = s
    OBVIOUS
  <1>2. 1 \in 1..Len(t) /\ 1 - 1 = 0
    OBVIOUS
  <1>3. g[0] = d /\ \A k \in 1..Len(t) : g[k] = Run(g[k - 1], t[k])
    BY AfterAlone, ZenonT(60)
  <1> HIDE DEF g
  <1>4. g[1] = Run(g[1 - 1], t[1])
    BY <1>2, <1>3
  <1>5. g[0] = d /\ g[1] = Run(d, s)
    BY <1>1, <1>2, <1>3, <1>4
  <1> QED BY <1>5 DEF g

ReturnStmt(m, r) == [stmt |-> "UPD_MAIL_RETURNED", id |-> m, row |-> r]
DeleteStmts(m, items) ==
    [k \in 1..Cardinality(items) |-> [stmt |-> "DEL_ITEM_INSTANCE", items |-> {SetToSeq(items)[k]}]]
        \o <<[stmt |-> "DEL_MAIL_BY_ID", ids |-> {m}]>>

(* What the timer does, of either kind *)
OldMail(m, stmts) ==
    /\ Len(queue) + Len(stmts) <= MaxQueue /\ commits < scenario.commits
    /\ commits' = commits + 1 /\ scenario' = scenario
    /\ queue' = queue \o Alone(stmts) /\ expired' = expired \cup {m}
    /\ Settled.mail[m] # None /\ Settled.mail[m].receiver \notin loaded /\ OldMailUnchanged

LEMMA OldMailIs ==
    ASSUME NEW m \in MailIds, ReturnOrDeleteOldMails(m), ~astray', NEW S, S = Settled
    PROVE  \/ /\ S.mail[m].sender # None /\ discarded' = discarded
              /\ OldMail(m, <<ReturnStmt(m, S.mail[m])>>)
           \/ /\ discarded' = discarded \cup Contents(S, m)
              /\ OldMail(m, DeleteStmts(m, Contents(S, m)))
  <1> DEFINE row == db.mail[m]
             items == Contents(db, m)
             returns == items # {} /\ row.sender # None /\ ~row.returned
             stmts == IF returns THEN <<ReturnStmt(m, row)>> ELSE DeleteStmts(m, items)
  <1>1. /\ db.mail[m] # None /\ db.mail[m].receiver \notin loaded
        /\ Len(queue) + Len(stmts) <= MaxQueue /\ commits < scenario.commits
        /\ commits' = commits + 1 /\ scenario' = scenario
        /\ queue' = queue \o Alone(stmts) /\ expired' = expired \cup {m}
        /\ discarded' = IF returns THEN discarded ELSE discarded \cup items
        /\ OldMailUnchanged
    BY DEF ReturnOrDeleteOldMails, ReturnStmt, DeleteStmts, Alone, OldMailUnchanged, memory
  <1>2. S.mail[m] = row /\ Contents(S, m) = items
    BY DEF ReturnOrDeleteOldMails, Pending
  <1>3. OldMail(m, stmts)
    BY <1>1, <1>2 DEF OldMail
  <1> HIDE DEF items, row
  <1>4. CASE returns
    BY <1>1, <1>2, <1>3, <1>4
  <1>5. CASE ~returns
    <2>1. stmts = DeleteStmts(m, items) /\ discarded' = discarded \cup items
      BY <1>1, <1>5
    <2> QED BY <1>2, <1>3, <2>1
  <1> QED BY <1>4, <1>5

LEMMA ConcatJoined ==
    ASSUME NEW q \in Seq(Entry), NEW r \in Seq(Entry), NEW u, u = q \o r
    PROVE  Joined(u, q, r)
  <1>1. /\ q \o r \in Seq(Entry) /\ Len(q \o r) = Len(q) + Len(r)
        /\ \A k \in 1..Len(q) : (q \o r)[k] = q[k]
        /\ \A k \in 1..Len(r) : (q \o r)[Len(q) + k] = r[k]
    BY ConcatParts
  <1> QED BY <1>1 DEF Joined

LEMMA AloneJoined ==
    ASSUME Inv, NEW m \in MailIds, NEW stmts \in Seq(Statement), OldMail(m, stmts)
    PROVE  Joined(queue', queue, Alone(stmts)) /\ Len(Alone(stmts)) = Len(stmts)
  <1> DEFINE r == Alone(stmts)
  <1>1. r \in Seq(Entry) /\ Len(r) = Len(stmts)
    BY AloneIs
  <1>2. queue \in Seq(Entry) /\ queue' = queue \o r
    BY DEF Inv, Types, OldMail
  <1> HIDE DEF r
  <1>3. Joined(queue', queue, r)
    BY <1>1, <1>2, ConcatJoined
  <1> QED BY <1>1, <1>3 DEF r

LEMMA QueuedAlone ==
    ASSUME Inv, NEW m \in MailIds, NEW stmts \in Seq(Statement), OldMail(m, stmts), NEW S, S = Settled,
           NEW n, n = Len(stmts), discarded \subseteq discarded', discarded' \subseteq Items,
           \A k \in 0..n :
              /\ Good(After(S, Alone(stmts))[k], scenario.items, discarded' \cup unsent, mailId)
              /\ Aside(S, After(S, Alone(stmts))[k], m)
    PROVE  Inv'
  <1>1. /\ S.mail[m] # None /\ S.mail[m].receiver \notin loaded
        /\ Len(queue) + Len(stmts) <= MaxQueue
        /\ scenario' = scenario /\ expired' = expired \cup {m} /\ OldMailUnchanged
    BY DEF OldMail
  <1>2. Len(Alone(stmts)) = n /\ \A k \in 1..n : Alone(stmts)[k].login = None
    BY AloneIs
  <1>3. Joined(queue', queue, Alone(stmts))
    BY AloneJoined
  <1>4. Len(queue') <= MaxQueue
    BY <1>1, <1>2, <1>3 DEF Joined
  <1>5. commits' \in 0..scenario'.commits
    <2>1. commits \in 0..scenario.commits /\ scenario.commits \in Nat
      BY CustodyAssumption DEF Inv, Types
    <2> QED BY <2>1 DEF OldMail
  <1> DEFINE r == Alone(stmts)
  <1>6. /\ Joined(queue', queue, r) /\ \A k \in 1..Len(r) : r[k].login = None
        /\ \A k \in 0..Len(r) : /\ Good(After(S, r)[k], scenario.items, discarded' \cup unsent, mailId)
                               /\ Aside(S, After(S, r)[k], m)
    BY <1>2, <1>3
  <1> HIDE DEF r
  <1> QED BY <1>1, <1>4, <1>5, <1>6, AsideInv

LEMMA OldMailReturned ==
    ASSUME Inv, NEW m \in MailIds, NEW S, S = Settled, OldMail(m, <<ReturnStmt(m, S.mail[m])>>), S.mail[m].sender # None,
           discarded' = discarded
    PROVE  Inv'
  <1> DEFINE r == S.mail[m]
             s == ReturnStmt(m, r)
             t == <<s>>
             g == After(S, Alone(t))
             I == scenario.items
             gone == discarded \cup unsent
  <1>1. Good(S, I, gone, mailId) /\ discarded \subseteq Items
    BY SettledGood DEF Inv, Types
  <1>2. S \in Tables /\ OneRow(S) /\ Found(S, I, gone) /\ Numbered(S, mailId) /\ Rich(S)
    BY <1>1 DEF Good
  <1>3. r # None /\ r \in MailRow /\ S.mail \in [MailIds -> MailRow \cup {None}]
    BY <1>2, TablesFields DEF OldMail
  <1>4. r.sender \in Players
    BY <1>3 DEF MailRow
  <1>5. s \in Statement
    BY <1>3, <1>4 DEF Statement, ReturnStmt
  <1>6. s = [stmt |-> "UPD_MAIL_RETURNED", id |-> m, row |-> r]
    BY DEF ReturnStmt
  <1>7. OldMail(m, t)
    OBVIOUS
  <1> HIDE DEF s
  <1>8. t \in Seq(Statement) /\ Len(t) = 1 /\ t[1] = s
    BY <1>5
  <1> HIDE DEF t
  <1>9. g[0] = S /\ g[1] = Run(S, s)
    BY <1>8, AfterOne
  <1> DEFINE e == Run(S, s)
             b == ReturnedRow(r, r)
  <1>10. /\ e \in Tables
         /\ e.mail = Put(S.mail, {m}, b)
         /\ e.character_inventory = S.character_inventory
         /\ e.item_instance = S.item_instance /\ e.money = S.money
         /\ e.auctionhouse = S.auctionhouse /\ e.mail_items = S.mail_items
    BY <1>2, <1>3, <1>4, <1>6, RunMailReturned
  <1>11. b \in MailRow /\ b.COD = 0 /\ b # None
    BY <1>3, <1>4, ReturnedType, NullAssumption
  <1> HIDE DEF e, b
  <1>12. \A k \in MailIds : e.mail[k] = IF k = m THEN b ELSE S.mail[k]
    BY <1>3, <1>10 DEF Put
  <1>13. S.mail_items \in [Items -> MailIds \cup {None}]
    BY <1>2, TablesFields
  <1>14. OneRow(e)
    <2>1. \A k \in MailIds : e.mail[k] = None => S.mail[k] = None
      BY <1>11, <1>12
    <2>2. \A i \in Items : S.mail_items[i] # None => S.mail_items[i] \in MailIds
      BY <1>13
    <2> QED BY <1>2, <1>10, <2>1, <2>2, ZenonT(60) DEF OneRow
  <1>15. Found(e, I, gone) /\ Rich(e)
    BY <1>2, <1>10 DEF Found, Rich
  <1>16. Numbered(e, mailId)
    <2>1. \A k \in MailIds : S.mail[k] # None => k <= mailId /\ (S.mail[k].COD > 0 => S.mail[k].sender # None)
      BY <1>2 DEF Numbered
    <2>2. m <= mailId
      BY <1>3, <2>1
    <2> QED BY <1>11, <1>12, <2>1, <2>2 DEF Numbered
  <1>17. Good(e, I, gone, mailId)
    BY <1>10, <1>14, <1>15, <1>16 DEF Good
  <1>18. \A k \in MailIds : Contents(e, k) = Contents(S, k)
    BY <1>10 DEF Contents, MailedIn
  <1>19. Aside(S, e, m) /\ Aside(S, S, m)
    BY <1>10, <1>12, <1>18 DEF Aside
  <1>20. \A k \in 0..1 : k = 0 \/ k = 1
    OBVIOUS
  <1>21. g[1] = e
    BY <1>9 DEF e
  <1>22. \A k \in 0..1 : Good(g[k], I, gone, mailId) /\ Aside(S, g[k], m)
    BY <1>1, <1>9, <1>17, <1>19, <1>20, <1>21
  <1>23. \A k \in 0..1 :
              /\ Good(After(S, Alone(t))[k], scenario.items, discarded' \cup unsent, mailId)
              /\ Aside(S, After(S, Alone(t))[k], m)
    BY <1>22
  <1>24. 1 = Len(t) /\ discarded' \subseteq Items /\ discarded \subseteq discarded'
    BY <1>1, <1>8
  <1> QED BY <1>7, <1>8, <1>23, <1>24, QueuedAlone

LEMMA DeleteStmtsIs ==
    ASSUME NEW m \in MailIds, NEW X \in SUBSET Items
    PROVE  /\ DeleteStmts(m, X) \in Seq(Statement) /\ Len(DeleteStmts(m, X)) = Cardinality(X) + 1
           /\ \A k \in 1..Cardinality(X) :
                DeleteStmts(m, X)[k] = [stmt |-> "DEL_ITEM_INSTANCE", items |-> {SetToSeq(X)[k]}]
           /\ DeleteStmts(m, X)[Cardinality(X) + 1] = [stmt |-> "DEL_MAIL_BY_ID", ids |-> {m}]
  <1> DEFINE n == Cardinality(X)
             f == SetToSeq(X)
             u == [k \in 1..n |-> [stmt |-> "DEL_ITEM_INSTANCE", items |-> {f[k]}]]
             s == [stmt |-> "DEL_MAIL_BY_ID", ids |-> {m}]
             v == <<s>>
  <1>1. IsFiniteSet(X)
    BY CustodyAssumption, FS_Subset
  <1>2. n \in Nat /\ f \in [1..n -> X]
    BY <1>1, SeqOfSet
  <1>3. DeleteStmts(m, X) = u \o v
    BY DEF DeleteStmts
  <1>4. s \in Statement
    BY DEF Statement
  <1> HIDE DEF n, f, s
  <1>5. \A k \in 1..n : {f[k]} \in SUBSET Items
    BY <1>2
  <1>6. \A k \in 1..n : [stmt |-> "DEL_ITEM_INSTANCE", items |-> {f[k]}] \in Statement
    BY <1>5 DEF Statement
  <1>7. u \in [1..n -> Statement]
    BY <1>6
  <1>8. \A k \in 1..n : u[k] = [stmt |-> "DEL_ITEM_INSTANCE", items |-> {f[k]}]
    OBVIOUS
  <1> HIDE DEF u
  <1>9. u \in Seq(Statement) /\ Len(u) = n
    BY <1>2, <1>7
  <1>10. v \in Seq(Statement) /\ Len(v) = 1 /\ v[1] = s
    BY <1>4
  <1> HIDE DEF v
  <1>11. /\ u \o v \in Seq(Statement) /\ Len(u \o v) = n + 1 /\ (u \o v)[n + 1] = v[1]
         /\ \A k \in 1..n : (u \o v)[k] = u[k]
    BY <1>2, <1>9, <1>10, ConcatIs
  <1> QED BY <1>3, <1>8, <1>10, <1>11 DEF n, f, s


(* With k of its items deleted, and then the mail *)
DeletedIn(X, k) == {SetToSeq(X)[j] : j \in 1..k}

Deleting(d, g, m, X, n) ==
    /\ n \in Nat
    /\ \A k \in 0..n : Shrunk(d, g[k], DeletedIn(X, k)) /\ g[k].mail = d.mail
    /\ Shrunk(d, g[n + 1], X) /\ g[n + 1].mail = Put(d.mail, {m}, None)
    /\ \A k \in 0..n : DeletedIn(X, k) \subseteq X

LEMMA DeletedSteps ==
    ASSUME NEW d \in Tables, NEW m \in MailIds, NEW X \in SUBSET Items, NEW n, n = Cardinality(X),
           NEW g, g = After(d, Alone(DeleteStmts(m, X)))
    PROVE  Deleting(d, g, m, X, n)
  <1> DEFINE t == DeleteStmts(m, X)
             f == SetToSeq(X)
             T == {k \in Nat : k <= n => Shrunk(d, g[k], DeletedIn(X, k)) /\ g[k].mail = d.mail}
  <1>1. IsFiniteSet(X)
    BY CustodyAssumption, FS_Subset
  <1>2. n \in Nat /\ f \in [1..n -> X] /\ \A x \in X : \E k \in 1..n : f[k] = x
    BY <1>1, SeqOfSet
  <1>3. /\ t \in Seq(Statement) /\ Len(t) = n + 1
        /\ \A k \in 1..n : t[k] = [stmt |-> "DEL_ITEM_INSTANCE", items |-> {f[k]}]
        /\ t[n + 1] = [stmt |-> "DEL_MAIL_BY_ID", ids |-> {m}]
    BY DeleteStmtsIs
  <1> HIDE DEF t
  <1>4. g[0] = d /\ \A k \in 1..Len(t) : g[k] = Run(g[k - 1], t[k])
    BY <1>3, AfterAlone DEF t
  <1>5. \A k \in 1..(n + 1) : g[k] = Run(g[k - 1], t[k])
    BY <1>3, <1>4
  <1>6. 0 \in T
    <2>1. DeletedIn(X, 0) = {}
      BY DEF DeletedIn
    <2> QED BY <1>4, <2>1 DEF Shrunk
  <1>7. ASSUME NEW k \in Nat, k \in T PROVE k + 1 \in T
    <2> SUFFICES ASSUME k + 1 <= n
                 PROVE  Shrunk(d, g[k + 1], DeletedIn(X, k + 1)) /\ g[k + 1].mail = d.mail
      OBVIOUS
    <2>1. k + 1 \in 1..n /\ k + 1 \in 1..(n + 1) /\ (k + 1) - 1 = k /\ k <= n
      BY <1>2
    <2>2. Shrunk(d, g[k], DeletedIn(X, k)) /\ g[k].mail = d.mail
      BY <1>7, <2>1
    <2> DEFINE S == {f[k + 1]}
    <2>3. g[k + 1] = Run(g[k], [stmt |-> "DEL_ITEM_INSTANCE", items |-> S])
      BY <1>3, <1>5, <2>1
    <2>4. S \in SUBSET Items
      BY <1>2, <2>1
    <2>5. DeletedIn(X, k + 1) = DeletedIn(X, k) \cup S
      <3>1. \A j : j \in 1..(k + 1) <=> j \in 1..k \/ j = k + 1
        OBVIOUS
      <3> QED BY <3>1 DEF DeletedIn
    <2> HIDE DEF S, T, f
    <2>6. g[k] \in Tables
      BY <2>2 DEF Shrunk
    <2>7. /\ g[k + 1] \in Tables
          /\ g[k + 1].item_instance = g[k].item_instance \ S
          /\ g[k + 1].character_inventory = g[k].character_inventory
          /\ g[k + 1].money = g[k].money /\ g[k + 1].auctionhouse = g[k].auctionhouse
          /\ g[k + 1].mail = g[k].mail /\ g[k + 1].mail_items = g[k].mail_items
      BY <2>3, <2>4, <2>6, RunInstance
    <2>8. g[k + 1].item_instance = d.item_instance \ DeletedIn(X, k + 1)
      BY <2>2, <2>5, <2>7 DEF Shrunk
    <2> QED BY <2>2, <2>7, <2>8 DEF Shrunk
  <1> HIDE DEF T
  <1>8. \A k \in Nat : k \in T
    BY <1>6, <1>7, SetInduction
  <1>9. \A k \in 0..n : Shrunk(d, g[k], DeletedIn(X, k)) /\ g[k].mail = d.mail
    BY <1>2, <1>8 DEF T
  <1>10. DeletedIn(X, n) = X
    BY <1>2 DEF DeletedIn
  <1>11. \A k \in 0..n : DeletedIn(X, k) \subseteq X
    BY <1>2 DEF DeletedIn
  <1>12. Shrunk(d, g[n], X) /\ g[n].mail = d.mail
    <2>1. n \in 0..n
      BY <1>2
    <2> QED BY <1>9, <1>10, <2>1
  <1> DEFINE D == {m}
  <1>13. g[n + 1] = Run(g[n], [stmt |-> "DEL_MAIL_BY_ID", ids |-> D])
    <2>1. n + 1 \in 1..(n + 1) /\ (n + 1) - 1 = n
      BY <1>2
    <2>2. g[n + 1] = Run(g[(n + 1) - 1], t[n + 1])
      BY <1>5, <2>1
    <2> QED BY <1>3, <2>1, <2>2
  <1>14. D \in SUBSET MailIds
    OBVIOUS
  <1>15. g[n] \in Tables
    BY <1>12 DEF Shrunk
  <1> HIDE DEF D
  <1>16. /\ g[n + 1] \in Tables
         /\ g[n + 1].mail = Put(g[n].mail, D, None)
         /\ g[n + 1].character_inventory = g[n].character_inventory
         /\ g[n + 1].item_instance = g[n].item_instance /\ g[n + 1].money = g[n].money
         /\ g[n + 1].auctionhouse = g[n].auctionhouse /\ g[n + 1].mail_items = g[n].mail_items
    BY <1>13, <1>14, <1>15, RunNoMail
  <1>17. Shrunk(d, g[n + 1], X) /\ g[n + 1].mail = Put(d.mail, D, None)
    BY <1>12, <1>16 DEF Shrunk
  <1> QED BY <1>2, <1>9, <1>11, <1>17 DEF D, Deleting

LEMMA EmptiedGood ==
    ASSUME NEW d, NEW e, NEW I, NEW gone, NEW more, NEW last, Good(d, I, gone, last),
           NEW m \in MailIds, NEW D, D = {m}, Shrunk(d, e, Contents(d, m)), e.mail = Put(d.mail, D, None),
           gone \subseteq more, Contents(d, m) \subseteq more
    PROVE  Good(e, I, more, last) /\ Aside(d, e, m)
  <1> DEFINE X == Contents(d, m)
  <1>1. e.mail = d.mail \/ (X = Contents(d, m) /\ e.mail = Put(d.mail, {m}, None))
    OBVIOUS
  <1>2. X \subseteq Contents(d, m) /\ Shrunk(d, e, X) /\ X \subseteq more
    OBVIOUS
  <1> HIDE DEF X
  <1> QED BY <1>1, <1>2, ShrunkGood, ZenonT(60)

LEMMA LighterGood ==
    ASSUME NEW d, NEW e, NEW I, NEW gone, NEW more, NEW last, Good(d, I, gone, last),
           NEW m \in MailIds, NEW X, X \subseteq Contents(d, m), Shrunk(d, e, X), e.mail = d.mail,
           gone \subseteq more, X \subseteq more
    PROVE  Good(e, I, more, last) /\ Aside(d, e, m)
  BY ShrunkGood, ZenonT(60)

LEMMA OldMailDeleted ==
    ASSUME Inv, NEW m \in MailIds, NEW S, S = Settled, OldMail(m, DeleteStmts(m, Contents(S, m))),
           discarded' = discarded \cup Contents(S, m)
    PROVE  Inv'
  <1> DEFINE X == Contents(S, m)
             n == Cardinality(X)
             t == DeleteStmts(m, X)
             g == After(S, Alone(t))
             I == scenario.items
             gone == discarded \cup unsent
             more == discarded' \cup unsent
  <1>1. Good(S, I, gone, mailId) /\ discarded \subseteq Items
    BY SettledGood DEF Inv, Types
  <1>2. S \in Tables
    BY <1>1 DEF Good
  <1>3. X \in SUBSET Items /\ X \subseteq X
    BY DEF Contents, MailedIn
  <1>4. discarded' \subseteq Items /\ discarded \subseteq discarded' /\ gone \subseteq more /\ X \subseteq more
    BY <1>1, <1>3
  <1>5. OldMail(m, t)
    OBVIOUS
  <1>6. t \in Seq(Statement) /\ Len(t) = n + 1
    BY <1>3, DeleteStmtsIs
  <1> HIDE DEF t, more, gone, I
  <1>7. /\ n \in Nat
        /\ \A k \in 0..n : Shrunk(S, g[k], DeletedIn(X, k)) /\ g[k].mail = S.mail
        /\ Shrunk(S, g[n + 1], X) /\ g[n + 1].mail = Put(S.mail, {m}, None)
        /\ \A k \in 0..n : DeletedIn(X, k) \subseteq X
    <2>1. n = Cardinality(X) /\ g = After(S, Alone(DeleteStmts(m, X)))
      BY DEF t
    <2> HIDE DEF X, n, g
    <2>2. Deleting(S, g, m, X, n)
      BY <1>2, <1>3, <2>1, DeletedSteps
    <2> QED BY <2>2 DEF Deleting
  <1> HIDE DEF g, n
  <1>8. ASSUME NEW k \in 0..n PROVE Good(g[k], I, more, mailId) /\ Aside(S, g[k], m)
    <2>1. Shrunk(S, g[k], DeletedIn(X, k)) /\ g[k].mail = S.mail
      BY <1>7
    <2>2. DeletedIn(X, k) \subseteq Contents(S, m)
      BY <1>7
    <2>3. DeletedIn(X, k) \subseteq more
      BY <1>4, <2>2
    <2> DEFINE e == g[k]
               Z == DeletedIn(X, k)
    <2>4. Shrunk(S, e, Z) /\ e.mail = S.mail /\ Z \subseteq Contents(S, m) /\ Z \subseteq more
      BY <2>1, <2>2, <2>3
    <2> HIDE DEF e, Z, X
    <2>5. Good(e, I, more, mailId) /\ Aside(S, e, m)
      BY <1>1, <1>4, <2>4, LighterGood
    <2> QED BY <2>5 DEF e
  <1>9. Good(g[n + 1], I, more, mailId) /\ Aside(S, g[n + 1], m)
    <2> DEFINE e == g[n + 1]
               D == {m}
    <2>1. Shrunk(S, e, Contents(S, m)) /\ e.mail = Put(S.mail, D, None) /\ D = {m}
      BY <1>7
    <2> HIDE DEF e, D
    <2>2. Contents(S, m) \subseteq more
      BY <1>4
    <2>3. Good(e, I, more, mailId) /\ Aside(S, e, m)
      BY <1>1, <1>4, <2>1, <2>2, EmptiedGood, ZenonT(60)
    <2> QED BY <2>3 DEF e
  <1>11. \A k \in 0..(n + 1) :
              /\ Good(After(S, Alone(t))[k], scenario.items, discarded' \cup unsent, mailId)
              /\ Aside(S, After(S, Alone(t))[k], m)
    <2> TAKE k \in 0..(n + 1)
    <2>1. Good(g[k], I, more, mailId) /\ Aside(S, g[k], m)
      <3>1. CASE k = n + 1
        BY <1>9, <3>1
      <3>2. CASE k # n + 1
        <4>1. k \in 0..n
          BY <1>7, <3>2
        <4> QED BY <1>8, <4>1
      <3> QED BY <3>1, <3>2
    <2>2. g = After(S, Alone(t)) /\ I = scenario.items /\ more = discarded' \cup unsent
      BY DEF g, I, more
    <2> QED BY <2>1, <2>2
  <1>12. n + 1 = Len(t)
    BY <1>6
  <1> QED BY <1>4, <1>5, <1>6, <1>11, <1>12, QueuedAlone

LEMMA OldMailInv ==
    ASSUME Inv, NEW m \in MailIds, ReturnOrDeleteOldMails(m), ~astray'
    PROVE  Inv'
  BY OldMailIs, OldMailReturned, OldMailDeleted

-----------------------------------------------------------------------------
(* The invariant is inductive. *)

LEMMA ExecutesInv ==
    ASSUME Inv, DbExecute
    PROVE  Inv'
  BY ExecuteInv, EnterInv

LEMMA StutterInv ==
    ASSUME Inv, UNCHANGED vars
    PROVE  Inv'
  <1>1. /\ UNCHANGED <<online, m_items, money, m_trade, auctions, m_mail, loaded, mailId>>
        /\ UNCHANGED <<db, queue, up, scenario, commits, crashes, discarded, unsent, expired>>
    BY DEF vars, memory
  <1>2. Settled' = Settled
    BY <1>1 DEF Settled
  <1>3. Types'
    BY <1>1 DEF Inv, Types
  <1>4. Trades'
    BY <1>1, TradesKept
  <1>5. Stages'
    BY <1>1 DEF Inv, Stages
  <1>6. Frozen'
    BY <1>1, <1>2 DEF Inv, Frozen, Waits
  <1>7. Logins'
    BY <1>1 DEF Inv, Logins
  <1>8. Memory'
    BY <1>1 DEF Inv, Memory
  <1>9. Saved'
    BY <1>1, <1>2 DEF Inv, Saved
  <1> QED BY <1>3, <1>4, <1>5, <1>6, <1>7, <1>8, <1>9 DEF Inv

LEMMA StepInv ==
    ASSUME Inv, Restart, [Next]_vars, ~astray'
    PROVE  Inv'
  <1>1. ASSUME NEW p \in Players, NEW q \in Players, HandleInitiateTrade(p, q) PROVE Inv'
    BY <1>1, InitiateInv
  <1>2. ASSUME NEW p \in Players, NEW s \in TradeSlots,
               HandleClearTradeItem(p, s) \/ \E i \in Items : HandleSetTradeItem(p, s, i)
        PROVE  Inv'
    BY <1>2, ClearTradeItemInv, SetTradeItemInv
  <1>3. ASSUME NEW p \in Players, NEW g \in Amounts, HandleSetTradeGold(p, g) PROVE Inv'
    BY <1>3, SetTradeGoldInv
  <1>4. ASSUME NEW p \in Players,
               \/ HandleUnacceptTrade(p) \/ HandleCancelTrade(p)
               \/ AcceptRefused(p) \/ AcceptFirst(p) \/ AcceptNoSpace(p) \/ AcceptCompletes(p)
        PROVE  Inv'
    BY <1>4, AcceptStepInv, CancelInv, CompletesInv
  <1>5. ASSUME NEW p \in Players, NEW i \in Items,
               \/ \E b \in Buyouts : HandleAuctionSellItem(p, i, b)
               \/ \E g \in Bids : PlaceBid(p, i, g) \/ Buyout(p, i, g)
               \/ HandleAuctionRemoveItem(p, i)
        PROVE  Inv'
    BY <1>5, SellInv, PlaceBidInv, BuyoutInv, RemoveInv
  <1>6. ASSUME NEW i \in Items, AuctionExpires(i) \/ DeleteExpiredAuctionsAtStartup(i) PROVE Inv'
    BY <1>6, ExpiresInv, StartupInv
  <1>7. ASSUME NEW p \in Players, NEW to \in Players, NEW T \in SUBSET Items, NEW g \in scenario.sums,
               NEW cod \in Amounts, HandleSendMail(p, to, T, g, cod)
        PROVE  Inv'
    BY <1>7, SendMailInv
  <1>8. ASSUME NEW p \in Players, NEW m \in MailIds,
               \/ HandleMailDelete(p, m) \/ HandleMailMarkAsRead(p, m)
               \/ HandleMailTakeMoney(p, m) \/ HandleMailReturnToSender(p, m)
               \/ \E i \in Items : HandleMailTakeItem(p, m, i)
        PROVE  Inv'
    BY <1>8, MarkInv, TakeMoneyInv, ReturnInv, TakeItemInv
  <1>9. ASSUME NEW p \in Players,
               HandleGetMailList(p) \/ PlayerSaves(p) \/ LogoutPlayer(p) \/ HandlePlayerLogin(p)
        PROVE  Inv'
    BY <1>9, GetMailListInv, SavesInv, LogoutInv, LoginInv
  <1>10. ASSUME NEW m \in MailIds, ReturnOrDeleteOldMails(m) PROVE Inv'
    BY <1>10, OldMailInv
  <1>11. ASSUME DbExecute \/ Crash \/ LoadAuctions \/ UNCHANGED vars PROVE Inv'
    BY <1>11, ExecutesInv, CrashInv, LoadAuctionsInv, StutterInv
  <1> QED BY <1>1, <1>2, <1>3, <1>4, <1>5, <1>6, <1>7, <1>8, <1>9, <1>10, <1>11 DEF Next, Handlers

LEMMA InvTypeOK == ASSUME Inv, expired \subseteq MailIds, astray \in BOOLEAN PROVE TypeOK
  <1>1. Types /\ Trades
    BY DEF Inv
  <1>2. db \in Tables
    BY DbGood DEF Inv, Good
  <1>3. \A p \in Players : m_trade[p] # None => m_trade[p] \in TradeData
    BY <1>1 DEF Trades, Paired
  <1>4. \A i \in Items : auctions[i] # None => auctions[i] \in Auction
    BY <1>1 DEF Types
  <1>5. \A m \in MailIds : m_mail[m] # None => m_mail[m] \in Mail
    BY <1>1 DEF Types
  <1>6. m_items \in [Items -> Players \cup {None}]
    BY <1>1 DEF Types
  <1>7. money \in [Players -> Nat] /\ \A p \in Players : money[p] < MaxMoney
    <2>1. money \in [Players -> 0..(MaxMoney - 1)]
      BY <1>1 DEF Types
    <2>2. MaxMoney \in Nat
      BY CustodyAssumption
    <2> QED BY <2>1, <2>2
  <1>8. online \subseteq Players /\ loaded \subseteq online /\ mailId \in 0..MaxMails
    BY <1>1 DEF Types
  <1>9. Len(queue) <= MaxQueue /\ commits \in 0..scenario.commits /\ crashes \in 0..MaxCrashes
    BY <1>1 DEF Types
  <1>10. up \in BOOLEAN /\ discarded \subseteq Items /\ unsent \subseteq Items
    BY <1>1 DEF Types
  <1> QED BY <1>2, <1>3, <1>4, <1>5, <1>6, <1>7, <1>8, <1>9, <1>10 DEF TypeOK

LEMMA InvOnePlace == ASSUME Inv PROVE OnePlace
  <1>1. scenario.items \subseteq Items
    <2>1. scenario \in Scenarios
      BY DEF Inv, Types
    <2>2. scenario \in [players : SUBSET Players, masters : SUBSET Players, items : SUBSET Items,
                        sums : SUBSET (0..Uint32 - 1), commits : Nat,
                        uses : SUBSET {"trade", "auction", "mail"}]
      BY <2>1, CustodyAssumption
    <2> QED BY <2>2
  <1>2. OneRow(db) /\ Found(db, scenario.items, discarded \cup unsent)
    BY DbGood DEF Inv, Good
  <1> SUFFICES ASSUME NEW i \in scenario.items
               PROVE  /\ Cardinality(Places(db, i)) <= 1
                      /\ i \notin discarded \cup unsent => Places(db, i) # {} /\ i \in db.item_instance
    BY DEF OnePlace
  <1>3. /\ db.character_inventory[i] # None => db.auctionhouse[i] = None /\ db.mail_items[i] = None
        /\ db.auctionhouse[i] # None => db.mail_items[i] = None
        /\ db.mail_items[i] # None /\ db.mail[db.mail_items[i]] = None => i \notin db.item_instance
    BY <1>1, <1>2 DEF OneRow
  <1>4. Places(db, i) = {} \/ \E x : Places(db, i) = {x}
    <2>1. CASE db.character_inventory[i] # None
      BY <1>3, <2>1 DEF Places
    <2>2. CASE db.character_inventory[i] = None /\ db.auctionhouse[i] # None
      BY <1>3, <2>2 DEF Places
    <2>3. CASE db.character_inventory[i] = None /\ db.auctionhouse[i] = None
      BY <2>3 DEF Places
    <2> QED BY <2>1, <2>2, <2>3
  <1>5. Cardinality(Places(db, i)) <= 1
    <2>1. CASE Places(db, i) = {}
      <3>1. Cardinality(Places(db, i)) = 0
        BY <2>1, FS_EmptySet
      <3> QED BY <3>1
    <2>2. ASSUME NEW x, Places(db, i) = {x} PROVE Cardinality(Places(db, i)) <= 1
      <3>1. Cardinality(Places(db, i)) = 1
        BY <2>2, FS_Singleton
      <3> QED BY <3>1
    <2> QED BY <1>4, <2>1, <2>2
  <1>6. ASSUME i \notin discarded \cup unsent PROVE Places(db, i) # {} /\ i \in db.item_instance
    <2>1. /\ i \in db.item_instance
          /\ db.character_inventory[i] # None \/ db.auctionhouse[i] # None \/ db.mail_items[i] # None
      BY <1>2, <1>6 DEF Found
    <2>2. db.mail_items[i] # None => db.mail[db.mail_items[i]] # None
      BY <1>3, <2>1
    <2> QED BY <2>1, <2>2 DEF Places
  <1> QED BY <1>5, <1>6

Whole(p, q) ==
    /\ \A i \in Offered(p) : m_items'[i] = q
    /\ \A i \in Offered(q) : m_items'[i] = p
    /\ money'[p] - money[p] = m_trade[q].money - m_trade[p].money
    /\ money'[q] - money[q] = m_trade[p].money - m_trade[q].money

LEMMA CompletesWhole ==
    ASSUME Inv, NEW p \in Players, AcceptCompletes(p)
    PROVE  Whole(p, Trader(p))
  <1> DEFINE q == Trader(p)
  <1>1. /\ m_items' = Exchanged(m_items, p, q)
        /\ money' = [money EXCEPT ![p] = Paid(p, q), ![q] = Paid(q, p)]
    BY CompletesIs
  <1>2. p # q /\ q \in Players /\ m_trade[p].money \in Nat /\ m_trade[q].money \in Nat
    BY ReadyToTrade DEF Ready
  <1>3. money \in [Players -> 0..(MaxMoney - 1)] /\ MaxMoney \in Nat
    BY ItemsSaved, CustodyAssumption
  <1>4. /\ Paid(p, q) = money[p] - m_trade[p].money + m_trade[q].money
        /\ Paid(q, p) = money[q] - m_trade[q].money + m_trade[p].money
    BY PaidIs
  <1> HIDE DEF q
  <1>5. /\ Offered(p) \subseteq Items /\ Offered(q) \subseteq Items /\ Offered(p) \cap Offered(q) = {}
    BY <1>2 DEF Offered, Having
  <1>6. \A i \in Items : m_items'[i] = IF i \in Offered(p) THEN q ELSE IF i \in Offered(q) THEN p ELSE m_items[i]
    BY <1>1 DEF Exchanged
  <1>7. money'[p] = Paid(p, q) /\ money'[q] = Paid(q, p)
    BY <1>1, <1>2, <1>3
  <1>8. money[p] \in Int /\ money[q] \in Int
    BY <1>2, <1>3
  <1>9. /\ money'[p] - money[p] = m_trade[q].money - m_trade[p].money
        /\ money'[q] - money[q] = m_trade[p].money - m_trade[q].money
    BY <1>2, <1>4, <1>7, <1>8
  <1>10. Whole(p, q)
    BY <1>5, <1>6, <1>9 DEF Whole
  <1> QED BY <1>10 DEF q
=============================================================================
