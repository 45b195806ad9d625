---------------------------- MODULE ItemCustody ----------------------------
(***************************************************************************)
(* Items and money that change hands: trades (game/Handlers/TradeHandler,  *)
(* TradeData in game/Entities/Player), auctions (AuctionHouseHandler,      *)
(* AuctionHouseMgr) and mail (MailHandler, Mail, ObjectMgr), with what     *)
(* each handler writes to the character database.                          *)
(*                                                                         *)
(* The handlers run one at a time on the world thread and change the       *)
(* memory at once.  Their transactions are queued (DbPool) and executed    *)
(* later, each whole (AtomicStore) and in order by the one worker thread   *)
(* of the default configuration; mails and expired auctions are read       *)
(* directly, ahead of the queue.  The process may crash at any time: the   *)
(* memory and the queue are lost, the database is what remains.            *)
(*                                                                         *)
(* An item is in at most one auction, so the item stands for the auction's *)
(* id.  Delivery and expiry times have passed whenever an action needs it. *)
(*                                                                         *)
(* In five cases (Pending, Overtaken, Revived, PassesMaximum and an item   *)
(* taken through another mail) the code goes on with a mailbox, an auction *)
(* or a purse that no longer agrees with the database.  The step is an     *)
(* action here, and sets astray; the model ends there.                     *)
(***************************************************************************)
EXTENDS Integers, Sequences, FiniteSets, FiniteSetsExt, SequencesExt, TLC

CONSTANTS
    Players, Items, None,
    TradeSlotCount,     \* TRADE_SLOT_TRADED_COUNT, slots of a trade window
    Slots,              \* inventory slots of a player
    MaxMoney,           \* MAX_MONEY_AMOUNT
    InitialMoney,       \* of each player
    Deposit,            \* GetAuctionDeposit
    Buyouts,            \* buyout prices of auctions; 0 is no buyout
    Bids,               \* prices bid
    Amounts,            \* money offered in a trade, mailed, or charged on delivery
    Postage,            \* cost of a mail
    Uint32,             \* 2^32: a sum of money is an uint32, a change of it an int32
    MaxMails,           \* bound: mail ids
    MaxQueue,           \* bound: queued transactions
    Scenarios,          \* bound: who plays, what they begin and mail, transactions
    MaxCrashes          \* bound

ASSUME CustodyAssumption ==
    /\ IsFiniteSet(Players) /\ IsFiniteSet(Items)
    /\ None \notin Players /\ None \notin Items
    /\ {TradeSlotCount, Slots, MaxMoney, InitialMoney, Deposit, Postage} \subseteq Nat
    /\ {MaxMails, MaxQueue, MaxCrashes, Uint32} \subseteq Nat
    /\ Buyouts \subseteq Nat /\ Bids \subseteq Nat \ {0} /\ Amounts \subseteq Nat
    /\ InitialMoney < MaxMoney /\ 2 * MaxMoney < Uint32 /\ 2 * Postage < Uint32
    /\ Scenarios \subseteq [players : SUBSET Players, masters : SUBSET Players, items : SUBSET Items,
                        sums : SUBSET (0..Uint32 - 1), commits : Nat,
                        uses : SUBSET {"trade", "auction", "mail"}]

VARIABLES
    online,     \* players in the world
    m_items,    \* item -> the online player that has it, or None
    money,      \* player -> PLAYER_FIELD_COINAGE
    m_trade,    \* player -> TradeData or None
    auctions,   \* item -> AuctionEntry or None (AuctionsMap and mAitems)
    m_mail,     \* mail id -> Mail in its receiver's memory, or None
    loaded,     \* players whose mails are loaded (m_mailsLoaded)
    mailId,     \* last generated mail id
    db,         \* the tables of the character database
    queue,      \* queued transactions and login queries
    up,         \* the world is loaded and runs
    scenario,           \* one of Scenarios
    commits, crashes,   \* counted for the bounds
    discarded,  \* history: items given up with their mail
    unsent,     \* history: items of auctions that startup deleted
    expired,    \* history: mails that the timer returned or deleted
    astray      \* history: a stale read or a passed maximum; the model ends

memory == <<online, m_items, money, m_trade, auctions, m_mail, loaded, mailId>>
vars   == <<memory, db, queue, up, scenario, commits, crashes, discarded, unsent, expired, astray>>

MailIds  == 1..MaxMails
TradeSlots == 1..TradeSlotCount
Auction  == [owner : Players, bidder : Players \cup {None}, bid : Nat,
             buyout : Nat, deposit : Nat]
MailRow  == [sender : Players \cup {None}, receiver : Players, money : Nat,
             COD : Nat, returned : BOOLEAN]
Mail     == [row : MailRow, items : SUBSET Items, deleted : BOOLEAN]
TradeData == [trader : Players, items : [TradeSlots -> Items \cup {None}],
             money : Nat, accepted : BOOLEAN]

ASSUME NullAssumption ==            \* the null pointer is no object
    None \notin TradeData \cup Auction \cup MailRow \cup Mail \cup MailIds

Tables   == [character_inventory : [Items -> Players \cup {None}],
             money : [Players -> Nat],
             auctionhouse : [Items -> Auction \cup {None}],
             mail : [MailIds -> MailRow \cup {None}],
             mail_items : [Items -> MailIds \cup {None}],
             item_instance : SUBSET Items]

Having(p) == {i \in Items : m_items[i] = p}
MailedIn(rows, id) == {i \in Items : rows[i] = id}
Contents(d, m) == MailedIn(d.mail_items, m) \cap d.item_instance     \* of mail m, an inner join

(* Type invariant; ModifyMoney keeps gold below MAX_MONEY_AMOUNT. *)
TypeOK ==
    /\ online \subseteq Players /\ loaded \subseteq online
    /\ m_items \in [Items -> Players \cup {None}]
    /\ money \in [Players -> Nat] /\ (~astray => \A p \in Players : money[p] < MaxMoney)
    /\ \A p \in Players : m_trade[p] # None => m_trade[p] \in TradeData
    /\ \A i \in Items : auctions[i] # None => auctions[i] \in Auction
    /\ \A m \in MailIds : m_mail[m] # None => m_mail[m] \in Mail
    /\ db \in Tables /\ mailId \in 0..MaxMails
    /\ Len(queue) <= MaxQueue /\ commits \in 0..scenario.commits /\ crashes \in 0..MaxCrashes
    /\ up \in BOOLEAN /\ discarded \subseteq Items /\ unsent \subseteq Items
    /\ expired \subseteq MailIds /\ astray \in BOOLEAN

Init ==
    /\ scenario \in Scenarios /\ commits = 0
    /\ online = scenario.players /\ loaded = {}
    /\ m_items \in [Items -> online \cup {None}]
    /\ \A i \in Items : m_items[i] = None <=> i \notin scenario.items
    /\ \A p \in Players : Cardinality(Having(p)) <= Slots
    /\ money = [p \in Players |-> InitialMoney]
    /\ m_trade = [p \in Players |-> None]
    /\ auctions = [i \in Items |-> None]
    /\ m_mail = [m \in MailIds |-> None] /\ mailId = 0
    /\ db = [character_inventory |-> m_items, money |-> money,
             auctionhouse |-> auctions, mail |-> [m \in MailIds |-> None],
             mail_items |-> [i \in Items |-> None], item_instance |-> scenario.items]
    /\ queue = <<>> /\ up = TRUE /\ crashes = 0 /\ discarded = {} /\ unsent = {}
    /\ expired = {} /\ astray = FALSE

-----------------------------------------------------------------------------
(* Statements of the character database.  Each record stands for one        *)
(* statement, or for the statements of a loop over items or mails, which    *)
(* change distinct rows; Run applies it.                                    *)

Put(rows, S, v) == [x \in DOMAIN rows |-> IF x \in S THEN v ELSE rows[x]]

(* New mails: a function from their ids *)
Carried(mails)    == UNION {mails[m].items : m \in DOMAIN mails}
Carrier(mails, i) == CHOOSE m \in DOMAIN mails : i \in mails[m].items

(* UPDATE changes only a row that exists. *)
Run(d, s) ==
    CASE s.stmt = "REP_INVENTORY_ITEM" ->
            [d EXCEPT !.character_inventory = Put(@, s.items, s.player), !.item_instance = @ \cup s.items]
      [] s.stmt = "DEL_CHAR_INVENTORY_BY_ITEM" ->
            [d EXCEPT !.character_inventory = Put(@, s.items, None)]
      [] s.stmt = "DEL_ITEM_INSTANCE" -> [d EXCEPT !.item_instance = @ \ s.items]
      [] s.stmt = "UPD_CHAR_MONEY" -> [d EXCEPT !.money = Put(@, {s.player}, s.money)]
      [] s.stmt = "INS_AUCTION" -> [d EXCEPT !.auctionhouse = Put(@, {s.item}, s.row)]
      [] s.stmt = "UPD_AUCTION_BID" ->
            IF d.auctionhouse[s.item] = None THEN d
            ELSE [d EXCEPT !.auctionhouse[s.item].bidder = s.bidder, !.auctionhouse[s.item].bid = s.bid]
      [] s.stmt = "DEL_AUCTION" -> [d EXCEPT !.auctionhouse = Put(@, {s.item}, None)]
      [] s.stmt = "INS_MAIL" ->
            [d EXCEPT !.mail = [m \in MailIds |-> IF m \in DOMAIN s.mails THEN s.mails[m].row ELSE @[m]]]
      [] s.stmt = "UPD_MAIL" ->
            IF d.mail[s.id] = None THEN d
            ELSE [d EXCEPT !.mail[s.id].money = s.row.money, !.mail[s.id].COD = s.row.COD]
      [] s.stmt = "UPD_MAIL_RETURNED" ->
            IF d.mail[s.id] = None THEN d
            ELSE [d EXCEPT !.mail[s.id] = [@ EXCEPT !.sender = s.row.receiver, !.receiver = s.row.sender,
                                                    !.COD = 0, !.returned = TRUE]]
      [] s.stmt = "DEL_MAIL_BY_ID" -> [d EXCEPT !.mail = Put(@, s.ids, None)]
      [] s.stmt = "INS_MAIL_ITEM" ->
            [d EXCEPT !.mail_items =
                [i \in Items |-> IF i \in Carried(s.mails) THEN Carrier(s.mails, i) ELSE @[i]]]
      [] s.stmt = "DEL_MAIL_ITEM" -> [d EXCEPT !.mail_items = Put(@, {s.item}, None)]
      [] s.stmt = "DEL_MAIL_ITEM_BY_ID" ->
            [d EXCEPT !.mail_items = [i \in Items |-> IF @[i] \in s.ids THEN None ELSE @[i]]]

(* A transaction is executed whole, statement by statement. *)
RunAll(d, trans) ==
    LET run[k \in 0..Len(trans)] == IF k = 0 THEN d ELSE Run(run[k - 1], trans[k])
    IN  run[Len(trans)]

(* The tables after each of the queued transactions, and after the last. *)
After(d, q) ==
    LET done[k \in 0..Len(q)] == IF k = 0 THEN d ELSE RunAll(done[k - 1], q[k].stmts)
    IN  done

Settled == After(db, queue)[Len(queue)]

(* A queued statement is about mail m or its items. *)
Pending(m) == Settled.mail[m] # db.mail[m] \/ Contents(Settled, m) # Contents(db, m)

Commit(trans) ==
    /\ Len(queue) < MaxQueue /\ commits < scenario.commits
    /\ commits' = commits + 1 /\ UNCHANGED scenario
    /\ queue' = Append(queue, [login |-> None, stmts |-> trans])

(* SaveInventoryAndGoldToDB: the items that entered the inventory of p are  *)
(* in its update queue (MoveItemToInventory).                               *)
SaveGoldToDB(p, g) == <<[stmt |-> "UPD_CHAR_MONEY", player |-> p, money |-> g]>>
SaveInventoryAndGoldToDB(p, new, g) ==
    <<[stmt |-> "REP_INVENTORY_ITEM", items |-> new, player |-> p]>> \o SaveGoldToDB(p, g)
DeleteFromInventoryDB_Forgotten(S) == <<>>

DeleteFromInventoryDB(S) == <<[stmt |-> "DEL_CHAR_INVENTORY_BY_ITEM", items |-> S]>>

(* A sum or a difference of two sums of money, and a change of money. *)
AsUint32(x) == IF x < 0 THEN x + Uint32 ELSE IF x >= Uint32 THEN x - Uint32 ELSE x
AsInt32(x)  == IF 2 * x < Uint32 THEN x ELSE x - Uint32

(* ModifyMoney: takes what there is, adds only below the maximum.  The one  *)
(* int32 above MAX_MONEY_AMOUNT makes the difference wrap, and is added.    *)
Holds(g, amount) == g < AsUint32(MaxMoney - amount)
PassesMaximum(amount) == amount > MaxMoney

ModifyMoney_NoMaximum(g, amount) == g + amount
ModifyMoney(g, amount) ==
    CASE amount < 0 -> IF g > -amount THEN g + amount ELSE 0
      [] amount > 0 -> IF Holds(g, amount) THEN g + amount ELSE g
      [] OTHER -> g

-----------------------------------------------------------------------------
(* MailDraft::SendMailTo.  A draft is a mail row and its items; the drafts  *)
(* of one handler get consecutive ids.                                      *)

Draft(from, to, S, m, cod, ret) ==
    [row |-> [sender |-> from, receiver |-> to, money |-> m, COD |-> cod, returned |-> ret],
     items |-> S]
AuctionMail(to, S, m) == Draft(None, to, S, m, 0, FALSE)    \* MAIL_AUCTION

NewMails(drafts) == [m \in (mailId + 1)..(mailId + Len(drafts)) |-> drafts[m - mailId]]

SendMailToStmts(drafts) ==
    <<[stmt |-> "INS_MAIL", mails |-> NewMails(drafts)],
      [stmt |-> "INS_MAIL_ITEM", mails |-> NewMails(drafts)]>>

(* Only a receiver who has loaded the mails gets it into memory. *)
InMemory(drafts, box) ==
    [m \in MailIds |->
        IF m \in DOMAIN NewMails(drafts) /\ NewMails(drafts)[m].row.receiver \in loaded
        THEN [row |-> NewMails(drafts)[m].row, items |-> NewMails(drafts)[m].items, deleted |-> FALSE]
        ELSE box[m]]

SendMails(drafts, box) ==
    /\ mailId + Len(drafts) <= MaxMails
    /\ mailId' = mailId + Len(drafts)
    /\ m_mail' = InMemory(drafts, box)

-----------------------------------------------------------------------------
(* Trade *)

Trader(p)  == m_trade[p].trader
Offered(p) == {m_trade[p].items[s] : s \in TradeSlots} \cap Having(p)    \* GetItem

TradeUnchanged == UNCHANGED <<online, m_items, money, auctions, m_mail, loaded, mailId, db, queue, up, scenario, commits, crashes, discarded, unsent, expired, astray>>

NewTrade(q) == [trader |-> q, items |-> [s \in TradeSlots |-> None], money |-> 0, accepted |-> FALSE]

HandleInitiateTrade(p, q) ==
    /\ "trade" \in scenario.uses /\ {p, q} \subseteq online /\ p # q
    /\ m_trade[p] = None /\ m_trade[q] = None
    /\ m_trade' = [m_trade EXCEPT ![p] = NewTrade(q), ![q] = NewTrade(p)]
    /\ TradeUnchanged

(* SetItem and SetMoney take back both acceptances, unless nothing changes. *)
OfferChanged_OwnOnly(p, t) == m_trade' = [m_trade EXCEPT ![p] = [t EXCEPT !.accepted = FALSE]]

OfferChanged(p, t) ==
    /\ t # m_trade[p]
    /\ m_trade' = [m_trade EXCEPT ![p] = [t EXCEPT !.accepted = FALSE],
                                 ![Trader(p)].accepted = FALSE]

HandleSetTradeItem(p, s, i) ==
    /\ m_trade[p] # None /\ i \in Having(p)
    /\ \A r \in TradeSlots : m_trade[p].items[r] # i              \* HasItem
    /\ OfferChanged(p, [m_trade[p] EXCEPT !.items[s] = i])
    /\ TradeUnchanged

HandleClearTradeItem(p, s) ==
    /\ m_trade[p] # None
    /\ OfferChanged(p, [m_trade[p] EXCEPT !.items[s] = None])
    /\ TradeUnchanged

HandleSetTradeGold(p, g) ==
    /\ m_trade[p] # None
    /\ OfferChanged(p, [m_trade[p] EXCEPT !.money = g])
    /\ TradeUnchanged

HandleUnacceptTrade(p) ==
    /\ m_trade[p] # None
    /\ m_trade' = [m_trade EXCEPT ![p].accepted = FALSE]
    /\ TradeUnchanged

NoTrades(p) == [m_trade EXCEPT ![p] = None, ![Trader(p)] = None]

HandleCancelTrade(p) ==
    /\ m_trade[p] # None
    /\ m_trade' = NoTrades(p)
    /\ TradeUnchanged

(* HandleAcceptTrade: the checks in the order of the code.  The player who  *)
(* cannot pay or hold the money loses the acceptance.                       *)
Poor(p)     == money[p] < m_trade[p].money
TooRich(p)  == money[p] >= MaxMoney - m_trade[Trader(p)].money
Refused(p)  == LET q == Trader(p) IN
    CASE Poor(p) -> p [] ~Poor(p) /\ Poor(q) -> q
      [] ~Poor(p) /\ ~Poor(q) /\ TooRich(p) -> p
      [] ~Poor(p) /\ ~Poor(q) /\ ~TooRich(p) /\ TooRich(q) -> q
      [] OTHER -> None

AcceptRefused(p) ==
    /\ m_trade[p] # None /\ Refused(p) # None
    /\ m_trade' = [m_trade EXCEPT ![p].accepted = TRUE, ![Refused(p)].accepted = FALSE]
    /\ TradeUnchanged

AcceptFirst(p) ==
    /\ m_trade[p] # None /\ Refused(p) = None /\ ~m_trade[Trader(p)].accepted
    /\ m_trade' = [m_trade EXCEPT ![p].accepted = TRUE]
    /\ TradeUnchanged

(* CanStoreItems, with the slots of the items given away counted as free. *)
CanStoreItems_IgnoresOwn(p, in, out) == Cardinality(in) <= Slots

CanStoreItems(p, in, out) == Cardinality((Having(p) \ out) \cup in) <= Slots

AcceptsSecond(p) == m_trade[p] # None /\ Refused(p) = None /\ m_trade[Trader(p)].accepted

AcceptNoSpace(p) ==
    /\ AcceptsSecond(p)
    /\ LET q == Trader(p) IN
        /\ ~ (/\ CanStoreItems(q, Offered(p), Offered(q))
              /\ CanStoreItems(p, Offered(q), Offered(p)))
        /\ m_trade' = [m_trade EXCEPT ![p].accepted = FALSE, ![q].accepted = FALSE]
    /\ TradeUnchanged

(* moveItems, after all offered items have been removed: slot by slot both  *)
(* items are stored, or each goes back to its owner if it fits there.       *)
MoveItems(p, q) ==
    LET offer(r, s) == IF m_trade[r].items[s] \in Having(r) THEN m_trade[r].items[s] ELSE None
        fits(h, r, i) == i = None \/ Cardinality({j \in Items : h[j] = r}) < Slots
        store(h, r, i) == IF i # None /\ fits(h, r, i) THEN [h EXCEPT ![i] = r] ELSE h
        slot(h, s) ==
            IF fits(h, q, offer(p, s)) /\ fits(h, p, offer(q, s))
            THEN store(store(h, q, offer(p, s)), p, offer(q, s))
            ELSE store(store(h, p, offer(p, s)), q, offer(q, s))
        removed == [i \in Items |-> IF i \in Offered(p) \cup Offered(q) THEN None ELSE m_items[i]]
        held[s \in 0..TradeSlotCount] == IF s = 0 THEN removed ELSE slot(held[s - 1], s)
    IN  held[TradeSlotCount]

AcceptCompletes(p) ==
    /\ AcceptsSecond(p)
    /\ LET q == Trader(p)
           pMoney == ModifyMoney(ModifyMoney(money[p], -m_trade[p].money), m_trade[q].money)
           qMoney == ModifyMoney(ModifyMoney(money[q], -m_trade[q].money), m_trade[p].money)
           moved == MoveItems(p, q)
       IN
        /\ CanStoreItems(q, Offered(p), Offered(q)) /\ CanStoreItems(p, Offered(q), Offered(p))
        /\ m_items' = moved
        /\ money' = [money EXCEPT ![p] = pMoney, ![q] = qMoney]
        /\ m_trade' = NoTrades(p)
        /\ Commit(SaveInventoryAndGoldToDB(p, {i \in Offered(p) \cup Offered(q) : moved[i] = p}, pMoney)
                  \o SaveInventoryAndGoldToDB(q, {i \in Offered(p) \cup Offered(q) : moved[i] = q}, qMoney))
    /\ UNCHANGED <<online, auctions, m_mail, loaded, mailId, db, up, crashes, discarded, unsent, expired, astray>>

-----------------------------------------------------------------------------
(* Auctions *)

GetAuctionCut(a)    == a.bid \div 2         \* a share of the bid
GetAuctionOutBid(a) == 1

AuctionUnchanged == UNCHANGED <<online, m_trade, loaded, db, up, crashes, discarded, unsent, expired, astray>>

(* The deposit is taken after the transaction has been built. *)
HandleAuctionSellItem(p, i, buyout) ==
    /\ "auction" \in scenario.uses /\ p \in online /\ i \in Having(p) /\ auctions[i] = None
    /\ money[p] >= Deposit
    /\ LET a == [owner |-> p, bidder |-> None, bid |-> 0, buyout |-> buyout, deposit |-> Deposit] IN
        /\ auctions' = [auctions EXCEPT ![i] = a]
        /\ Commit(DeleteFromInventoryDB({i}) \o <<[stmt |-> "INS_AUCTION", item |-> i, row |-> a]>>
                  \o SaveGoldToDB(p, money[p]))
    /\ m_items' = [m_items EXCEPT ![i] = None]
    /\ money' = [money EXCEPT ![p] = ModifyMoney(@, -Deposit)]
    /\ UNCHANGED <<m_mail, mailId>> /\ AuctionUnchanged

(* SendAuctionOutbiddedMail *)
Outbidded(a, p) ==
    IF a.bidder \in {None, p} THEN <<>> ELSE <<AuctionMail(a.bidder, {}, a.bid)>>

(* The bidder who raises pays the difference. *)
ToPay_AlwaysDifference(a, p, price) == price - a.bid

ToPay(a, p, price) == IF a.bidder = p THEN price - a.bid ELSE price

MayBid(p, i, price) ==
    /\ p \in online /\ auctions[i] # None
    /\ LET a == auctions[i] IN
        /\ a.owner # p /\ price > a.bid
        /\ (a.buyout # 0 /\ price >= a.buyout) \/ price >= a.bid + GetAuctionOutBid(a)
    /\ money[p] >= price

PlaceBid(p, i, price) ==
    /\ MayBid(p, i, price)
    /\ LET a == auctions[i]
           drafts == Outbidded(a, p)
           g == ModifyMoney(money[p], -ToPay(a, p, price))
       IN
        /\ a.buyout = 0 \/ price < a.buyout
        /\ money' = [money EXCEPT ![p] = g]
        /\ auctions' = [auctions EXCEPT ![i].bidder = p, ![i].bid = price]
        /\ SendMails(drafts, m_mail)
        /\ Commit(SendMailToStmts(drafts)
                  \o <<[stmt |-> "UPD_AUCTION_BID", item |-> i, bidder |-> p, bid |-> price]>>
                  \o SaveGoldToDB(p, g))
    /\ UNCHANGED m_items /\ AuctionUnchanged

(* SendAuctionSuccessfulMail, SendAuctionWonMail (the mail that announces   *)
(* the sale carries nothing and is left out).                               *)
Successful(a) == AuctionMail(a.owner, {}, a.bid + a.deposit - GetAuctionCut(a))
Won(a, i)     == AuctionMail(a.bidder, {i}, 0)
Sold(a, i)    == <<Successful(a), Won(a, i)>>

Buyout(p, i, price) ==
    /\ MayBid(p, i, price)
    /\ LET a == auctions[i]
           sold == [a EXCEPT !.bidder = p, !.bid = a.buyout]
           drafts == Outbidded(a, p) \o Sold(sold, i)
           g == ModifyMoney(money[p], -ToPay(a, p, a.buyout))
       IN
        /\ a.buyout # 0 /\ price >= a.buyout
        /\ money' = [money EXCEPT ![p] = g]
        /\ auctions' = [auctions EXCEPT ![i] = None]
        /\ SendMails(drafts, m_mail)
        /\ Commit(SendMailToStmts(drafts) \o <<[stmt |-> "DEL_AUCTION", item |-> i]>>
                  \o SaveGoldToDB(p, g))
    /\ UNCHANGED m_items /\ AuctionUnchanged

HandleAuctionRemoveItem(p, i) ==
    /\ p \in online /\ auctions[i] # None /\ auctions[i].owner = p
    /\ LET a == auctions[i]
           cut == IF a.bidder = None THEN 0 ELSE GetAuctionCut(a)
           g == ModifyMoney(money[p], -cut)
           drafts == (IF a.bidder = None THEN <<>> ELSE <<AuctionMail(a.bidder, {}, a.bid)>>)
                        \o <<AuctionMail(p, {i}, 0)>>
       IN
        /\ money[p] >= cut
        /\ money' = [money EXCEPT ![p] = g]
        /\ auctions' = [auctions EXCEPT ![i] = None]
        /\ SendMails(drafts, m_mail)
        /\ Commit(SendMailToStmts(drafts) \o SaveGoldToDB(p, g)
                  \o <<[stmt |-> "DEL_AUCTION", item |-> i]>>)
    /\ UNCHANGED m_items /\ AuctionUnchanged

(* AuctionHouseObject::Update, for one of the auctions that the database    *)
(* lists as expired.  An auction that is no longer in memory is skipped.    *)
AuctionExpires(i) ==
    /\ up /\ db.auctionhouse[i] # None /\ auctions[i] # None
    /\ LET a == auctions[i]
           drafts == IF a.bidder = None THEN <<AuctionMail(a.owner, {i}, 0)>> ELSE Sold(a, i)
       IN
        /\ SendMails(drafts, m_mail)
        /\ Commit(SendMailToStmts(drafts) \o <<[stmt |-> "DEL_AUCTION", item |-> i]>>)
    /\ auctions' = [auctions EXCEPT ![i] = None]
    /\ UNCHANGED <<m_items, money>> /\ AuctionUnchanged

-----------------------------------------------------------------------------
(* Mail *)

MailUnchanged == UNCHANGED <<online, m_trade, auctions, loaded, db, up, crashes, unsent, expired>>

(* Who is in game master mode need not have the money.  The change is       *)
(* -int32(reqmoney), a gain when reqmoney is above the largest int32.       *)
HandleSendMail(p, to, S, m, cod) ==
    /\ "mail" \in scenario.uses /\ p \in online /\ to \in Players \ {p} /\ S \subseteq Having(p)
    /\ LET reqmoney == AsUint32(Postage + m)
           change == AsInt32(AsUint32(-reqmoney))
           g == ModifyMoney(money[p], change)
           drafts == <<Draft(p, to, S, m, cod, FALSE)>>
       IN
        /\ money[p] >= reqmoney \/ p \in scenario.masters
        /\ money' = [money EXCEPT ![p] = g] /\ astray' = PassesMaximum(change)
        /\ SendMails(drafts, m_mail)
        /\ Commit(DeleteFromInventoryDB(S) \o SendMailToStmts(drafts) \o SaveGoldToDB(p, g))
    /\ m_items' = [i \in Items |-> IF i \in S THEN None ELSE m_items[i]]
    /\ UNCHANGED discarded /\ MailUnchanged

(* HandleGetMailList reads the mails on the first call of a session, ahead  *)
(* of the transactions that are still queued.  A mail that the timer is     *)
(* about to return or delete is opened all the same.                        *)
Received(p) == {m \in MailIds : db.mail[m] # None /\ db.mail[m].receiver = p}
Overtaken(p) == \E m \in Received(p) \cap expired : Pending(m)

HandleGetMailList(p) ==
    /\ p \in online \ loaded
    /\ loaded' = loaded \cup {p} /\ astray' = Overtaken(p)
    /\ m_mail' = [m \in MailIds |->
            IF m \in Received(p) THEN [row |-> db.mail[m], items |-> Contents(db, m), deleted |-> FALSE]
            ELSE m_mail[m]]
    /\ UNCHANGED <<online, m_items, money, m_trade, auctions, mailId, db, queue, up, scenario, commits, crashes, discarded, unsent, expired>>

(* GetMail *)
MailOf(p, m) == m_mail[m] # None /\ m_mail[m].row.receiver = p /\ p \in loaded
Readable(p, m) == MailOf(p, m) /\ ~m_mail[m].deleted

HandleMailDelete(p, m) ==
    /\ MailOf(p, m) /\ m_mail[m].row.COD = 0
    /\ m_mail' = [m_mail EXCEPT ![m].deleted = TRUE]
    /\ UNCHANGED <<m_items, money, mailId, queue, scenario, commits, discarded, astray>>
    /\ MailUnchanged

(* The mark replaces the state, that of a deleted mail too. *)
HandleMailMarkAsRead(p, m) ==
    /\ MailOf(p, m)
    /\ m_mail' = [m_mail EXCEPT ![m].deleted = FALSE]
    /\ UNCHANGED <<m_items, money, mailId, queue, scenario, commits, discarded, astray>>
    /\ MailUnchanged

(* _SaveMail: the statements for the deleted mails of p, and what is left.  *)
(* The items of a deleted mail are destroyed.                               *)
DeletedMails(p, box) == {m \in MailIds : box[m] # None /\ box[m].row.receiver = p /\ box[m].deleted}
DeletedItems(p, box) == UNION {box[m].items : m \in DeletedMails(p, box)}
SaveDeleted(p, box) ==
    <<[stmt |-> "DEL_ITEM_INSTANCE", items |-> DeletedItems(p, box)],
      [stmt |-> "DEL_MAIL_BY_ID", ids |-> DeletedMails(p, box)],
      [stmt |-> "DEL_MAIL_ITEM_BY_ID", ids |-> DeletedMails(p, box)]>>
Kept(p, box) == [m \in MailIds |-> IF m \in DeletedMails(p, box) THEN None ELSE box[m]]
SaveChanged_Forgotten(m, mail) == <<>>

SaveChanged(m, mail) == <<[stmt |-> "UPD_MAIL", id |-> m, row |-> mail.row]>>

(* GetMItem: the item may be of any mail of p, or of one that is gone since *)
(* p entered (_SaveMail and the return of an auction's mail leave it there).*)
GetMItem(p, i) == i \in discarded \/ \E k \in MailIds : MailOf(p, k) /\ i \in m_mail[k].items

(* Taken through a mail that does not list it, the item stays listed in its *)
(* own mail, whose cash on delivery is not paid.                            *)
HandleMailTakeItem(p, m, i) ==
    /\ Readable(p, m) /\ GetMItem(p, i)
    /\ money[p] >= m_mail[m].row.COD
    /\ CanStoreItems(p, {i}, {})
    /\ LET old == m_mail[m]
           mail == [old EXCEPT !.row.COD = 0, !.items = @ \ {i}]
           box == [m_mail EXCEPT ![m] = mail]
           g == ModifyMoney(money[p], -old.row.COD)
           drafts == IF old.row.COD = 0 THEN <<>>
                     ELSE <<Draft(p, old.row.sender, {}, old.row.COD, 0, TRUE)>>
       IN
        /\ money' = [money EXCEPT ![p] = g] /\ astray' = (i \notin old.items)
        /\ SendMails(drafts, Kept(p, box))
        /\ discarded' = discarded \cup DeletedItems(p, box)
        /\ Commit(SendMailToStmts(drafts) \o SaveInventoryAndGoldToDB(p, {i}, g)
                  \o SaveChanged(m, mail) \o <<[stmt |-> "DEL_MAIL_ITEM", item |-> i]>>
                  \o SaveDeleted(p, box))
    /\ m_items' = [m_items EXCEPT ![i] = p]
    /\ MailUnchanged

HandleMailTakeMoney(p, m) ==
    /\ Readable(p, m)
    /\ LET mail == [m_mail[m] EXCEPT !.row.money = 0]
           box == [m_mail EXCEPT ![m] = mail]
           change == AsInt32(m_mail[m].row.money)
           g == ModifyMoney(money[p], change)
       IN
        /\ change > 0 => Holds(money[p], change)               \* otherwise EQUIP_ERR_TOO_MUCH_GOLD
        /\ money' = [money EXCEPT ![p] = g] /\ astray' = PassesMaximum(change)
        /\ m_mail' = Kept(p, box)
        /\ discarded' = discarded \cup DeletedItems(p, box)
        /\ Commit(SaveGoldToDB(p, g) \o SaveChanged(m, mail) \o SaveDeleted(p, box))
    /\ UNCHANGED <<m_items, mailId>> /\ MailUnchanged

(* SendReturnToSender.  The items of a mail that no player sent stay in     *)
(* item_instance, in no mail.                                               *)
HandleMailReturnToSender(p, m) ==
    /\ Readable(p, m)
    /\ LET mail == m_mail[m]
           normal == mail.row.sender # None
           drafts == IF normal THEN <<Draft(p, mail.row.sender, mail.items, mail.row.money, 0, TRUE)>>
                     ELSE <<>>
       IN
        /\ SendMails(drafts, [m_mail EXCEPT ![m] = None])
        /\ discarded' = IF normal THEN discarded ELSE discarded \cup mail.items
        /\ Commit(<<[stmt |-> "DEL_MAIL_BY_ID", ids |-> {m}], [stmt |-> "DEL_MAIL_ITEM_BY_ID", ids |-> {m}]>>
                  \o SendMailToStmts(drafts))
    /\ UNCHANGED <<m_items, money, astray>> /\ MailUnchanged

(* ObjectMgr::ReturnOrDeleteOldMails, for one expired mail: returned once,  *)
(* then deleted.  Each statement is queued by itself.  The mail is read     *)
(* ahead of the queue, perhaps of statements about it.                      *)
ReturnOrDeleteOldMails(m) ==
    /\ up /\ db.mail[m] # None /\ db.mail[m].receiver \notin loaded
    /\ expired' = expired \cup {m} /\ astray' = Pending(m)
    /\ LET row == db.mail[m]
           items == Contents(db, m)
           returns == items # {} /\ row.sender # None /\ ~row.returned
           stmts == IF returns THEN <<[stmt |-> "UPD_MAIL_RETURNED", id |-> m, row |-> row]>>
                    ELSE [k \in 1..Cardinality(items) |->
                            [stmt |-> "DEL_ITEM_INSTANCE", items |-> {SetToSeq(items)[k]}]]
                         \o <<[stmt |-> "DEL_MAIL_BY_ID", ids |-> {m}]>>
       IN
        /\ Len(queue) + Len(stmts) <= MaxQueue /\ commits < scenario.commits
        /\ commits' = commits + 1 /\ UNCHANGED scenario
        /\ queue' = queue \o [k \in 1..Len(stmts) |-> [login |-> None, stmts |-> <<stmts[k]>>]]
        /\ discarded' = IF returns THEN discarded ELSE discarded \cup items
    /\ UNCHANGED <<memory, db, up, crashes, unsent>>

-----------------------------------------------------------------------------
(* Saving, leaving, entering, and the database worker *)

SaveToDB(p) == SaveGoldToDB(p, money[p]) \o SaveDeleted(p, m_mail)

PlayerSaves(p) ==
    /\ p \in online
    /\ Commit(SaveToDB(p))
    /\ m_mail' = Kept(p, m_mail)
    /\ discarded' = discarded \cup DeletedItems(p, m_mail)
    /\ UNCHANGED <<m_items, money, mailId, astray>> /\ MailUnchanged

LogoutPlayer(p) ==
    /\ p \in online
    /\ Commit(SaveToDB(p))
    /\ discarded' = discarded \cup DeletedItems(p, m_mail)
    /\ online' = online \ {p} /\ loaded' = loaded \ {p}
    /\ m_trade' = IF m_trade[p] = None THEN m_trade ELSE NoTrades(p)
    /\ m_items' = [i \in Items |-> IF m_items[i] = p THEN None ELSE m_items[i]]
    /\ m_mail' = [m \in MailIds |-> IF MailOf(p, m) THEN None ELSE m_mail[m]]
    /\ UNCHANGED <<money, auctions, mailId, db, up, crashes, unsent, expired, astray>>

(* HandlePlayerLoginOpcode queues the queries of LoginQueryHolder. *)
HandlePlayerLogin(p) ==
    /\ up /\ p \in scenario.players \ online
    /\ \A k \in 1..Len(queue) : queue[k].login # p
    /\ Len(queue) < MaxQueue
    /\ queue' = Append(queue, [login |-> p, stmts |-> <<>>])
    /\ UNCHANGED <<memory, db, up, scenario, commits, crashes, discarded, unsent, expired, astray>>

DbExecute ==
    /\ queue # <<>> /\ queue' = Tail(queue)
    /\ LET p == Head(queue).login IN
        IF p = None
        THEN db' = RunAll(db, Head(queue).stmts) /\ UNCHANGED memory
        ELSE /\ online' = online \cup {p}
             /\ m_items' = [i \in Items |->
                    IF db.character_inventory[i] = p /\ i \in db.item_instance THEN p ELSE m_items[i]]
             /\ money' = [money EXCEPT ![p] = db.money[p]]
             /\ UNCHANGED <<m_trade, auctions, m_mail, loaded, mailId, db>>
    /\ UNCHANGED <<up, scenario, commits, crashes, discarded, unsent, expired, astray>>

Crash ==
    /\ crashes < MaxCrashes /\ crashes' = crashes + 1
    /\ online' = {} /\ loaded' = {} /\ up' = FALSE /\ queue' = <<>>
    /\ m_items' = [i \in Items |-> None] /\ m_mail' = [m \in MailIds |-> None]
    /\ m_trade' = [p \in Players |-> None] /\ auctions' = [i \in Items |-> None]
    /\ mailId' = Max({0} \cup {m \in MailIds : db.mail[m] # None})      \* SetHighestGuids
    /\ UNCHANGED <<money, db, scenario, commits, discarded, unsent, expired, astray>>

(* DeleteExpiredAuctionsAtStartup: mAitems is not loaded yet, so GetAItem   *)
(* finds no item and the mails that carry it are not sent.                  *)
DeleteExpiredAuctionsAtStartup(i) ==
    /\ ~up /\ db.auctionhouse[i] # None /\ i \notin unsent
    /\ LET a == db.auctionhouse[i]
           drafts == IF a.bidder = None THEN <<>> ELSE <<Successful(a)>>
       IN
        /\ SendMails(drafts, m_mail)
        /\ Commit(SendMailToStmts(drafts) \o <<[stmt |-> "DEL_AUCTION", item |-> i]>>)
    /\ unsent' = unsent \cup {i}
    /\ UNCHANGED <<online, m_items, money, m_trade, auctions, loaded, db, up, crashes, discarded, expired, astray>>

(* LoadAuctionItems, LoadAuctions: reads of the database, ahead of the      *)
(* queue, so that an auction just deleted may come back.                    *)
Revived == {i \in unsent : Settled.auctionhouse[i] # db.auctionhouse[i]}

LoadAuctions ==
    /\ ~up /\ up' = TRUE /\ astray' = (Revived # {})
    /\ auctions' = [i \in Items |-> IF i \in db.item_instance THEN db.auctionhouse[i] ELSE None]
    /\ UNCHANGED <<online, m_items, money, m_trade, m_mail, loaded, mailId, db, queue, scenario, commits, crashes, discarded, unsent, expired>>

Handlers ==
    \/ \E p, q \in Players : HandleInitiateTrade(p, q)
    \/ \E p \in Players, s \in TradeSlots :
          \/ HandleClearTradeItem(p, s)
          \/ \E i \in Items : HandleSetTradeItem(p, s, i)
    \/ \E p \in Players, g \in Amounts : HandleSetTradeGold(p, g)
    \/ \E p \in Players :
          \/ HandleUnacceptTrade(p) \/ HandleCancelTrade(p)
          \/ AcceptRefused(p) \/ AcceptFirst(p) \/ AcceptNoSpace(p) \/ AcceptCompletes(p)
    \/ \E p \in Players, i \in Items :
          \/ \E b \in Buyouts : HandleAuctionSellItem(p, i, b)
          \/ \E g \in Bids : PlaceBid(p, i, g) \/ Buyout(p, i, g)
          \/ HandleAuctionRemoveItem(p, i)
    \/ \E i \in Items : AuctionExpires(i) \/ DeleteExpiredAuctionsAtStartup(i)
    \/ \E p, to \in Players, S \in SUBSET Items, g \in scenario.sums, cod \in Amounts :
          HandleSendMail(p, to, S, g, cod)
    \/ \E p \in Players, m \in MailIds :
          \/ HandleMailDelete(p, m) \/ HandleMailMarkAsRead(p, m)
          \/ HandleMailTakeMoney(p, m) \/ HandleMailReturnToSender(p, m)
          \/ \E i \in Items : HandleMailTakeItem(p, m, i)
    \/ \E p \in Players :
          HandleGetMailList(p) \/ PlayerSaves(p) \/ LogoutPlayer(p) \/ HandlePlayerLogin(p)
    \/ \E m \in MailIds : ReturnOrDeleteOldMails(m)
    \/ DbExecute \/ Crash \/ LoadAuctions

Next == ~astray /\ Handlers

Spec == Init /\ [][Next]_vars

-----------------------------------------------------------------------------
(* Properties *)

Places(d, i) ==
    (IF d.character_inventory[i] = None THEN {} ELSE {<<"inventory", d.character_inventory[i]>>})
    \cup (IF d.auctionhouse[i] = None THEN {} ELSE {<<"auction", i>>})
    \cup (IF d.mail_items[i] = None \/ d.mail[d.mail_items[i]] = None THEN {} ELSE {<<"mail", d.mail_items[i]>>})

(* In the database, at any moment and so after any crash, an item is in one *)
(* place: an inventory, an auction or a mail.  It is neither duplicated nor *)
(* lost, but with a mail that was deleted or could not be returned, and at  *)
(* startup (StartupDelivers), as long as no handler has gone astray: after  *)
(* a stale read the code can put an item in two places.                     *)
OnePlace ==
    \A i \in scenario.items :
        /\ Cardinality(Places(db, i)) <= 1
        /\ i \notin discarded \cup unsent => Places(db, i) # {} /\ i \in db.item_instance

(* The auctions that end while the server is down are settled at startup:   *)
(* the item goes to the winner or back to the owner.                        *)
StartupDelivers == \A i \in unsent \ discarded : Places(db, i) # {}

(* What the queued transactions will have written is what the players see:  *)
(* inventories, auctions, opened mails, and gold but for one deposit, as    *)
(* long as no handler has gone astray.                                      *)
MemoryIsSaved ==
    LET S == Settled IN
    ~astray =>
        /\ up => auctions = S.auctionhouse
        /\ \A i \in Items, p \in online : m_items[i] = p <=> S.character_inventory[i] = p
        /\ \A p \in online : S.money[p] - money[p] \in {0, Deposit}
        /\ \A m \in MailIds : m_mail[m] # None =>
                m_mail[m].row = S.mail[m] /\ m_mail[m].items = Contents(S, m)

(* The gold of purses, mails, bids and deposits *)
Gold(d) ==
    SumFunction(d.money)
    + SumFunction([m \in MailIds |-> IF d.mail[m] = None THEN 0 ELSE d.mail[m].money])
    + SumFunction([i \in Items |-> IF d.auctionhouse[i] = None THEN 0
                                   ELSE d.auctionhouse[i].bid + d.auctionhouse[i].deposit])

NewAuctions(d, e) == {i \in Items : d.auctionhouse[i] = None /\ e.auctionhouse[i] # None}

(* A mail that its sender has not paid: of a game master, or so much money  *)
(* that with the postage the sum wraps.                                     *)
Unpaid(row) ==
    /\ row.sender # None /\ ~row.returned
    /\ row.sender \in scenario.masters \/ row.money + Postage >= Uint32
UnpaidMails(d, e) == {m \in MailIds : d.mail[m] = None /\ e.mail[m] # None /\ Unpaid(e.mail[m])}

(* Every transaction balances: no step makes gold in the database, but a    *)
(* new auction's deposit, which is booked before it is taken, and the money *)
(* of a mail that HandleSendMail lets through unpaid.                       *)
GoldNotMade ==
    [][Gold(db') <= Gold(db) + Deposit * Cardinality(NewAuctions(db, db'))
                             + Uint32 * Cardinality(UnpaidMails(db, db'))]_db

(* An acceptance is for the offers as they stand: while it lasts, neither   *)
(* window changes.                                                          *)
AcceptanceBinds ==
    [][\A p \in Players :
        /\ m_trade[p] # None /\ m_trade[p].accepted
        /\ m_trade'[p] # None /\ m_trade'[p].accepted
        => /\ m_trade'[p].items = m_trade[p].items /\ m_trade'[p].money = m_trade[p].money
           /\ m_trade'[Trader(p)].items = m_trade[Trader(p)].items
           /\ m_trade'[Trader(p)].money = m_trade[Trader(p)].money]_vars

(* A trade that completes is whole: each side gets all that the other had   *)
(* in the window and still has, goods and gold.                             *)
TradeIsWhole ==
    [][\A p \in Players : AcceptCompletes(p) =>
        LET q == Trader(p) IN
        /\ \A i \in Offered(p) : m_items'[i] = q
        /\ \A i \in Offered(q) : m_items'[i] = p
        /\ money'[p] - money[p] = m_trade[q].money - m_trade[p].money
        /\ money'[q] - money[q] = m_trade[p].money - m_trade[q].money]_vars

=============================================================================
