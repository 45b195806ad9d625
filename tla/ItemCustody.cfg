\* Trades, auctions and mail with a database queue of two, one crash.
SPECIFICATION Spec
CONSTANTS
    Players = {p1, p2, p3}
    i1 = i1
    Items = {i1, i2}
    None = None
    TradeSlotCount = 1
    Slots = 1
    MaxMoney = 4
    InitialMoney = 2
    Deposit = 1
    Buyouts = {0, 2}
    Bids = {1, 2}
    Amounts = {0, 1}
    Postage = 1
    Uint32 = 12
    MaxMails = 3
    MaxQueue = 2
    Scenarios <- MCScenarios
    MaxCrashes = 1
SYMMETRY PlayerSymmetry
INVARIANTS TypeOK OnePlace MemoryIsSaved
PROPERTIES GoldNotMade AcceptanceBinds TradeIsWhole
CHECK_DEADLOCK FALSE
