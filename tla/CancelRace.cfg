SPECIFICATION Spec
CONSTANTS
    t1 = t1
    t2 = t2
    BTC = BTC
    Trades = {t1}
    NoTrade = NoTrade
    Coins = {BTC}
    CoinOf <- OneCoin
    TPs = {"tp1"}
    Stops = {"sl1", "sl2"}
    EntrySize = 1
    MaxRetries = 0
    BreakevenAfter = "tp1"
    Gates = {"auto", "confirm"}
    Faults = {}
PROPERTY
    CancelLeavesNoPosition
