SPECIFICATION FairSpec
CONSTANTS
    t1 = t1
    t2 = t2
    BTC = BTC
    Trades = {t1}
    NoTrade = NoTrade
    Coins = {BTC}
    CoinOf <- OneCoin
    TPs = {"tp1", "tp2"}
    Stops = {"sl1", "sl2", "sl3"}
    EntrySize = 3
    MaxRetries = 0
    BreakevenAfter = "tp1"
    Gates = {"auto", "confirm"}
    Faults = {"read", "drop", "linger", "pause"}
INVARIANT
    LivePositionCovered
PROPERTY
    HollowReconciled
