SPECIFICATION Spec
CONSTANTS
    t1 = t1
    t2 = t2
    BTC = BTC
    Trades = {t1, t2}
    NoTrade = NoTrade
    Coins = {BTC}
    CoinOf <- OneCoin
    TPs = {}
    Stops = {"sl1"}
    EntrySize = 1
    MaxRetries = 0
    BreakevenAfter = "none"
    Gates = {"auto", "confirm"}
    Faults = {"crash"}
PROPERTY
    NeverResurrected
