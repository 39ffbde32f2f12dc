SPECIFICATION Spec
CONSTANTS
    t1 = t1
    t2 = t2
    BTC = BTC
    Trades = {t1}
    NoTrade = NoTrade
    Coins = {BTC}
    CoinOf <- OneCoin
    TPs = {}
    Stops = {"sl1", "sl2"}
    EntrySize = 2
    MaxRetries = 1
    BreakevenAfter = "tp1"
    Gates = {"auto", "confirm", "manual", "tiny"}
    Faults = {"crash", "transport", "read", "refusal", "noid", "drop", "linger"}
INVARIANTS
    TypeOK
    PnlAtMostOnce
    HeldNeverOnVenue
PROPERTIES
    StopKeptDuringMove
    LedgerSpec
