SPECIFICATION Spec
CONSTANTS
    t1 = t1
    t2 = t2
    t3 = t3
    Trades = {t1, t2, t3}
    NoPort = NoPort
    Cap = 12
    MinOrder = 5
    TestnetFloor = 8
    MaxOpen = 2
    MaxDailyLoss = 30
    MaxExposure = 15
    ConfirmAbove = 9
    LotUsd = 2
    MinLots = 4
    Split <- EvenSplit
    Combos <- AllCombos
    Amounts = {35}
    Wallets = {20, 100}
    Pcts = {20}
    Pnls <- Results
    Faults = {"venue", "store"}
SYMMETRY
    TradeSymmetry
INVARIANTS
    TypeOK
    LimitsHold
    NotionalBounded
PROPERTY
    FloorKept
