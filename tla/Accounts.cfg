SPECIFICATION Spec
CONSTANTS
    u1 = u1
    k1 = k1
    k2 = k2
    Users = {u1}
    Combos <- HyperliquidOnly
    Keys = {k1}
    NoKey = NoKey
    Caps = {100, 500}
    Faults = {"crash", "start", "store", "venue"}
INVARIANTS
    TypeOK
    PointerHasKeys
    ClientIsActive
    LimitIsCurrent
