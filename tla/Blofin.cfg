SPECIFICATION Spec
CONSTANTS
    TPs <- OneTp
    EntrySize = 2
    MaxStops = 3
    BreakevenAfter = "tp1"
    Faults = {"crash", "transport", "refusal", "noid"}
INVARIANTS
    TypeOK
    ClientIdFree
    EntryOnce
PROPERTIES
    StopKept
    SyncKeepsResting
