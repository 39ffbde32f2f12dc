SPECIFICATION Spec
CONSTANTS
    TPs <- OneTp
    EntrySize = 2
    MaxStops = 3
    BreakevenAfter = "tp1"
    Faults = {"refusal"}
PROPERTY
    CanceledIsGone
