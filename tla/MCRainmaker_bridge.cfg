SPECIFICATION FairSpec
CONSTANTS
    EarlyEvents = FALSE
    MaxInputs = 4
    Ieee = {a, b}
    Slots <- MCSlots
    Sdk <- MCSdk
    Api = {api}
    Hap = hap
    Restore = restore
    Vals = {off, on}
    QueueCap = 2
    MaxBoots = 1
    WriteTasks = {"queue", "own"}
    Nil = Nil
INVARIANTS NoDangling ThrottleKeyHolds Serving
PROPERTY ReservationsEnd
CHECK_DEADLOCK FALSE
