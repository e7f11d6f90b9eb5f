\* By hand: one input more, safety alone. WritesAreSafe, CloudAgrees and CountIsCommitted do not hold.
SPECIFICATION Spec
CONSTANTS
    EarlyEvents = FALSE
    MaxInputs = 5
    Ieee = {a, b}
    Slots <- MCSlots
    Sdk <- MCSdk
    Api = {api}
    Hap = hap
    Restore = restore
    Vals = {off, on}
    QueueCap = 2
    MaxBoots = 1
    WriteTasks = {"queue", "own"}
    Nil = Nil
INVARIANTS TypeOK NoDangling ThrottleKeyHolds Serving
CHECK_DEADLOCK FALSE
SYMMETRY MCSymmetry
