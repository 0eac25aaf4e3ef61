CONSTANTS
    CombMaxIter = 8
    LoopMaxIter = 5
    Designs <- MCDesigns
    Pokes = {"L", "H"}
    MaxHeld = 2
    MaxEvents = 3
    None = None
SPECIFICATION Spec
INVARIANTS CombSettled InitialTimeline HierarchyTransparent AsWritten CopyAgrees Repeatable
PROPERTIES ShiftsByOne
CHECK_DEADLOCK FALSE
