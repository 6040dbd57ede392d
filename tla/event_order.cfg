\* An approval racing a start on a seeded pending action: the order of
\* the events get_events returns.
CONSTANTS
    a1 = a1  a2 = a2
    r1 = r1  r2 = r2  r3 = r3  r4 = r4
    l1 = l1  l2 = l2
    NULL = NULL
    Demo = TRUE
    Ids <- OneAction
    Reqs <- ThreeSlots
    Tools <- BothTools
    Loops <- OneLoop
SPECIFICATION Spec
SYMMETRY SlotSymmetry
INVARIANT EventsInLifecycleOrder
