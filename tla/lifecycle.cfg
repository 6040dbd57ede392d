CONSTANTS
    a1 = a1  a2 = a2
    r1 = r1  r2 = r2  r3 = r3  r4 = r4
    l1 = l1  l2 = l2
    NULL = NULL
    Demo = FALSE
    Ids <- OneAction
    Reqs <- ThreeSlots
    Tools <- BothTools
    Loops <- OneLoop
SPECIFICATION Spec
SYMMETRY SlotSymmetry
PROPERTY LifecycleRefinement
