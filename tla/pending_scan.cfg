\* Paging through the pending approvals while others are approved.
CONSTANTS
    i1 = i1  i2 = i2  i3 = i3  i4 = i4
    NULL = NULL
    Ids <- FourIds
    Limit = 2
    Filters = {"pending_approval"}
SPECIFICATION Spec
SYMMETRY IdSymmetry
INVARIANT ScanComplete
