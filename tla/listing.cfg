\* Paging through all actions while others are submitted and approved.
CONSTANTS
    i1 = i1  i2 = i2  i3 = i3  i4 = i4
    NULL = NULL
    Ids <- FourIds
    Limit = 2
    Filters = {"any"}
SPECIFICATION Spec
SYMMETRY IdSymmetry
INVARIANT TypeOK
INVARIANT ScanComplete
