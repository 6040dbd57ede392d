\* A submit whose response is lost is retried.
CONSTANTS
    i1 = i1  i2 = i2  i3 = i3  i4 = i4
    NULL = NULL
    Ids <- FourIds
    MaxRetries = 3
    MaxPolls = 2
SPECIFICATION Spec
SYMMETRY IdSymmetry
INVARIANT SubmitCreatesOne
