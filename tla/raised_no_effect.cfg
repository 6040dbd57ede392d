\* A start or an approval whose response is lost is retried and rejected.
CONSTANTS
    i1 = i1  i2 = i2  i3 = i3  i4 = i4
    NULL = NULL
    Ids <- FourIds
    MaxRetries = 3
    MaxPolls = 2
SPECIFICATION Spec
SYMMETRY IdSymmetry
PROPERTY RaisedMeansNoEffect
