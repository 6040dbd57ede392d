\* One submit_and_wait call and one approval under every loss, 5xx and
\* timeout of their requests; the default max_retries of 3 is lowered to 2 so
\* that the liveness check runs without symmetry.
CONSTANTS
    i1 = i1  i2 = i2  i3 = i3  i4 = i4
    NULL = NULL
    Ids <- ThreeIds
    MaxRetries = 2
    MaxPolls = 2
SPECIFICATION FairSpec
INVARIANT TypeOK
PROPERTY CallsReturn
