SPECIFICATION Spec
CONSTANTS
    h1 = h1
    h2 = h2
    m1 = m1
    m2 = m2
    Name <- MCName
    Mac <- MCMac
    Proxy = TRUE
    MaxRuns = 2
SYMMETRY HostSymmetry
INVARIANTS
    AcceptedIsWatched
