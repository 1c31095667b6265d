SPECIFICATION FairSpec
CONSTANTS
    iso = iso
    tgz = tgz
    m1 = m1
    m2 = m2
    Packages <- MCPackages
    Mirrors <- MCMirrors
    Release = {r1, r2}
    MaxBuilds = 3
INVARIANT KeptIsCurrent
INVARIANT TarIsWhole
PROPERTY TarIsCurrent
PROPERTY OldTarKept
PROPERTY BuildEnds
