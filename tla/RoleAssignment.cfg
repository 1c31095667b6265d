SPECIFICATION Spec
CONSTANTS
    h1 = h1
    h2 = h2
    h3 = h3
    controller = controller
    compute = compute
    ceph = ceph
    NoRole = NoRole
    Host <- MCHost
    Role <- MCRole
    Required <- MCRequired
SYMMETRY HostSymmetry
INVARIANTS
    AssignedIsHeld
    RequiredCovered
PROPERTY WrittenOnce
