SPECIFICATION Spec
CONSTANTS
    compute1 = compute1
    controller1 = controller1
    controller2 = controller2
    Compute <- MCCompute
    Controller <- MCController
    MaxRetryTimes = 2
    SshTries = 3
    ComputeProbes = 5
    ControllerProbes = 4
SYMMETRY ControllerSymmetry
INVARIANTS
    FailureIsReal
