SPECIFICATION Spec
CONSTANTS
    Options <- MCOptions
    MaxRuns = 1
INVARIANT MachineFileGiven
