SPECIFICATION Spec
CONSTANTS
    Options <- MCOptions
    MaxRuns = 3
INVARIANT SuccessIsDeployed
INVARIANT HarmIsChecked
INVARIANT SourcesKept
INVARIANT AddressKept
PROPERTY ExpansionKeeps
