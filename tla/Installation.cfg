SPECIFICATION FairSpec
CONSTANTS
    h1 = h1
    h2 = h2
    lxc1 = lxc1
    Localhost = localhost
    Host <- MCHost
    Container <- MCContainer
    MaxTries <- MCMaxTries
INVARIANTS
    TypeOK
    ReportedAsPlayed
    PrinterAfterOs
    PrinterReaped
    SuccessIsReal
    FailureHasCause
PROPERTIES
    ClientReturns
    KeepsContract
