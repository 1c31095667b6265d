SPECIFICATION FairSpec
CONSTANTS
    h1 = h1
    h2 = h2
    Order <- MCOrder
    Bonds <- MCBonds
    Tries = 2
INVARIANTS
    ResetPrepared
    ResetInOrder
    StatusIsClients
PROPERTIES
    BothEnd
