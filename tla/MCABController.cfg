SPECIFICATION FairSpec
CONSTANTS
    Rows = {1, 2}
    QMax = 2
    nBL = 1
    nCCDL = 2
    nRTP = 1
    nCL = 2
    nCWL = 1
    nRCDR = 2
    nRCDW = 1
    nRP = 1
    nRAS = 4
    nRC = 5
    nWR = 2
    nWTRL = 1
    nRFC = 2
    nREFI = 16
    PerCycle = 1
    MaxReqs = 3

INVARIANTS
    TypeOK
    CommandOrder
    RowTableAgrees
    NoUselessActivation
    RefreshKeepsUp
PROPERTIES
    RequestCompletes
