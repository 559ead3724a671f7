SPECIFICATION Spec
CONSTANTS
    Rows = {1, 2}
    QMax = 2
    nBL = 2
    nCCDL = 3
    nRTP = 7
    nCL = 5
    nCWL = 3
    nRCDR = 5
    nRCDW = 4
    nRP = 5
    nRAS = 11
    nRC = 15
    nWR = 5
    nWTRL = 4
    nRFC = 79
    nREFI = 390
    PerCycle = 2
    MaxReqs = 2

INVARIANTS
    CommandOrder
