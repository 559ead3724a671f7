SPECIFICATION FairSpec
CONSTANTS
    P = 2
    THRESHOLD = 12
    BACKUP = 5
    DQ_CLK = 2
    DRAIN = 5
    StartTick = 13
    Gaps <- PacedGaps
    CmdGap = 2
    GrfGap = 4
    WrGap = 4
    MaxCmds = 1

PROPERTIES
    ExitEndsChild
