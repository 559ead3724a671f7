CONSTANTS
    MULT_STAGES = 1
    ADD_STAGES = 1
    CRF_ENTRIES = 2
    RF_ENTRIES = 2
    DQ_CLK = 4
    Programs <- ReluPrograms
    RFWrites <- NoWrites
    CRFWrites <- NoWrites
    Accesses <- ReluAccesses
    AAMs <- SomeAAMs
    MinGap <- ControllerGap
    MaxCmds = 2
SPECIFICATION Spec
PROPERTY ImplementsISA
