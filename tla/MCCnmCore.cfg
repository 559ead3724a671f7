CONSTANTS
    MULT_STAGES = 1
    ADD_STAGES = 1
    CRF_ENTRIES = 2
    RF_ENTRIES = 2
    DQ_CLK = 4
    Programs <- AllPrograms
    RFWrites <- SomeRFWrites
    CRFWrites <- SomeCRFWrites
    Accesses <- AllAccesses
    AAMs <- SomeAAMs
    MinGap <- SafeGap
    MaxCmds = 3
SPECIFICATION Spec
INVARIANTS TypeOK SerialInStep
PROPERTY ImplementsISA
