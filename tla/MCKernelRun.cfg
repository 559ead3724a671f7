CONSTANTS
    MULT_STAGES = 1
    ADD_STAGES = 1
    CRF_ENTRIES = 32
    RF_ENTRIES = 8
    DQ_CLK = 4
    IMM1_BITS = 2
    MaxKernels = 2
    Kernels <- SomeKernels
SPECIFICATION Spec
INVARIANTS TypeOK Lockstep Home EveryTermOnce StartedWellFormed

CHECK_DEADLOCK FALSE
