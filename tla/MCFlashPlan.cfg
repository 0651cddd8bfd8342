SPECIFICATION Spec
CONSTANTS
    U32 = 4096
    BlockSize = 512
    Defaults <- AN7581
    Overrides <- MCOverrides
    Sizes <- MCSizes
INVARIANTS
    WriteIsExact
    DoctorAgreesWithFlash
CHECK_DEADLOCK FALSE
