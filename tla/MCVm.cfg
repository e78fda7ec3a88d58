CONSTANTS
    Modulus = 16
    Programs <- MCPrograms
    TickCounts <- MCTickCounts
    Recordings = {TRUE, FALSE}
SPECIFICATION Spec
INVARIANTS
    TypeOK
    WorldSound
    SuccessHasSimulation
    FramesInOrder
    ExactTicks
