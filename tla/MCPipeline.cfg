CONSTANTS
    Modulus = 256
    Programs = {}
    Candidates <- MCAndHuge
    TickCounts <- MCTickCounts
    Recordings = {TRUE, FALSE}
    MaxTick = 3
    Width = 3
    Height = 2
    RobotNames = {"A", "B"}
    TargetNames = {"T"}
SPECIFICATION PipelineSpec
INVARIANTS
    SuccessIsComplete
    NoInternalError
    TypesAreSound
    StackDrained
    CodeIsWellFormed
