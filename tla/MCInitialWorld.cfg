CONSTANTS
    Modulus = 256
    Programs = {}
    Candidates <- MCCandidates
    TickCounts = {1}
    Recordings = {TRUE}
    MaxTick = 1
    Width = 2
    Height = 1
    RobotNames = {"A"}
    TargetNames = {"T"}
SPECIFICATION PipelineSpec
INVARIANT InitialWorldIsDeclared
