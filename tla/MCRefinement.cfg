CONSTANTS
    Modulus = 256
    Programs = {}
    Candidates <- MCCandidates
    TickCounts <- MCTickCounts
    Recordings = {TRUE}
    MaxTick = 3
    Width = 3
    Height = 2
    RobotNames = {"A", "B"}
    TargetNames = {"T"}
SPECIFICATION PipelineSpec
PROPERTIES
    FramesAsSpecified
    DrivesSimulation
    EveryRunEnds
