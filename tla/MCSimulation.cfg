SPECIFICATION MCSpec
CONSTANTS
    r1 = r1
    r2 = r2
    Width = 3
    Height = 2
    RobotNames = {r1, r2}
    TargetNames = {"t"}
    RobotSites <- MCRobotSites
    TargetSites <- MCTargetSites
    ObstacleSites <- MCObstacleSites
    MaxTick = 1
SYMMETRY RobotSymmetry
INVARIANTS
    TypeOK
    WorldConsistent
    NoSharedCell
    FlagsTellFailedMoves
    AheadPredictsForward
    TowardApproaches
PROPERTIES
    OneRobotOneCell
    ObstaclesStatic
