----------------------------- MODULE MCSimulation -----------------------------
(* Simulation on a 3 x 2 world: two interchangeable robots, one target and    *)
(* one obstacle, with sites inside the world, shared between kinds, and       *)
(* outside it.                                                                *)
EXTENDS Simulation, TLC

MCRobotSites == {<<0, 0>>, <<2, 1>>}
MCTargetSites == {<<2, 1>>}
MCObstacleSites == {<<1, 1>>, <<0, -1>>, <<3, 0>>}

RobotSymmetry == Permutations(RobotNames)

\* Every robot is as place_robot leaves one, but for its flag.
AsPlaced == \A r \in DOMAIN world.robots :
    /\ <<world.robots[r].x, world.robots[r].y>> \in RobotSites
    /\ world.robots[r].direction = "right"

\* Every step of Next, but those by which a robot would move away or turn before
\* the constructor: each World that can be handed over starts a state space of
\* its own.
MCNext == Next /\ (constructed' \/ AsPlaced')

MCSpec == Init /\ [][MCNext]_vars
=============================================================================
