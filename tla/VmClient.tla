-------------------------------- MODULE VmClient --------------------------------
(***************************************************************************)
(* The machine as the host of a Simulation: what src/vm/vm.cpp does to the *)
(* Simulation it creates, seen as the operations of Simulation.tla.        *)
(***************************************************************************)
EXTENDS Vm

CONSTANTS
    Width, Height,  \* the dimensions of the world
    RobotNames, TargetNames,
    MaxTick         \* the largest of TickCounts

ASSUME BoundAssumption == MaxTick \in Nat /\ \A n \in TickCounts : n <= MaxTick

ASSUME DimensionsAssumption == Width \in Nat \ {0} /\ Height \in Nat \ {0}

ASSUME EntityNamesAssumption == NoLabel \notin RobotNames \cup TargetNames

\* The code declares a world of these dimensions, with robots and targets of these
\* names.
Declares(p) ==
    /\ At(p, 0).a = Width /\ At(p, 0).b = Height
    /\ \A i \in 1 .. LoopStart(p) - 1 :
          /\ At(p, i).opcode = "CreateRobot" => Text(p, At(p, i).a) \in RobotNames
          /\ At(p, i).opcode = "CreateTarget" => Text(p, At(p, i).a) \in TargetNames

\* Placements are tried anywhere inside the world.
Sites == (0 .. Width - 1) \X (0 .. Height - 1)

\* The Simulation exists before the machine creates it, as the host's own World.
World0 == IF created THEN world ELSE NewWorld(Width, Height)

Client == INSTANCE Simulation WITH
    world <- World0,
    initial_world <- IF created THEN initial_world ELSE World0,
    constructed <- created,
    failed <- {r \in DOMAIN World0.robots : collision(World0, r)},
    initially_failed <- {},  \* the machine hands over a World without robots
    RobotSites <- Sites, TargetSites <- Sites, ObstacleSites <- Sites

\* The machine is a legal client of the Simulation it drives: each of its steps
\* is one operation of the Simulation or none, even those of a behaviour that
\* was optimized away or stopped halfway.
DrivesSimulation == Client!Init /\ [][Client!Next]_(Client!vars)
=============================================================================
