------------------------------ MODULE Simulation ------------------------------
(***************************************************************************)
(* src/runtime/simulation.cpp: a world that its host (the VM, the          *)
(* reference runner, a test) builds, hands to a Simulation and then drives *)
(* through world(), begin_tick, end_tick, tick and reset.  The host is     *)
(* arbitrary: it may call any public operation at any time, with any of    *)
(* the names and coordinates of the constants.  Those of its World it may  *)
(* call before it hands the World over, too, so that the World may come    *)
(* with robots that have moved, turned and collided.                       *)
(***************************************************************************)
EXTENDS World

CONSTANTS
    Width, Height,     \* the dimensions of the world
    RobotNames,        \* the names the host may give to robots
    TargetNames,       \* the names the host may give to targets
    RobotSites,        \* the coordinates the host tries for robots,
    TargetSites,       \* for targets
    ObstacleSites,     \* and for obstacles; some may be out of bounds
    MaxTick            \* bound on tick_

ASSUME SizeAssumption == Width \in Nat \ {0} /\ Height \in Nat \ {0}

ASSUME NamesAssumption == NoLabel \notin RobotNames \cup TargetNames

ASSUME SitesAssumption == /\ RobotSites \subseteq Int \X Int
                          /\ TargetSites \subseteq Int \X Int
                          /\ ObstacleSites \subseteq Int \X Int

ASSUME MaxTickAssumption == MaxTick \in Nat

VARIABLES
    world,          \* world_ (before the constructor, the host's own World)
    initial_world,  \* initial_world_; an empty world until the constructor runs
    tick,           \* tick_
    constructed,    \* has the Simulation been constructed?
    failed,         \* history of world: robots with a failed move since its flags
                    \* were last cleared
    initially_failed \* history of initial_world: failed when it was copied

histories == <<failed, initially_failed>>

vars == <<world, initial_world, tick, constructed, failed, initially_failed>>

Names == RobotNames \cup TargetNames

Init ==
    /\ world = NewWorld(Width, Height)
    /\ initial_world = world
    /\ tick = 0
    /\ constructed = FALSE
    /\ failed = {}
    /\ initially_failed = {}

-----------------------------------------------------------------------------
(* The operations of the World: before the constructor the host calls them  *)
(* on its own World, after it through the world() accessor.                 *)

Place(result) ==
    /\ world' = result.world
    /\ UNCHANGED <<initial_world, tick, constructed, histories>>

PlaceRobot == \E name \in RobotNames, site \in RobotSites :
    Place(place_robot(world, name, site[1], site[2]))

PlaceTarget == \E name \in TargetNames, site \in TargetSites :
    Place(place_target(world, name, site[1], site[2]))

PlaceObstacle == \E site \in ObstacleSites :
    Place(place_obstacle(world, site[1], site[2]))

\* attempted: both the robot and the target of the request are known.  A
\* request that names an unknown one returns false and changes nothing.
Move(name, attempted, result) ==
    /\ world' = result.world
    /\ failed' = IF attempted /\ ~result.ok THEN failed \cup {name} ELSE failed
    /\ UNCHANGED <<initial_world, tick, constructed, initially_failed>>

Placed(name) == name \in DOMAIN world.robots

MoveUp == \E name \in RobotNames :
    Move(name, Placed(name), move_up(world, name))
MoveDown == \E name \in RobotNames :
    Move(name, Placed(name), move_down(world, name))
MoveLeft == \E name \in RobotNames :
    Move(name, Placed(name), move_left(world, name))
MoveRight == \E name \in RobotNames :
    Move(name, Placed(name), move_right(world, name))
MoveForward == \E name \in RobotNames :
    Move(name, Placed(name), move_forward(world, name))
MoveToward == \E name \in RobotNames, target_name \in TargetNames :
    Move(name, Placed(name) /\ target_name \in DOMAIN world.targets,
         move_toward(world, name, target_name))

Turn(turned) ==
    /\ world' = turned
    /\ UNCHANGED <<initial_world, tick, constructed, histories>>

TurnLeft == \E name \in RobotNames : Turn(turn_robot_left(world, name))
TurnRight == \E name \in RobotNames : Turn(turn_robot_right(world, name))

\* clear_collision_flags, whoever calls it: the host or begin_tick.
ClearFlags ==
    /\ world' = clear_collision_flags(world)
    /\ failed' = {}
    /\ UNCHANGED <<initial_world, tick, constructed, initially_failed>>

-----------------------------------------------------------------------------
(* The Simulation's own operations.                                         *)

\* The World is copied into both fields, with the flags it has.
Construct ==
    /\ ~constructed
    /\ initial_world' = world
    /\ initially_failed' = failed
    /\ constructed' = TRUE
    /\ UNCHANGED <<world, tick, failed>>

BeginTick == constructed /\ ClearFlags

EndTick ==
    /\ constructed
    /\ tick < MaxTick
    /\ tick' = tick + 1
    /\ UNCHANGED <<world, initial_world, constructed, histories>>

\* Mutant of Tick: ends the tick twice.
TickEndsTwice ==
    /\ constructed
    /\ tick < MaxTick
    /\ world' = clear_collision_flags(world)
    /\ tick' = tick + 2
    /\ failed' = {}
    /\ UNCHANGED <<initial_world, constructed, initially_failed>>

Tick ==
    /\ constructed
    /\ tick < MaxTick
    /\ world' = clear_collision_flags(world)
    /\ tick' = tick + 1
    /\ failed' = {}
    /\ UNCHANGED <<initial_world, constructed, initially_failed>>

\* The copy comes back as it was, flags included: they tell of the requests
\* that had failed when it was made.
Reset ==
    /\ constructed
    /\ world' = initial_world
    /\ tick' = 0
    /\ failed' = initially_failed
    /\ UNCHANGED <<initial_world, constructed, initially_failed>>

Next ==
    \/ PlaceRobot \/ PlaceTarget \/ PlaceObstacle \/ Construct
    \/ MoveUp \/ MoveDown \/ MoveLeft \/ MoveRight \/ MoveForward \/ MoveToward
    \/ TurnLeft \/ TurnRight \/ ClearFlags
    \/ BeginTick \/ EndTick \/ Tick \/ Reset

Spec == Init /\ [][Next]_vars

-----------------------------------------------------------------------------
(* Properties.                                                              *)

\* Every variable has its type; both worlds are worlds of the declared size.
TypeOK ==
    /\ IsWorld(world, Names)
    /\ IsWorld(initial_world, Names)
    /\ world.width = Width /\ world.height = Height
    /\ initial_world.width = Width /\ initial_world.height = Height
    /\ tick \in 0 .. MaxTick
    /\ constructed \in BOOLEAN
    /\ failed \subseteq RobotNames
    /\ initially_failed \subseteq RobotNames

\* The robot list and the grid, which try_move_robot updates separately, always
\* agree: each robot stands inside the world on a cell with its own name, and
\* no cell names a robot or a target that is elsewhere.
WorldConsistent == Consistent(world) /\ Consistent(initial_world)

\* Two robots never stand on one cell, whatever moves and resets came before.
NoSharedCell ==
    \A r, s \in DOMAIN world.robots :
        r # s => \/ world.robots[r].x # world.robots[s].x
                 \/ world.robots[r].y # world.robots[s].y

FlagsTell(w, requests) == \A r \in DOMAIN w.robots : collision(w, r) <=> r \in requests

\* A robot's collision flag is set exactly when one of its movement requests
\* failed since the flags were last cleared (semantics.md, section 4): a later
\* success or turn, or another robot's failure, neither clears nor sets it.  This
\* holds of the world and of the copy in the past of each: reset() also undoes
\* the clearing, and brings back the flags the World had when it was handed over.
FlagsTellFailedMoves ==
    /\ FlagsTell(world, failed)
    /\ FlagsTell(initial_world, initially_failed)

\* obstacle_ahead is a sound guard for move_forward: when it is true the move
\* fails, and when it is false the move can only fail because of a robot.
AheadPredictsForward ==
    \A r \in DOMAIN world.robots :
        LET delta == direction_delta(world.robots[r].direction)
            ahead == <<world.robots[r].x + delta.x, world.robots[r].y + delta.y>>
        IN  ~move_forward(world, r).ok
                <=> \/ obstacle_ahead(world, r)
                    \/ world.grid[ahead].kind = "robot"

\* move_toward really approaches: a step that succeeds brings the robot exactly
\* one cell closer to the target, one that fails leaves the distance alone.
TowardApproaches ==
    \A r \in DOMAIN world.robots, t \in DOMAIN world.targets :
        LET result == move_toward(world, r, t)
        IN  distance_to(result.world, r, t)
                = distance_to(world, r, t) - (IF result.ok THEN 1 ELSE 0)

MovesOneRobotOneCell ==
    LET Shift(n) == abs(world'.robots[n].x - world.robots[n].x)
                    + abs(world'.robots[n].y - world.robots[n].y)
    IN  /\ DOMAIN world.robots \subseteq DOMAIN world'.robots
        /\ \A r, s \in DOMAIN world.robots :
              /\ Shift(r) <= 1
              /\ r # s => Shift(r) = 0 \/ Shift(s) = 0

\* A step moves at most one robot, and by one cell; only reset() moves robots
\* otherwise (it can also take away robots placed after the constructor).
OneRobotOneCell == [][Reset \/ MovesOneRobotOneCell]_vars

KeepsObstacles ==
    \/ Obstacles(world') = Obstacles(world)
    \/ PlaceObstacle /\ Obstacles(world) \subseteq Obstacles(world')
    \/ Reset /\ Obstacles(world') = Obstacles(initial_world)

\* Obstacles are static (semantics.md, section 6): no movement, turn or tick
\* removes, adds or relabels one; only placements add and only reset() removes.
ObstaclesStatic == [][KeepsObstacles]_vars
=============================================================================
