--------------------------- MODULE Simulation_proofs ---------------------------
(***************************************************************************)
(* Theorems about Simulation for every size, every set of names and every  *)
(* set of sites.  WorldConsistent with TypeOK is inductive: every          *)
(* operation of the world keeps it (World_proofs), and reset() only brings *)
(* back a world for which it held when the constructor copied it.  The     *)
(* flags need an invariant of their own: Flags says of the world and of    *)
(* the copy that their flags tell of the failed requests in their past, so *)
(* that it still holds when reset() brings back those of the copy.         *)
(***************************************************************************)
EXTENDS Simulation, World_proofs

Inv == TypeOK /\ WorldConsistent

LEMMA InitInv == Init => Inv
<1>1. /\ IsWorld(NewWorld(Width, Height), Names)
      /\ Consistent(NewWorld(Width, Height))
      /\ NewWorld(Width, Height).width = Width
      /\ NewWorld(Width, Height).height = Height
    BY SizeAssumption, NewWorldGood
<1>2. 0 \in 0 .. MaxTick
    BY MaxTickAssumption
<1>3. ASSUME Init PROVE world = NewWorld(Width, Height) /\ initial_world = world
                       /\ tick = 0 /\ constructed = FALSE
                       /\ failed = {} /\ initially_failed = {}
    BY <1>3 DEF Init
<1> QED BY <1>1, <1>2, <1>3 DEF Inv, TypeOK, WorldConsistent

\* Replacing world by what an operation makes of it keeps the invariant.
LEMMA WorldStep ==
    ASSUME Inv, Good(world, world', Names), 
           initial_world' \in {initial_world, world, world'},
           tick' \in 0 .. MaxTick, constructed' \in BOOLEAN,
           failed' \subseteq RobotNames, initially_failed' \subseteq RobotNames
    PROVE  Inv'
BY DEF Inv, TypeOK, WorldConsistent, Good

LEMMA NextInv == Inv /\ [Next]_vars => Inv'
<1> SUFFICES ASSUME Inv, [Next]_vars PROVE Inv'
    OBVIOUS
<1> USE DEF Inv
<1>0. /\ IsWorld(world, Names) /\ Consistent(world)
      /\ tick \in 0 .. MaxTick /\ constructed \in BOOLEAN
      /\ failed \subseteq RobotNames /\ initially_failed \subseteq RobotNames
      /\ RobotNames \subseteq Names
      /\ TargetNames \subseteq Names
    BY DEF TypeOK, WorldConsistent, Names
<1>1. CASE PlaceRobot
    <2> PICK name \in RobotNames, site \in RobotSites :
            Place(place_robot(world, name, site[1], site[2]))
        BY <1>1 DEF PlaceRobot
    <2>1. site[1] \in Int /\ site[2] \in Int
        BY SitesAssumption
    <2>2. Good(world, world', Names)
        BY <1>0, <2>1, PlaceRobotGood DEF Place
    <2> QED BY <1>0, <2>2, WorldStep DEF Place, histories
<1>2. CASE PlaceTarget
    <2> PICK name \in TargetNames, site \in TargetSites :
            Place(place_target(world, name, site[1], site[2]))
        BY <1>2 DEF PlaceTarget
    <2>1. site[1] \in Int /\ site[2] \in Int
        BY SitesAssumption
    <2>2. Good(world, world', Names)
        BY <1>0, <2>1, PlaceTargetGood DEF Place
    <2> QED BY <1>0, <2>2, WorldStep DEF Place, histories
<1>3. CASE PlaceObstacle
    <2> PICK site \in ObstacleSites : Place(place_obstacle(world, site[1], site[2]))
        BY <1>3 DEF PlaceObstacle
    <2>1. site[1] \in Int /\ site[2] \in Int
        BY SitesAssumption
    <2>2. Good(world, world', Names)
        BY <1>0, <2>1, PlaceObstacleGood DEF Place
    <2> QED BY <1>0, <2>2, WorldStep DEF Place, histories
<1>4. CASE Construct
    BY <1>4 DEF Construct, TypeOK, WorldConsistent
<1>5. ASSUME NEW name \in RobotNames, NEW attempted, NEW result,
             Move(name, attempted, result), Good(world, result.world, Names)
      PROVE  Inv'
    BY <1>0, <1>5, WorldStep DEF Move
<1>6. CASE MoveUp
    BY <1>0, <1>5, <1>6, MoveGood DEF MoveUp
<1>7. CASE MoveDown
    BY <1>0, <1>5, <1>7, MoveGood DEF MoveDown
<1>8. CASE MoveLeft
    BY <1>0, <1>5, <1>8, MoveGood DEF MoveLeft
<1>9. CASE MoveRight
    BY <1>0, <1>5, <1>9, MoveGood DEF MoveRight
<1>10. CASE MoveForward
    BY <1>0, <1>5, <1>10, MoveGood DEF MoveForward
<1>11. CASE MoveToward
    BY <1>0, <1>5, <1>11, MoveGood DEF MoveToward
<1>12. CASE TurnLeft \/ TurnRight
    BY <1>0, <1>12, TurnGood, WorldStep DEF TurnLeft, TurnRight, Turn, histories
<1>13. CASE ClearFlags \/ BeginTick
    BY <1>0, <1>13, ClearFlagsGood, WorldStep DEF BeginTick, ClearFlags
<1>14. CASE EndTick
    BY <1>14, MaxTickAssumption DEF EndTick, TypeOK, WorldConsistent, histories
<1>15. CASE Tick
    <2>1. tick' \in 0 .. MaxTick
        BY <1>0, <1>15, MaxTickAssumption DEF Tick
    <2> QED BY <1>0, <1>15, <2>1, ClearFlagsGood, WorldStep DEF Tick
<1>16. CASE Reset
    BY <1>16, MaxTickAssumption DEF Reset, TypeOK, WorldConsistent
<1>17. CASE UNCHANGED vars
    BY <1>17 DEF vars, TypeOK, WorldConsistent
<1> QED BY <1>1, <1>2, <1>3, <1>4, <1>6, <1>7, <1>8, <1>9, <1>10, <1>11,
           <1>12, <1>13, <1>14, <1>15, <1>16, <1>17 DEF Next

LEMMA Invariant == Spec => []Inv
BY InitInv, NextInv, PTL DEF Spec

\* Every variable keeps its type: in particular no sequence of operations makes
\* the world lose its size or its grid a cell.
THEOREM TypeCorrect == Spec => []TypeOK
BY Invariant, PTL DEF Inv

\* The robot list and the grid never disagree, in the world and in the copy
\* that reset() restores.
THEOREM GridAgrees == Spec => []WorldConsistent
BY Invariant, PTL DEF Inv

\* Two robots never share a cell: their cells carry different names.
THEOREM Exclusion == Spec => []NoSharedCell
<1>1. Inv => NoSharedCell
    <2> SUFFICES ASSUME Inv, NEW r \in DOMAIN world.robots,
                        NEW s \in DOMAIN world.robots, r # s,
                        world.robots[r].x = world.robots[s].x,
                        world.robots[r].y = world.robots[s].y
                 PROVE  FALSE
        BY DEF NoSharedCell
    <2>1. /\ world.grid[<<world.robots[r].x, world.robots[r].y>>].label = r
          /\ world.grid[<<world.robots[s].x, world.robots[s].y>>].label = s
        BY RobotCell DEF Inv, TypeOK, WorldConsistent
    <2> QED BY <2>1
<1> QED BY <1>1, Invariant, PTL

-----------------------------------------------------------------------------
(* The steps of the host, by what they do.                                  *)

Places ==
    /\ Placement(world, world')
    /\ Obstacles(world') = Obstacles(world) \/ PlaceObstacle
    /\ UNCHANGED <<initial_world, failed, initially_failed>>

Constructs ==
    /\ initial_world' = world /\ initially_failed' = failed
    /\ UNCHANGED <<world, failed>>

Requests ==
    \E name, blocked :
        /\ Effect(world, world', name, blocked)
        /\ blocked => name \in DOMAIN world.robots
        /\ failed' = IF blocked THEN failed \cup {name} ELSE failed
        /\ UNCHANGED <<initial_world, initially_failed>>

Turns ==
    /\ SamePlaces(world, world')
    /\ \A r \in DOMAIN world.robots :
          world'.robots[r].collision_flag = world.robots[r].collision_flag
    /\ UNCHANGED <<initial_world, failed, initially_failed>>

Clears ==
    /\ SamePlaces(world, world')
    /\ \A r \in DOMAIN world.robots : world'.robots[r].collision_flag = FALSE
    /\ failed' = {}
    /\ UNCHANGED <<initial_world, initially_failed>>

Rests == UNCHANGED <<world, initial_world, failed, initially_failed>>

LEMMA StepProperties ==
    ASSUME Inv, [Next]_vars
    PROVE  Places \/ Constructs \/ Requests \/ Turns \/ Clears \/ Reset \/ Rests
<1>0. IsWorld(world, Names) /\ Consistent(world)
    BY DEF Inv, TypeOK, WorldConsistent
<1>1. CASE PlaceRobot
    <2>1. PICK name \in RobotNames, site \in RobotSites :
             Place(place_robot(world, name, site[1], site[2]))
        BY <1>1 DEF PlaceRobot
    <2>2. site[1] \in Int /\ site[2] \in Int
        BY SitesAssumption
    <2> QED BY <1>0, <2>1, <2>2, PlacementEffect DEF Place, Places, histories
<1>2. CASE PlaceTarget
    <2>1. PICK name \in TargetNames, site \in TargetSites :
             Place(place_target(world, name, site[1], site[2]))
        BY <1>2 DEF PlaceTarget
    <2>2. site[1] \in Int /\ site[2] \in Int
        BY SitesAssumption
    <2> QED BY <1>0, <2>1, <2>2, PlacementEffect DEF Place, Places, histories
<1>3. CASE PlaceObstacle
    <2>1. PICK site \in ObstacleSites : Place(place_obstacle(world, site[1], site[2]))
        BY <1>3 DEF PlaceObstacle
    <2>2. site[1] \in Int /\ site[2] \in Int
        BY SitesAssumption
    <2> QED BY <1>0, <1>3, <2>1, <2>2, PlacementEffect DEF Place, Places, histories
<1>4. CASE Construct
    BY <1>4 DEF Construct, Constructs
<1>5. ASSUME NEW name \in RobotNames, NEW result, Move(name, FALSE, result),
             result = Failed(world)
      PROVE  Requests
    <2>1. world' = world /\ failed' = failed
        BY <1>5 DEF Move, Failed
    <2>2. Effect(world, world', name, FALSE)
        BY <1>0, <2>1, NothingMoves
    <2> QED BY <1>5, <2>1, <2>2 DEF Move, Requests
<1>6. ASSUME NEW name \in RobotNames, NEW result, Move(name, TRUE, result),
             Requested(world, name, result), name \in DOMAIN world.robots
      PROVE  Requests
    <2>1. /\ Effect(world, world', name, ~result.ok)
          /\ failed' = IF ~result.ok THEN failed \cup {name} ELSE failed
        BY <1>6 DEF Move, Requested
    <2> QED BY <1>6, <2>1 DEF Move, Requests
<1>7. CASE MoveUp \/ MoveDown \/ MoveLeft \/ MoveRight \/ MoveForward
    <2>1. PICK name \in RobotNames :
             \E result \in {move_up(world, name), move_down(world, name),
                            move_left(world, name), move_right(world, name),
                            move_forward(world, name)} : Move(name, Placed(name), result)
        BY <1>7 DEF MoveUp, MoveDown, MoveLeft, MoveRight, MoveForward
    <2> PICK result \in {move_up(world, name), move_down(world, name),
                         move_left(world, name), move_right(world, name),
                         move_forward(world, name)} : Move(name, Placed(name), result)
        BY <2>1
    <2>2. IF name \in DOMAIN world.robots THEN Requested(world, name, result)
          ELSE result = Failed(world)
        BY <1>0, MoveEffect
    <2>3. CASE name \in DOMAIN world.robots
        <3>1. Move(name, TRUE, result)
            BY <2>1, <2>3 DEF Move, Placed
        <3> QED BY <1>6, <2>2, <2>3, <3>1
    <2>4. CASE name \notin DOMAIN world.robots
        <3>1. Move(name, FALSE, result)
            BY <2>1, <2>4 DEF Move, Placed
        <3> QED BY <1>5, <2>2, <2>4, <3>1
    <2> QED BY <2>3, <2>4
<1>8. CASE MoveToward
    <2>1. PICK name \in RobotNames, t \in TargetNames :
             Move(name, Placed(name) /\ t \in DOMAIN world.targets, move_toward(world, name, t))
        BY <1>8 DEF MoveToward
    <2>2. IF name \in DOMAIN world.robots /\ t \in DOMAIN world.targets
          THEN Requested(world, name, move_toward(world, name, t))
          ELSE move_toward(world, name, t) = Failed(world)
        BY <1>0, MoveEffect
    <2>3. CASE name \in DOMAIN world.robots /\ t \in DOMAIN world.targets
        <3>1. Move(name, TRUE, move_toward(world, name, t))
            BY <2>1, <2>3 DEF Move, Placed
        <3> QED BY <1>6, <2>2, <2>3, <3>1
    <2>4. CASE ~(name \in DOMAIN world.robots /\ t \in DOMAIN world.targets)
        <3>1. Move(name, FALSE, move_toward(world, name, t))
            BY <2>1, <2>4 DEF Move, Placed
        <3> QED BY <1>5, <2>2, <2>4, <3>1
    <2> QED BY <2>3, <2>4
<1>9. CASE TurnLeft \/ TurnRight
    <2>1. PICK name \in RobotNames :
             \E v \in {turn_robot_left(world, name), turn_robot_right(world, name)} : Turn(v)
        BY <1>9 DEF TurnLeft, TurnRight
    <2> QED BY <1>0, <2>1, TurnEffect DEF Turn, Turns, histories
<1>10. CASE ClearFlags \/ BeginTick \/ Tick
    BY <1>0, <1>10, ClearEffect DEF ClearFlags, BeginTick, Tick, Clears
<1>11. CASE EndTick \/ UNCHANGED vars
    BY <1>11 DEF EndTick, vars, histories, Rests
<1> QED BY <1>1, <1>2, <1>3, <1>4, <1>7, <1>8, <1>9, <1>10, <1>11 DEF Next

-----------------------------------------------------------------------------
(* Collision flags.                                                         *)

\* Exactly the robots of the history have their flag set.
Marks(w, requests) ==
    /\ requests \subseteq DOMAIN w.robots
    /\ \A r \in DOMAIN w.robots :
          w.robots[r].collision_flag = IF r \in requests THEN TRUE ELSE FALSE

Flags == Marks(world, failed) /\ Marks(initial_world, initially_failed)

LEMMA FlagsStep == Inv /\ Flags /\ [Next]_vars => Flags'
<1> SUFFICES ASSUME Inv, Flags, [Next]_vars PROVE Flags'
    OBVIOUS
<1>1. CASE Places
    BY <1>1 DEF Places, Placement, Flags, Marks
<1>2. CASE Constructs
    BY <1>2 DEF Constructs, Flags
<1>3. CASE Requests
    <2>1. PICK name, blocked :
             /\ Effect(world, world', name, blocked)
             /\ blocked => name \in DOMAIN world.robots
             /\ failed' = IF blocked THEN failed \cup {name} ELSE failed
             /\ UNCHANGED <<initial_world, initially_failed>>
        BY <1>3 DEF Requests
    <2> QED BY <2>1 DEF Effect, Flags, Marks
<1>4. CASE Turns
    BY <1>4 DEF Turns, SamePlaces, Flags, Marks
<1>5. CASE Clears
    BY <1>5 DEF Clears, SamePlaces, Flags, Marks
<1>6. CASE Reset
    BY <1>6 DEF Reset, Flags
<1>7. CASE Rests
    BY <1>7 DEF Rests, Flags
<1> QED BY <1>1, <1>2, <1>3, <1>4, <1>5, <1>6, <1>7, StepProperties

-----------------------------------------------------------------------------
(* The theorems.                                                            *)

\* In the world as in the copy, a robot's flag is set exactly if one of its requests
\* has failed since the flags were last cleared, whatever was placed, moved and turned
\* before the constructor and after it; a reset brings back the copy's flags along
\* with its past, and not flags of requests that were never made.
THEOREM FlagsAreTrue == Spec => []FlagsTellFailedMoves
<1>1. Init => Flags
    BY DEF Init, Flags, Marks, NewWorld
<1>2. Inv /\ Flags => FlagsTellFailedMoves
    BY DEF Flags, Marks, FlagsTellFailedMoves, FlagsTell, collision
<1> QED BY <1>1, <1>2, FlagsStep, Invariant, PTL DEF Spec

\* No step but reset() moves two robots, or one further than to the next cell.
THEOREM RobotsMoveOneByOne == Spec => OneRobotOneCell
<1>1. ASSUME Inv, [Next]_vars
      PROVE  Reset \/ MovesOneRobotOneCell \/ UNCHANGED vars
    <2>0. ASSUME NEW r \in DOMAIN world.robots,
                 world'.robots[r].x = world.robots[r].x, world'.robots[r].y = world.robots[r].y
          PROVE  Shift(world, world', r) = 0
        <3>1. IsWorld(world, Names) /\ Consistent(world)
            BY <1>1 DEF Inv, TypeOK, WorldConsistent
        <3> QED BY <2>0, <3>1, SameShift
    <2>1. CASE Places \/ Constructs \/ Turns \/ Clears \/ Rests
        <3>1. /\ DOMAIN world.robots \subseteq DOMAIN world'.robots
              /\ \A r \in DOMAIN world.robots : /\ world'.robots[r].x = world.robots[r].x
                                                /\ world'.robots[r].y = world.robots[r].y
            BY <2>1 DEF Places, Placement, Constructs, Turns, Clears, SamePlaces, Rests
        <3>2. \A r \in DOMAIN world.robots : Shift(world, world', r) = 0
            BY <2>0, <3>1
        <3> QED BY <3>1, <3>2 DEF MovesOneRobotOneCell, Shift
    <2>2. CASE Requests
        <3>1. PICK name, blocked : Effect(world, world', name, blocked)
            BY <2>2 DEF Requests
        <3>2. \A r \in DOMAIN world.robots :
                 /\ Shift(world, world', r) <= 1
                 /\ r # name => Shift(world, world', r) = 0
            BY <2>0, <3>1 DEF Effect
        <3> QED BY <3>1, <3>2 DEF MovesOneRobotOneCell, Shift, Effect
    <2> QED BY <1>1, <2>1, <2>2, StepProperties
<1> QED BY <1>1, Invariant, PTL DEF Spec, OneRobotOneCell

\* Only a placement adds an obstacle, and only reset() takes one away.
THEOREM ObstaclesStay == Spec => ObstaclesStatic
<1>1. ASSUME Inv, [Next]_vars
      PROVE  KeepsObstacles \/ UNCHANGED vars
    <2>1. CASE Reset
        BY <2>1 DEF Reset, KeepsObstacles
    <2>2. CASE Places
        BY <2>2 DEF Places, Placement, KeepsObstacles
    <2>3. CASE Requests
        BY <2>3 DEF Requests, Effect, KeepsObstacles
    <2>4. CASE Constructs \/ Turns \/ Clears \/ Rests
        BY <2>4, SamePlacesObstacles DEF Constructs, Turns, Clears, Rests, KeepsObstacles
    <2> QED BY <1>1, <2>1, <2>2, <2>3, <2>4, StepProperties
<1> QED BY <1>1, Invariant, PTL DEF Spec, ObstaclesStatic

\* obstacle_ahead tells everything about move_forward but the robots in the way.
THEOREM AheadIsAhead == Spec => []AheadPredictsForward
<1>1. ASSUME Inv, NEW r \in DOMAIN world.robots
      PROVE  LET delta == direction_delta(world.robots[r].direction)
                 ahead == <<world.robots[r].x + delta.x, world.robots[r].y + delta.y>>
             IN  ~move_forward(world, r).ok
                     <=> \/ obstacle_ahead(world, r)
                         \/ world.grid[ahead].kind = "robot"
    <2> DEFINE delta == direction_delta(world.robots[r].direction)
               x == world.robots[r].x + delta.x
               y == world.robots[r].y + delta.y
               result == move_forward(world, r)
    <2>1. /\ IsWorld(world, Names) /\ Consistent(world)
          /\ world.robots[r].x \in Int /\ world.robots[r].y \in Int
          /\ delta.x \in Int /\ delta.y \in Int
        BY <1>1, RobotCell, DeltaType DEF Inv, TypeOK, WorldConsistent
    <2>2. result = try_move_robot(world, r, delta.x, delta.y)
        BY DEF move_forward
    <2>3. obstacle_ahead(world, r)
             <=> ~in_bounds(world, x, y) \/ world.grid[<<x, y>>].kind = "obstacle"
        BY DEF obstacle_ahead
    <2>4. x \in Int /\ y \in Int
        BY <2>1
    <2> HIDE DEF delta
    <2>5. result.ok = IF can_enter_cell(world, x, y) THEN TRUE ELSE FALSE
        BY <2>2 DEF try_move_robot, collide
    <2> HIDE DEF x, y, result
    <2>6. can_enter_cell(world, x, y)
             <=> ~(~in_bounds(world, x, y)
                   \/ world.grid[<<x, y>>].kind = "obstacle"
                   \/ world.grid[<<x, y>>].kind = "robot")
        <3>1. CASE ~in_bounds(world, x, y)
            BY <3>1 DEF can_enter_cell
        <3>2. CASE in_bounds(world, x, y)
            <4>1. <<x, y>> \in Cells(world)
                BY <2>1, <2>4, <3>2, InBoundsCell DEF IsWorld
            <4>2. world.grid[<<x, y>>].kind \in CellKind
                BY <2>1, <4>1 DEF IsWorld, Cell
            <4> QED BY <3>2, <4>2 DEF can_enter_cell, CellKind
        <3> QED BY <3>1, <3>2
    <2>7. ~result.ok <=> obstacle_ahead(world, r) \/ world.grid[<<x, y>>].kind = "robot"
        BY <2>3, <2>5, <2>6
    <2> QED BY <2>7 DEF x, y, result, delta
<1>2. Inv => AheadPredictsForward
    BY <1>1 DEF AheadPredictsForward
<1> QED BY <1>2, Invariant, PTL

\* A step of move_toward that is taken brings the robot one cell closer; one that is
\* not leaves it where it is.
THEOREM TowardIsCloser == Spec => []TowardApproaches
<1>1. ASSUME Inv, NEW r \in DOMAIN world.robots, NEW t \in DOMAIN world.targets
      PROVE  LET result == move_toward(world, r, t)
             IN  distance_to(result.world, r, t)
                     = distance_to(world, r, t) - (IF result.ok THEN 1 ELSE 0)
    <2> DEFINE result == move_toward(world, r, t)
               v == result.world
               robot == world.robots[r]
               dx == world.targets[t].x - robot.x
               dy == world.targets[t].y - robot.y
    <2>1. /\ IsWorld(world, Names) /\ Consistent(world)
          /\ robot \in Robot /\ robot.x \in Int /\ robot.y \in Int
          /\ world.targets[t].x \in Int /\ world.targets[t].y \in Int
          /\ dx \in Int /\ dy \in Int
        <3>1. IsWorld(world, Names) /\ Consistent(world)
            BY <1>1 DEF Inv, TypeOK, WorldConsistent
        <3>2. robot \in Robot /\ robot.x \in Int /\ robot.y \in Int
            BY <3>1, RobotCell
        <3>3. world.targets[t].x \in Int /\ world.targets[t].y \in Int
            BY <3>1 DEF IsWorld, Target
        <3> QED BY <3>1, <3>2, <3>3
    <2>2. ASSUME result = collide(world, r)
          PROVE  distance_to(v, r, t) = distance_to(world, r, t) /\ result.ok = FALSE
        <3> DEFINE u == collide(world, r).world
        <3>1. /\ result.ok = FALSE /\ v.targets = world.targets
              /\ v.robots = [world.robots EXCEPT ![r] = [robot EXCEPT !.collision_flag = TRUE]]
            <4>1. /\ collide(world, r).ok = FALSE /\ u.targets = world.targets
                  /\ u.robots = [world.robots EXCEPT ![r] = [robot EXCEPT !.collision_flag = TRUE]]
                BY <2>1 DEF collide, IsWorld
            <4> HIDE DEF result
            <4> QED BY <2>2, <4>1
        <3> HIDE DEF result
        <3>2. /\ DOMAIN v.robots = DOMAIN world.robots
              /\ v.robots[r].x = robot.x /\ v.robots[r].y = robot.y
            BY <2>1, <3>1 DEF Robot
        <3> QED BY <3>1, <3>2 DEF distance_to
    <2>3. ASSUME NEW sx \in {-1, 0, 1}, NEW sy \in {-1, 0, 1},
                 result = try_move_robot(world, r, sx, sy),
                 abs(dx - sx) + abs(dy - sy) = abs(dx) + abs(dy) - 1
          PROVE  distance_to(v, r, t)
                    = distance_to(world, r, t) - (IF result.ok THEN 1 ELSE 0)
        <3> DEFINE x == robot.x + sx
                   y == robot.y + sy
        <3>1. sx \in Int /\ sy \in Int
            OBVIOUS
        <3>2. CASE ~can_enter_cell(world, x, y)
            <4>1. result = collide(world, r)
                BY <2>3, <3>2 DEF try_move_robot
            <4>2. distance_to(world, r, t) \in Int
                BY <2>1 DEF distance_to, abs
            <4> HIDE DEF result
            <4>3. distance_to(v, r, t) = distance_to(world, r, t) /\ result.ok = FALSE
                BY <2>2, <4>1
            <4> QED BY <4>2, <4>3
        <3>3. CASE can_enter_cell(world, x, y)
            <4>1. result.ok = TRUE
                BY <2>3, <3>3 DEF try_move_robot
            <4>2. Stepped(world, v, r, x, y)
                BY <2>1, <2>3, <3>1, <3>3, TryMove
            <4> HIDE DEF result, x, y
            <4>3. /\ v.targets = world.targets
                  /\ DOMAIN v.robots = DOMAIN world.robots
                  /\ v.robots[r].x = x /\ v.robots[r].y = y
                BY <2>1, <4>2 DEF Stepped, Robot
            <4>4. /\ distance_to(world, r, t) = abs(dx) + abs(dy)
                  /\ distance_to(v, r, t) = abs(dx - sx) + abs(dy - sy)
                BY <2>1, <3>1, <4>3 DEF distance_to, abs, x, y
            <4> HIDE DEF v
            <4> QED BY <2>1, <2>3, <4>1, <4>4 DEF abs
        <3> QED BY <3>2, <3>3
    <2>4. \/ result = collide(world, r)
          \/ \E sx, sy \in {-1, 0, 1} :
                /\ result = try_move_robot(world, r, sx, sy)
                /\ abs(dx - sx) + abs(dy - sy) = abs(dx) + abs(dy) - 1
        <3>1. CASE dx = 0 /\ dy = 0
            BY <3>1 DEF move_toward
        <3>2. CASE ~(dx = 0 /\ dy = 0) /\ abs(dx) >= abs(dy)
            <4> DEFINE sx == IF dx > 0 THEN 1 ELSE -1
            <4>1. result = try_move_robot(world, r, sx, 0)
                BY <3>2 DEF move_toward
            <4> HIDE DEF result
            <4>2. abs(dx - sx) + abs(dy - 0) = abs(dx) + abs(dy) - 1
                BY <2>1, <3>2 DEF abs
            <4> QED BY <4>1, <4>2
        <3>3. CASE ~(dx = 0 /\ dy = 0) /\ ~(abs(dx) >= abs(dy))
            <4> DEFINE sy == IF dy > 0 THEN 1 ELSE -1
            <4>1. result = try_move_robot(world, r, 0, sy)
                BY <3>3 DEF move_toward
            <4> HIDE DEF result
            <4>2. abs(dx - 0) + abs(dy - sy) = abs(dx) + abs(dy) - 1
                BY <2>1, <3>3 DEF abs
            <4> QED BY <4>1, <4>2
        <3> QED BY <3>1, <3>2, <3>3
    <2>5. distance_to(world, r, t) \in Int
        BY <2>1 DEF distance_to, abs
    <2> HIDE DEF result, dx, dy
    <2>6. distance_to(v, r, t) = distance_to(world, r, t) - (IF result.ok THEN 1 ELSE 0)
        <3>1. CASE result = collide(world, r)
            <4>1. distance_to(v, r, t) = distance_to(world, r, t) /\ result.ok = FALSE
                BY <2>2, <3>1
            <4> QED BY <2>5, <4>1
        <3>2. CASE result # collide(world, r)
            <4>1. PICK sx \in {-1, 0, 1}, sy \in {-1, 0, 1} :
                     /\ result = try_move_robot(world, r, sx, sy)
                     /\ abs(dx - sx) + abs(dy - sy) = abs(dx) + abs(dy) - 1
                BY <2>4, <3>2
            <4> QED BY <2>3, <4>1
        <3> QED BY <3>1, <3>2
    <2> QED BY <2>6 DEF result
<1>2. Inv => TowardApproaches
    BY <1>1 DEF TowardApproaches
<1> QED BY <1>2, Invariant, PTL
=============================================================================
