----------------------------- MODULE World_proofs -----------------------------
(***************************************************************************)
(* What the operations of World preserve: the shape of a world, its        *)
(* dimensions, and the agreement between its grid and its robots; and what *)
(* each of them changes.  Effect says what a request to move may do.       *)
(***************************************************************************)
EXTENDS World, TLAPS

\* Good(w, v): v is what an operation may make of w.
Good(w, v, Names) ==
    /\ IsWorld(v, Names) /\ Consistent(v)
    /\ v.width = w.width /\ v.height = w.height

\* The four directions are closed under turning.
LEMMA TurnType ==
    ASSUME NEW d \in Direction
    PROVE  turn_left(d) \in Direction /\ turn_right(d) \in Direction
BY DEF Direction, turn_left, turn_right

LEMMA DeltaType ==
    ASSUME NEW d \in Direction
    PROVE  direction_delta(d).x \in Int /\ direction_delta(d).y \in Int
BY DEF Direction, direction_delta

\* A cell that can be entered is a cell of the grid.
LEMMA InBoundsCell ==
    ASSUME NEW w, w.width \in Nat, w.height \in Nat,
           NEW x \in Int, NEW y \in Int, in_bounds(w, x, y)
    PROVE  <<x, y>> \in Cells(w)
BY DEF in_bounds, Cells

\* A new world is an empty, consistent world of the given size.
LEMMA NewWorldGood ==
    ASSUME NEW Names, NEW width \in Nat \ {0}, NEW height \in Nat \ {0}
    PROVE  LET w == NewWorld(width, height)
           IN  IsWorld(w, Names) /\ Consistent(w)
               /\ w.width = width /\ w.height = height
BY DEF NewWorld, IsWorld, Consistent, RobotsOnGrid, GridHoldsRobots,
       GridHoldsTargets, Cells, Cell, CellKind

\* Every robot stands on a cell of the grid with its name.
LEMMA RobotCell ==
    ASSUME NEW Names, NEW w, IsWorld(w, Names), Consistent(w),
           NEW n \in DOMAIN w.robots
    PROVE  /\ w.robots[n] \in Robot
           /\ w.robots[n].x \in Int /\ w.robots[n].y \in Int
           /\ w.robots[n].direction \in Direction
           /\ in_bounds(w, w.robots[n].x, w.robots[n].y)
           /\ <<w.robots[n].x, w.robots[n].y>> \in Cells(w)
           /\ w.grid[<<w.robots[n].x, w.robots[n].y>>].kind = "robot"
           /\ w.grid[<<w.robots[n].x, w.robots[n].y>>].label = n
<1>1. w.robots[n] \in Robot
    BY DEF IsWorld
<1>2. w.robots[n].x \in Int /\ w.robots[n].y \in Int
      /\ w.robots[n].direction \in Direction
    BY <1>1 DEF Robot
<1>3. /\ in_bounds(w, w.robots[n].x, w.robots[n].y)
      /\ w.grid[<<w.robots[n].x, w.robots[n].y>>]
             = [kind |-> "robot", label |-> n]
    BY DEF Consistent, RobotsOnGrid
<1>4. <<w.robots[n].x, w.robots[n].y>> \in Cells(w)
    BY <1>2, <1>3, InBoundsCell DEF IsWorld
<1> QED BY <1>1, <1>2, <1>3, <1>4

\* No robot stands where the grid shows none.
LEMMA NoRobotThere ==
    ASSUME NEW Names, NEW w, IsWorld(w, Names), Consistent(w),
           NEW x, NEW y, w.grid[<<x, y>>].kind # "robot",
           NEW n \in DOMAIN w.robots
    PROVE  <<w.robots[n].x, w.robots[n].y>> # <<x, y>>
BY RobotCell

\* Placing an obstacle keeps the world consistent.
LEMMA PlaceObstacleGood ==
    ASSUME NEW Names, NEW w, IsWorld(w, Names), Consistent(w),
           NEW x \in Int, NEW y \in Int
    PROVE  Good(w, place_obstacle(w, x, y).world, Names)
<1>1. CASE ~is_passable(w, x, y)
    BY <1>1 DEF place_obstacle, Failed, Good
<1>2. CASE is_passable(w, x, y)
    <2> DEFINE v == place_obstacle(w, x, y).world
               cell == [kind |-> "obstacle", label |-> NoLabel]
    <2>1. <<x, y>> \in Cells(w)
        BY <1>2, InBoundsCell DEF is_passable, IsWorld
    <2>2. v = [w EXCEPT !.grid[<<x, y>>] = cell]
        BY <1>2 DEF place_obstacle
    <2>3. /\ v.width = w.width /\ v.height = w.height
          /\ v.robots = w.robots /\ v.targets = w.targets
          /\ v.grid = [w.grid EXCEPT ![<<x, y>>] = cell]
          /\ v = [width |-> v.width, height |-> v.height, grid |-> v.grid,
                  robots |-> v.robots, targets |-> v.targets]
        BY <2>2 DEF IsWorld
    <2>4. cell \in Cell(Names)
        BY DEF Cell, CellKind
    <2>5. Cells(v) = Cells(w)
        BY <2>3 DEF Cells
    <2>6. IsWorld(v, Names)
        BY <2>1, <2>3, <2>4, <2>5 DEF IsWorld
    <2>7. Consistent(v)
        BY <1>2, <2>1, <2>3, <2>5 DEF Consistent, RobotsOnGrid, GridHoldsRobots, GridHoldsTargets, is_passable, in_bounds, IsWorld
    <2> QED BY <2>3, <2>6, <2>7 DEF Good
<1> QED BY <1>1, <1>2

\* Placing a robot keeps the world consistent: the cell it takes was empty, so
\* no robot stood there and no target was recorded on it.
LEMMA PlaceRobotGood ==
    ASSUME NEW Names, NEW w, IsWorld(w, Names), Consistent(w),
           NEW x \in Int, NEW y \in Int, NEW name \in Names
    PROVE  Good(w, place_robot(w, name, x, y).world, Names)
<1>1. CASE name \in DOMAIN w.robots \/ ~is_passable(w, x, y)
    BY <1>1 DEF place_robot, Failed, Good
<1>2. CASE name \notin DOMAIN w.robots /\ is_passable(w, x, y)
    <2> DEFINE v == place_robot(w, name, x, y).world
               cell == [kind |-> "robot", label |-> name]
               robot == [x |-> x, y |-> y, direction |-> "right",
                         collision_flag |-> FALSE]
    <2>1. <<x, y>> \in Cells(w)
        BY <1>2, InBoundsCell DEF is_passable, IsWorld
    <2>2. v = [w EXCEPT !.robots = With(w.robots, name, robot),
                        !.grid[<<x, y>>] = cell]
        BY <1>2 DEF place_robot
    <2>3. /\ v.width = w.width /\ v.height = w.height
          /\ v.robots = With(w.robots, name, robot) /\ v.targets = w.targets
          /\ v.grid = [w.grid EXCEPT ![<<x, y>>] = cell]
          /\ v = [width |-> v.width, height |-> v.height, grid |-> v.grid,
                  robots |-> v.robots, targets |-> v.targets]
        BY <2>2 DEF IsWorld
    <2>4. cell \in Cell(Names) /\ robot \in Robot
        BY DEF Cell, CellKind, Robot, Direction
    <2>5. Cells(v) = Cells(w)
        BY <2>3 DEF Cells
    <2>6. /\ DOMAIN v.robots = DOMAIN w.robots \cup {name}
          /\ v.robots[name] = robot
          /\ \A n \in DOMAIN w.robots : v.robots[n] = w.robots[n]
          /\ v.robots \in [DOMAIN v.robots -> Robot]
        BY <1>2, <2>3, <2>4 DEF With, IsWorld
    <2>7. IsWorld(v, Names)
        BY <2>1, <2>3, <2>4, <2>5, <2>6 DEF IsWorld
    <2>8. \A n \in DOMAIN w.robots : <<w.robots[n].x, w.robots[n].y>> # <<x, y>>
        BY <1>2, NoRobotThere DEF is_passable
    <2>9. RobotsOnGrid(v)
        <3> SUFFICES ASSUME NEW n \in DOMAIN v.robots
                     PROVE  /\ in_bounds(v, v.robots[n].x, v.robots[n].y)
                            /\ v.grid[<<v.robots[n].x, v.robots[n].y>>]
                                   = [kind |-> "robot", label |-> n]
            BY DEF RobotsOnGrid
        <3>1. CASE n = name
            BY <3>1, <1>2, <2>1, <2>3, <2>6 DEF is_passable, in_bounds, IsWorld
        <3>2. CASE n # name
            <4>1. n \in DOMAIN w.robots /\ v.robots[n] = w.robots[n]
                BY <3>2, <2>6
            <4>2. v.grid[<<w.robots[n].x, w.robots[n].y>>]
                      = w.grid[<<w.robots[n].x, w.robots[n].y>>]
                BY <4>1, <2>1, <2>3, <2>8, RobotCell DEF IsWorld
            <4> QED BY <4>1, <4>2, <2>3 DEF Consistent, RobotsOnGrid, in_bounds
        <3> QED BY <3>1, <3>2
    <2>10. GridHoldsRobots(v)
        <3> SUFFICES ASSUME NEW c \in Cells(w), v.grid[c].kind = "robot"
                     PROVE  /\ v.grid[c].label \in DOMAIN v.robots
                            /\ c = <<v.robots[v.grid[c].label].x,
                                     v.robots[v.grid[c].label].y>>
            BY <2>5 DEF GridHoldsRobots
        <3>1. CASE c = <<x, y>>
            <4>1. v.grid[c] = cell
                BY <3>1, <2>1, <2>3 DEF IsWorld
            <4> QED BY <3>1, <4>1, <2>6
        <3>2. CASE c # <<x, y>>
            <4>1. v.grid[c] = w.grid[c]
                BY <3>2, <2>1, <2>3 DEF IsWorld
            <4> QED BY <4>1, <2>6 DEF Consistent, GridHoldsRobots
        <3> QED BY <3>1, <3>2
    <2>11. GridHoldsTargets(v)
        BY <2>1, <2>3, <2>5 DEF Consistent, GridHoldsTargets, IsWorld
    <2> QED BY <2>3, <2>7, <2>9, <2>10, <2>11 DEF Good, Consistent
<1> QED BY <1>1, <1>2

\* Placing a target keeps the world consistent.
LEMMA PlaceTargetGood ==
    ASSUME NEW Names, NEW w, IsWorld(w, Names), Consistent(w),
           NEW x \in Int, NEW y \in Int, NEW name \in Names
    PROVE  Good(w, place_target(w, name, x, y).world, Names)
<1>1. CASE name \in DOMAIN w.targets \/ ~is_passable(w, x, y)
    BY <1>1 DEF place_target, Failed, Good
<1>2. CASE name \notin DOMAIN w.targets /\ is_passable(w, x, y)
    <2> DEFINE v == place_target(w, name, x, y).world
               cell == [kind |-> "target", label |-> name]
               target == [x |-> x, y |-> y]
    <2>1. <<x, y>> \in Cells(w)
        BY <1>2, InBoundsCell DEF is_passable, IsWorld
    <2>2. v = [w EXCEPT !.targets = With(w.targets, name, target),
                        !.grid[<<x, y>>] = cell]
        BY <1>2 DEF place_target
    <2>3. /\ v.width = w.width /\ v.height = w.height
          /\ v.targets = With(w.targets, name, target) /\ v.robots = w.robots
          /\ v.grid = [w.grid EXCEPT ![<<x, y>>] = cell]
          /\ v = [width |-> v.width, height |-> v.height, grid |-> v.grid,
                  robots |-> v.robots, targets |-> v.targets]
        BY <2>2 DEF IsWorld
    <2>4. cell \in Cell(Names) /\ target \in Target
        BY DEF Cell, CellKind, Target
    <2>5. Cells(v) = Cells(w)
        BY <2>3 DEF Cells
    <2>6. /\ DOMAIN v.targets = DOMAIN w.targets \cup {name}
          /\ v.targets[name] = target
          /\ \A n \in DOMAIN w.targets : v.targets[n] = w.targets[n]
          /\ v.targets \in [DOMAIN v.targets -> Target]
        BY <1>2, <2>3, <2>4 DEF With, IsWorld
    <2>7. IsWorld(v, Names)
        BY <2>1, <2>3, <2>4, <2>5, <2>6 DEF IsWorld
    <2>8. \A n \in DOMAIN w.robots : <<w.robots[n].x, w.robots[n].y>> # <<x, y>>
        BY <1>2, NoRobotThere DEF is_passable
    <2>9. RobotsOnGrid(v)
        <3>1. \A n \in DOMAIN w.robots :
                  v.grid[<<w.robots[n].x, w.robots[n].y>>]
                      = w.grid[<<w.robots[n].x, w.robots[n].y>>]
            BY <2>1, <2>3, <2>8, RobotCell DEF IsWorld
        <3> QED BY <3>1, <2>3 DEF Consistent, RobotsOnGrid, in_bounds
    <2>10. GridHoldsRobots(v)
        BY <2>1, <2>3, <2>5 DEF Consistent, GridHoldsRobots, IsWorld
    <2>11. GridHoldsTargets(v)
        BY <1>2, <2>1, <2>3, <2>5, <2>6 DEF Consistent, GridHoldsTargets, IsWorld
    <2> QED BY <2>3, <2>7, <2>9, <2>10, <2>11 DEF Good, Consistent
<1> QED BY <1>1, <1>2

\* Changing only what a robot faces or flags keeps the world consistent.
LEMMA RobotKeptInPlace ==
    ASSUME NEW Names, NEW w, IsWorld(w, Names), Consistent(w), NEW v,
           IsWorld(v, Names),
           v.width = w.width, v.height = w.height,
           v.grid = w.grid, v.targets = w.targets,
           DOMAIN v.robots = DOMAIN w.robots,
           \A n \in DOMAIN w.robots : /\ v.robots[n].x = w.robots[n].x
                                      /\ v.robots[n].y = w.robots[n].y
    PROVE  Good(w, v, Names)
<1>1. Cells(v) = Cells(w)
    BY DEF Cells
<1>2. RobotsOnGrid(v)
    BY DEF Consistent, RobotsOnGrid, in_bounds
<1>3. GridHoldsRobots(v)
    BY <1>1 DEF Consistent, GridHoldsRobots
<1>4. GridHoldsTargets(v)
    BY <1>1 DEF Consistent, GridHoldsTargets
<1> QED BY <1>2, <1>3, <1>4 DEF Good, Consistent

\* A robot record with some other flag, direction or position is a robot.
LEMMA CollideGood ==
    ASSUME NEW Names, NEW w, IsWorld(w, Names), Consistent(w),
           NEW name \in DOMAIN w.robots
    PROVE  Good(w, collide(w, name).world, Names)
<1> DEFINE v == collide(w, name).world
<1>1. /\ v.width = w.width /\ v.height = w.height
      /\ v.targets = w.targets /\ v.grid = w.grid
      /\ v.robots = [w.robots EXCEPT ![name] = [@ EXCEPT !.collision_flag = TRUE]]
      /\ v = [width |-> v.width, height |-> v.height, grid |-> v.grid,
              robots |-> v.robots, targets |-> v.targets]
    BY DEF collide, IsWorld
<1>2. /\ v.robots \in [DOMAIN w.robots -> Robot]
      /\ \A n \in DOMAIN w.robots : /\ v.robots[n].x = w.robots[n].x
                                    /\ v.robots[n].y = w.robots[n].y
    <2>1. w.robots \in [DOMAIN w.robots -> Robot] /\ w.robots[name] \in Robot
        BY DEF IsWorld
    <2>2. \A r \in Robot : /\ [r EXCEPT !.collision_flag = TRUE] \in Robot
                           /\ [r EXCEPT !.collision_flag = TRUE].x = r.x
                           /\ [r EXCEPT !.collision_flag = TRUE].y = r.y
        BY DEF Robot
    <2> QED BY <1>1, <2>1, <2>2
<1>3. IsWorld(v, Names)
    BY <1>1, <1>2 DEF IsWorld, Cells
<1> QED BY <1>1, <1>2, <1>3, RobotKeptInPlace

LEMMA TurnToGood ==
    ASSUME NEW Names, NEW w, IsWorld(w, Names), Consistent(w),
           NEW name \in DOMAIN w.robots, NEW d \in Direction
    PROVE  Good(w, turn_to(w, name, d), Names)
<1> DEFINE v == turn_to(w, name, d)
<1>1. /\ v.width = w.width /\ v.height = w.height
      /\ v.targets = w.targets /\ v.grid = w.grid
      /\ v.robots = [w.robots EXCEPT ![name] = [@ EXCEPT !.direction = d]]
      /\ v = [width |-> v.width, height |-> v.height, grid |-> v.grid,
              robots |-> v.robots, targets |-> v.targets]
    BY DEF turn_to, IsWorld
<1>2. /\ v.robots \in [DOMAIN w.robots -> Robot]
      /\ \A n \in DOMAIN w.robots : /\ v.robots[n].x = w.robots[n].x
                                    /\ v.robots[n].y = w.robots[n].y
    BY <1>1 DEF IsWorld, Robot
<1>3. IsWorld(v, Names)
    BY <1>1, <1>2 DEF IsWorld, Cells
<1> QED BY <1>1, <1>2, <1>3, RobotKeptInPlace

LEMMA TurnGood ==
    ASSUME NEW Names, NEW w, IsWorld(w, Names), Consistent(w), NEW name
    PROVE  /\ Good(w, turn_robot_left(w, name), Names)
           /\ Good(w, turn_robot_right(w, name), Names)
<1>1. CASE name \notin DOMAIN w.robots
    BY <1>1 DEF turn_robot_left, turn_robot_right, Good
<1>2. CASE name \in DOMAIN w.robots
    <2>1. w.robots[name].direction \in Direction
        BY <1>2, RobotCell
    <2>2. /\ turn_left(w.robots[name].direction) \in Direction
          /\ turn_right(w.robots[name].direction) \in Direction
        BY <2>1, TurnType
    <2> QED BY <1>2, <2>2, TurnToGood DEF turn_robot_left, turn_robot_right
<1> QED BY <1>1, <1>2

LEMMA ClearFlagsGood ==
    ASSUME NEW Names, NEW w, IsWorld(w, Names), Consistent(w)
    PROVE  Good(w, clear_collision_flags(w), Names)
<1> DEFINE v == clear_collision_flags(w)
<1>1. /\ v.width = w.width /\ v.height = w.height
      /\ v.targets = w.targets /\ v.grid = w.grid
      /\ v.robots = Unflagged(w.robots)
      /\ v = [width |-> v.width, height |-> v.height, grid |-> v.grid,
              robots |-> v.robots, targets |-> v.targets]
    BY DEF clear_collision_flags, IsWorld
<1>2. /\ v.robots \in [DOMAIN w.robots -> Robot]
      /\ \A n \in DOMAIN w.robots : /\ v.robots[n].x = w.robots[n].x
                                    /\ v.robots[n].y = w.robots[n].y
    <2>1. \A n \in DOMAIN w.robots : w.robots[n] \in Robot
        BY DEF IsWorld
    <2>2. \A r \in Robot : /\ [r EXCEPT !.collision_flag = FALSE] \in Robot
                           /\ [r EXCEPT !.collision_flag = FALSE].x = r.x
                           /\ [r EXCEPT !.collision_flag = FALSE].y = r.y
        BY DEF Robot
    <2> QED BY <1>1, <2>1, <2>2 DEF Unflagged
<1>3. IsWorld(v, Names)
    BY <1>1, <1>2 DEF IsWorld, Cells
<1> QED BY <1>1, <1>2, <1>3, RobotKeptInPlace

\* v is w after the robot has gone to <<x, y>>: it leaves an empty cell behind
\* and stands, with its name, on a cell of the grid that held no robot.
Stepped(w, v, name, x, y) ==
    LET robot == w.robots[name]
    IN  /\ <<x, y>> \in Cells(w) /\ <<robot.x, robot.y>> \in Cells(w)
        /\ <<x, y>> # <<robot.x, robot.y>>
        /\ w.grid[<<x, y>>].kind # "robot"
        /\ in_bounds(w, x, y)
        /\ v.width = w.width /\ v.height = w.height
        /\ v.targets = w.targets
        /\ v.robots = [w.robots EXCEPT ![name] = [robot EXCEPT !.x = x, !.y = y]]
        /\ v.grid = [w.grid EXCEPT
              ![<<robot.x, robot.y>>] = [kind |-> "empty", label |-> NoLabel],
              ![<<x, y>>] = [kind |-> "robot", label |-> name]]
        /\ v = [width |-> v.width, height |-> v.height, grid |-> v.grid,
                robots |-> v.robots, targets |-> v.targets]

\* An attempted step is taken when the cell can be entered, and only flagged
\* otherwise.
LEMMA TryMove ==
    ASSUME NEW Names, NEW w, IsWorld(w, Names), Consistent(w),
           NEW name \in DOMAIN w.robots, NEW dx \in Int, NEW dy \in Int
    PROVE  LET result == try_move_robot(w, name, dx, dy)
               x == w.robots[name].x + dx
               y == w.robots[name].y + dy
           IN  \/ ~can_enter_cell(w, x, y) /\ result = collide(w, name)
               \/ /\ can_enter_cell(w, x, y) /\ result.ok
                  /\ Stepped(w, result.world, name, x, y)
<1> DEFINE robot == w.robots[name]
           x == robot.x + dx
           y == robot.y + dy
<1>1. CASE ~can_enter_cell(w, x, y)
    BY <1>1 DEF try_move_robot
<1>2. CASE can_enter_cell(w, x, y)
    <2>1. /\ robot.x \in Int /\ robot.y \in Int
          /\ <<robot.x, robot.y>> \in Cells(w)
          /\ w.grid[<<robot.x, robot.y>>].kind = "robot"
        BY RobotCell
    <2>2. x \in Int /\ y \in Int
        BY <2>1
    <2>3. in_bounds(w, x, y) /\ w.grid[<<x, y>>].kind # "robot"
        BY <1>2 DEF can_enter_cell
    <2>4. <<x, y>> \in Cells(w)
        BY <2>2, <2>3, InBoundsCell DEF IsWorld
    <2>5. <<x, y>> # <<robot.x, robot.y>>
        BY <2>1, <2>3
    <2>6. w = [width |-> w.width, height |-> w.height, grid |-> w.grid,
               robots |-> w.robots, targets |-> w.targets]
        BY DEF IsWorld
    <2> QED BY <1>2, <2>1, <2>3, <2>4, <2>5, <2>6 DEF try_move_robot, Stepped
<1> QED BY <1>1, <1>2

\* A step keeps the world consistent.
LEMMA SteppedGood ==
    ASSUME NEW Names, NEW w, IsWorld(w, Names), Consistent(w),
           NEW name \in DOMAIN w.robots, NEW x \in Int, NEW y \in Int,
           NEW v, Stepped(w, v, name, x, y)
    PROVE  Good(w, v, Names)
<1> DEFINE robot == w.robots[name]
<1>1. /\ <<x, y>> \in Cells(w) /\ <<robot.x, robot.y>> \in Cells(w)
      /\ <<x, y>> # <<robot.x, robot.y>>
      /\ w.grid[<<x, y>>].kind # "robot"
      /\ in_bounds(w, x, y)
      /\ v.width = w.width /\ v.height = w.height /\ v.targets = w.targets
      /\ v = [width |-> v.width, height |-> v.height, grid |-> v.grid,
              robots |-> v.robots, targets |-> v.targets]
    BY DEF Stepped
<1>2. /\ v.grid \in [Cells(w) -> Cell(Names)]
      /\ v.grid[<<x, y>>] = [kind |-> "robot", label |-> name]
      /\ v.grid[<<robot.x, robot.y>>].kind = "empty"
      /\ \A c \in Cells(w) : c # <<x, y>> /\ c # <<robot.x, robot.y>>
                             => v.grid[c] = w.grid[c]
    <2>1. v.grid = [w.grid EXCEPT
                     ![<<robot.x, robot.y>>] = [kind |-> "empty", label |-> NoLabel],
                     ![<<x, y>>] = [kind |-> "robot", label |-> name]]
        BY DEF Stepped
    <2>2. [kind |-> "empty", label |-> NoLabel] \in Cell(Names)
          /\ [kind |-> "robot", label |-> name] \in Cell(Names)
        BY DEF Cell, CellKind, IsWorld
    <2>3. w.grid \in [Cells(w) -> Cell(Names)]
        BY DEF IsWorld
    <2> QED BY <1>1, <2>1, <2>2, <2>3
<1>3. /\ DOMAIN v.robots = DOMAIN w.robots
      /\ v.robots[name].x = x /\ v.robots[name].y = y
      /\ \A n \in DOMAIN w.robots : n # name => v.robots[n] = w.robots[n]
      /\ v.robots \in [DOMAIN v.robots -> Robot]
    <2>1. v.robots = [w.robots EXCEPT ![name] = [robot EXCEPT !.x = x, !.y = y]]
        BY DEF Stepped
    <2>2. w.robots \in [DOMAIN w.robots -> Robot]
        BY DEF IsWorld
    <2>3. robot \in Robot
        BY <2>2
    <2>4. /\ [robot EXCEPT !.x = x, !.y = y] \in Robot
          /\ [robot EXCEPT !.x = x, !.y = y].x = x
          /\ [robot EXCEPT !.x = x, !.y = y].y = y
        BY <2>3 DEF Robot
    <2> QED BY <2>1, <2>2, <2>4
<1>4. Cells(v) = Cells(w)
    BY <1>1 DEF Cells
<1>5. IsWorld(v, Names)
    BY <1>1, <1>2, <1>3, <1>4 DEF IsWorld
<1>6. RobotsOnGrid(v)
    <2> SUFFICES ASSUME NEW n \in DOMAIN w.robots
                 PROVE  /\ in_bounds(v, v.robots[n].x, v.robots[n].y)
                        /\ v.grid[<<v.robots[n].x, v.robots[n].y>>]
                               = [kind |-> "robot", label |-> n]
        BY <1>3 DEF RobotsOnGrid
    <2>1. CASE n = name
        BY <2>1, <1>1, <1>2, <1>3 DEF in_bounds
    <2>2. CASE n # name
        <3> DEFINE at == <<w.robots[n].x, w.robots[n].y>>
        <3>1. at \in Cells(w) /\ w.grid[at].kind = "robot" /\ w.grid[at].label = n
            BY RobotCell
        <3>2. w.grid[<<robot.x, robot.y>>].label = name
            BY RobotCell
        <3>3. at # <<x, y>> /\ at # <<robot.x, robot.y>>
            BY <1>1, <2>2, <3>1, <3>2
        <3>4. v.grid[at] = w.grid[at]
            BY <3>1, <3>3, <1>2
        <3> QED BY <2>2, <3>4, <1>1, <1>3 DEF Consistent, RobotsOnGrid, in_bounds
    <2> QED BY <2>1, <2>2
<1>7. GridHoldsRobots(v)
    <2> SUFFICES ASSUME NEW c \in Cells(w), v.grid[c].kind = "robot"
                 PROVE  /\ v.grid[c].label \in DOMAIN v.robots
                        /\ c = <<v.robots[v.grid[c].label].x,
                                 v.robots[v.grid[c].label].y>>
        BY <1>4 DEF GridHoldsRobots
    <2>1. CASE c = <<x, y>>
        BY <2>1, <1>2, <1>3
    <2>2. CASE c # <<x, y>>
        <3>1. c # <<robot.x, robot.y>> /\ v.grid[c] = w.grid[c]
            BY <2>2, <1>2
        <3>2. /\ w.grid[c].label \in DOMAIN w.robots
              /\ c = <<w.robots[w.grid[c].label].x, w.robots[w.grid[c].label].y>>
            BY <3>1 DEF Consistent, GridHoldsRobots
        <3>3. w.grid[c].label # name
            BY <3>1, <3>2
        <3> QED BY <3>1, <3>2, <3>3, <1>3
    <2> QED BY <2>1, <2>2
<1>8. GridHoldsTargets(v)
    <2> SUFFICES ASSUME NEW c \in Cells(w), v.grid[c].kind = "target"
                 PROVE  /\ v.grid[c].label \in DOMAIN v.targets
                        /\ c = <<v.targets[v.grid[c].label].x,
                                 v.targets[v.grid[c].label].y>>
        BY <1>4 DEF GridHoldsTargets
    <2>1. v.grid[c] = w.grid[c]
        BY <1>2
    <2> QED BY <2>1, <1>1 DEF Consistent, GridHoldsTargets
<1> QED BY <1>1, <1>5, <1>6, <1>7, <1>8 DEF Good, Consistent

\* One attempted step, taken or blocked, keeps the world consistent.
LEMMA TryMoveGood ==
    ASSUME NEW Names, NEW w, IsWorld(w, Names), Consistent(w),
           NEW name \in DOMAIN w.robots, NEW dx \in Int, NEW dy \in Int
    PROVE  Good(w, try_move_robot(w, name, dx, dy).world, Names)
<1>1. w.robots[name].x \in Int /\ w.robots[name].y \in Int
    BY RobotCell
<1>2. w.robots[name].x + dx \in Int /\ w.robots[name].y + dy \in Int
    BY <1>1
<1> QED BY <1>2, TryMove, SteppedGood, CollideGood

\* Every movement request, for any name, keeps the world consistent.
LEMMA MoveGood ==
    ASSUME NEW Names, NEW w, IsWorld(w, Names), Consistent(w), NEW name
    PROVE  /\ Good(w, move_up(w, name).world, Names)
           /\ Good(w, move_down(w, name).world, Names)
           /\ Good(w, move_left(w, name).world, Names)
           /\ Good(w, move_right(w, name).world, Names)
           /\ Good(w, move_forward(w, name).world, Names)
           /\ \A t : Good(w, move_toward(w, name, t).world, Names)
<1>1. Good(w, w, Names)
    BY DEF Good
<1>2. CASE name \notin DOMAIN w.robots
    BY <1>1, <1>2 DEF move_up, move_down, move_left, move_right, move_forward,
                      move_toward, move, Failed
<1>3. CASE name \in DOMAIN w.robots
    <2>1. \A dx, dy \in Int : Good(w, try_move_robot(w, name, dx, dy).world, Names)
        BY <1>3, TryMoveGood
    <2>2. Good(w, move_forward(w, name).world, Names)
        BY <1>3, <2>1, RobotCell, DeltaType DEF move_forward
    <2>3. ASSUME NEW t
          PROVE  Good(w, move_toward(w, name, t).world, Names)
        BY <1>1, <1>3, <2>1, CollideGood DEF move_toward, Failed
    <2> QED BY <1>3, <2>1, <2>2, <2>3
            DEF move_up, move_down, move_left, move_right, move
<1> QED BY <1>2, <1>3
-----------------------------------------------------------------------------
(* What the operations change and what they do not.                         *)

Shift(w, v, n) == abs(v.robots[n].x - w.robots[n].x) + abs(v.robots[n].y - w.robots[n].y)

\* v is w after a request to move the robot name, which was blocked or was not.
Effect(w, v, name, blocked) ==
    /\ DOMAIN v.robots = DOMAIN w.robots /\ v.targets = w.targets
    /\ Obstacles(v) = Obstacles(w)
    /\ \A r \in DOMAIN w.robots :
          /\ r # name => v.robots[r] = w.robots[r]
          /\ Shift(w, v, r) <= 1
          /\ v.robots[r].collision_flag
                = IF r = name /\ blocked THEN TRUE ELSE w.robots[r].collision_flag

\* v is w but for the directions of its robots and their flags.
SamePlaces(w, v) ==
    /\ DOMAIN v.robots = DOMAIN w.robots
    /\ v.grid = w.grid /\ v.width = w.width /\ v.height = w.height
    /\ v.targets = w.targets
    /\ \A r \in DOMAIN w.robots : /\ v.robots[r].x = w.robots[r].x
                                  /\ v.robots[r].y = w.robots[r].y

LEMMA SameShift ==
    ASSUME NEW S, NEW w, IsWorld(w, S), Consistent(w), NEW v, NEW r \in DOMAIN w.robots,
           v.robots[r].x = w.robots[r].x, v.robots[r].y = w.robots[r].y
    PROVE  Shift(w, v, r) = 0
<1>1. w.robots[r].x \in Int /\ w.robots[r].y \in Int
    BY RobotCell
<1> QED BY <1>1 DEF Shift, abs

LEMMA NothingMoves ==
    ASSUME NEW S, NEW w, IsWorld(w, S), Consistent(w), NEW name
    PROVE  Effect(w, w, name, FALSE)
BY SameShift DEF Effect

LEMMA CollideEffect ==
    ASSUME NEW S, NEW w, IsWorld(w, S), Consistent(w), NEW name \in DOMAIN w.robots
    PROVE  Effect(w, collide(w, name).world, name, TRUE)
<1> DEFINE v == collide(w, name).world
<1> DEFINE flagged == [w.robots[name] EXCEPT !.collision_flag = TRUE]
<1>1. /\ v.width = w.width /\ v.height = w.height /\ v.grid = w.grid
      /\ v.robots = [w.robots EXCEPT ![name] = flagged] /\ v.targets = w.targets
    BY DEF collide, IsWorld
<1>2. /\ w.robots \in [DOMAIN w.robots -> Robot]
      /\ flagged.x = w.robots[name].x /\ flagged.y = w.robots[name].y
      /\ flagged.collision_flag = TRUE
    BY DEF IsWorld, Robot
<1> HIDE DEF v, flagged
<1>3. /\ DOMAIN v.robots = DOMAIN w.robots
      /\ \A r \in DOMAIN w.robots :
            /\ r # name => v.robots[r] = w.robots[r]
            /\ v.robots[r].x = w.robots[r].x /\ v.robots[r].y = w.robots[r].y
            /\ v.robots[r].collision_flag
                  = IF r = name THEN TRUE ELSE w.robots[r].collision_flag
    BY <1>1, <1>2
<1>4. Obstacles(v) = Obstacles(w)
    BY <1>1 DEF Obstacles, Cells
<1>5. \A r \in DOMAIN w.robots : Shift(w, v, r) <= 1
    <2>1. \A r \in DOMAIN w.robots : Shift(w, v, r) = 0
        BY <1>3, SameShift
    <2> QED BY <2>1
<1>6. Effect(w, v, name, TRUE)
    BY <1>1, <1>3, <1>4, <1>5 DEF Effect
<1> QED BY <1>6 DEF v

\* An attempted step, by one cell.
LEMMA TryMoveEffect ==
    ASSUME NEW S, NEW w, IsWorld(w, S), Consistent(w), NEW name \in DOMAIN w.robots,
           NEW dx \in {-1, 0, 1}, NEW dy \in {-1, 0, 1}, dx = 0 \/ dy = 0
    PROVE  LET result == try_move_robot(w, name, dx, dy)
           IN  /\ result.ok \in BOOLEAN
               /\ Effect(w, result.world, name, ~result.ok)
<1> DEFINE result == try_move_robot(w, name, dx, dy)
           v == result.world
           x == w.robots[name].x + dx
           y == w.robots[name].y + dy
<1>1. /\ w.robots[name] \in Robot /\ w.robots[name].x \in Int /\ w.robots[name].y \in Int
      /\ w.grid[<<w.robots[name].x, w.robots[name].y>>].kind = "robot"
    BY RobotCell
<1>2. CASE ~can_enter_cell(w, x, y)
    <2>1. result = collide(w, name) /\ result.ok = FALSE
        BY <1>2 DEF try_move_robot, collide
    <2> QED BY <2>1, CollideEffect
<1>3. CASE can_enter_cell(w, x, y)
    <2>1. result.ok = TRUE /\ Stepped(w, v, name, x, y)
        <3>1. dx \in Int /\ dy \in Int
            OBVIOUS
        <3>2. result.ok = TRUE
            BY <1>3 DEF try_move_robot
        <3> QED BY <1>3, <3>1, <3>2, TryMove
    <2>2. w.grid[<<x, y>>].kind # "obstacle"
        BY <1>3 DEF can_enter_cell
    <2> HIDE DEF x, y, result
    <2>3. /\ v.width = w.width /\ v.height = w.height /\ v.targets = w.targets
          /\ v.robots = [w.robots EXCEPT ![name] = [w.robots[name] EXCEPT !.x = x, !.y = y]]
          /\ v.grid = [w.grid EXCEPT
                ![<<w.robots[name].x, w.robots[name].y>>] = [kind |-> "empty", label |-> NoLabel],
                ![<<x, y>>] = [kind |-> "robot", label |-> name]]
          /\ w.grid \in [Cells(w) -> Cell(S)]
        BY <2>1 DEF Stepped, IsWorld
    <2>4. \A c \in Cells(w) : v.grid[c].kind = "obstacle" <=> w.grid[c].kind = "obstacle"
        BY <1>1, <2>2, <2>3
    <2>5. Obstacles(v) = Obstacles(w)
        BY <2>3, <2>4 DEF Obstacles, Cells
    <2>6. /\ DOMAIN v.robots = DOMAIN w.robots
          /\ v.robots[name].x = x /\ v.robots[name].y = y
          /\ \A r \in DOMAIN w.robots :
                /\ r # name => v.robots[r] = w.robots[r]
                /\ v.robots[r].collision_flag = w.robots[r].collision_flag
        BY <1>1, <2>3 DEF Robot
    <2>7. Shift(w, v, name) <= 1
        BY <1>1, <2>6 DEF Shift, abs, x, y
    <2>8. \A r \in DOMAIN w.robots : r # name => Shift(w, v, r) = 0
        BY <2>6, SameShift
    <2>9. Effect(w, v, name, FALSE)
        BY <2>3, <2>5, <2>6, <2>7, <2>8 DEF Effect
    <2> QED BY <2>1, <2>9 DEF result
<1> QED BY <1>2, <1>3

\* Every request; one that names an unknown robot or target does nothing.
Requested(w, name, result) ==
    result.ok \in BOOLEAN /\ Effect(w, result.world, name, ~result.ok)

LEMMA MoveEffect ==
    ASSUME NEW S, NEW w, IsWorld(w, S), Consistent(w), NEW name
    PROVE  LET results == {move_up(w, name), move_down(w, name), move_left(w, name),
                           move_right(w, name), move_forward(w, name)}
           IN  /\ \A result \in results :
                     IF name \in DOMAIN w.robots THEN Requested(w, name, result)
                     ELSE result = Failed(w)
               /\ \A t : IF name \in DOMAIN w.robots /\ t \in DOMAIN w.targets
                         THEN Requested(w, name, move_toward(w, name, t))
                         ELSE move_toward(w, name, t) = Failed(w)
<1>1. CASE name \notin DOMAIN w.robots
    BY <1>1 DEF move_up, move_down, move_left, move_right, move, move_forward, move_toward
<1>2. CASE name \in DOMAIN w.robots
    <2>1. ASSUME NEW dx \in {-1, 0, 1}, NEW dy \in {-1, 0, 1}, dx = 0 \/ dy = 0
          PROVE  Requested(w, name, try_move_robot(w, name, dx, dy))
        BY <1>2, <2>1, TryMoveEffect DEF Requested
    <2>2. Requested(w, name, collide(w, name))
        <3>1. collide(w, name).ok = FALSE
            BY DEF collide
        <3>2. Effect(w, collide(w, name).world, name, ~collide(w, name).ok)
            BY <1>2, <3>1, CollideEffect
        <3> QED BY <3>1, <3>2 DEF Requested
    <2>3. /\ Requested(w, name, move_up(w, name)) /\ Requested(w, name, move_down(w, name))
          /\ Requested(w, name, move_left(w, name)) /\ Requested(w, name, move_right(w, name))
        BY <1>2, <2>1 DEF move_up, move_down, move_left, move_right, move
    <2>4. Requested(w, name, move_forward(w, name))
        <3>1. w.robots[name].direction \in Direction
            BY <1>2, RobotCell
        <3>2. \A d \in Direction :
                 /\ direction_delta(d).x \in {-1, 0, 1} /\ direction_delta(d).y \in {-1, 0, 1}
                 /\ direction_delta(d).x = 0 \/ direction_delta(d).y = 0
            BY DEF Direction, direction_delta
        <3> QED BY <1>2, <2>1, <3>1, <3>2 DEF move_forward
    <2>5. ASSUME NEW t
          PROVE  IF t \in DOMAIN w.targets THEN Requested(w, name, move_toward(w, name, t))
                 ELSE move_toward(w, name, t) = Failed(w)
        BY <1>2, <2>1, <2>2 DEF move_toward
    <2> QED BY <1>2, <2>3, <2>4, <2>5
<1> QED BY <1>1, <1>2

LEMMA TurnEffect ==
    ASSUME NEW S, NEW w, IsWorld(w, S), Consistent(w), NEW name,
           NEW v \in {turn_robot_left(w, name), turn_robot_right(w, name)}
    PROVE  /\ SamePlaces(w, v)
           /\ \A r \in DOMAIN w.robots :
                 v.robots[r].collision_flag = w.robots[r].collision_flag
<1>1. CASE name \notin DOMAIN w.robots
    BY <1>1 DEF turn_robot_left, turn_robot_right, SamePlaces
<1>2. CASE name \in DOMAIN w.robots
    <2>1. PICK d : v = turn_to(w, name, d)
        BY <1>2 DEF turn_robot_left, turn_robot_right
    <2> DEFINE turned == [w.robots[name] EXCEPT !.direction = d]
    <2>2. /\ v.width = w.width /\ v.height = w.height /\ v.grid = w.grid
          /\ v.robots = [w.robots EXCEPT ![name] = turned] /\ v.targets = w.targets
        BY <2>1 DEF turn_to, IsWorld
    <2>3. /\ w.robots \in [DOMAIN w.robots -> Robot]
          /\ turned.x = w.robots[name].x /\ turned.y = w.robots[name].y
          /\ turned.collision_flag = w.robots[name].collision_flag
        BY <1>2 DEF IsWorld, Robot
    <2> HIDE DEF turned
    <2> QED BY <1>2, <2>2, <2>3 DEF SamePlaces
<1> QED BY <1>1, <1>2

LEMMA ClearEffect ==
    ASSUME NEW S, NEW w, IsWorld(w, S), Consistent(w)
    PROVE  LET v == clear_collision_flags(w)
           IN  /\ SamePlaces(w, v)
               /\ \A r \in DOMAIN w.robots : v.robots[r].collision_flag = FALSE
<1> DEFINE v == clear_collision_flags(w)
<1>1. /\ v.width = w.width /\ v.height = w.height /\ v.grid = w.grid
      /\ v.targets = w.targets
      /\ v.robots = [n \in DOMAIN w.robots |-> [w.robots[n] EXCEPT !.collision_flag = FALSE]]
    BY DEF clear_collision_flags, Unflagged, IsWorld
<1>2. \A r \in DOMAIN w.robots :
         LET cleared == [w.robots[r] EXCEPT !.collision_flag = FALSE]
         IN  /\ cleared.x = w.robots[r].x /\ cleared.y = w.robots[r].y
             /\ cleared.collision_flag = FALSE
    BY DEF IsWorld, Robot
<1> HIDE DEF v
<1>3. SamePlaces(w, v) /\ \A r \in DOMAIN w.robots : v.robots[r].collision_flag = FALSE
    BY <1>1, <1>2 DEF SamePlaces
<1> QED BY <1>3 DEF v

LEMMA SamePlacesObstacles ==
    ASSUME NEW w, NEW v, SamePlaces(w, v)
    PROVE  Obstacles(v) = Obstacles(w)
BY DEF SamePlaces, Obstacles, Cells

\* A placement leaves the robots that were there alone; only one of an obstacle adds
\* an obstacle.
Placement(w, v) ==
    /\ DOMAIN w.robots \subseteq DOMAIN v.robots
    /\ \A r \in DOMAIN w.robots : v.robots[r] = w.robots[r]
    /\ \A r \in DOMAIN v.robots \ DOMAIN w.robots : v.robots[r].collision_flag = FALSE
    /\ Obstacles(w) \subseteq Obstacles(v)

LEMMA PlacementEffect ==
    ASSUME NEW S, NEW w, IsWorld(w, S), Consistent(w), NEW x \in Int, NEW y \in Int,
           NEW name
    PROVE  /\ Placement(w, place_robot(w, name, x, y).world)
           /\ Obstacles(place_robot(w, name, x, y).world) = Obstacles(w)
           /\ Placement(w, place_target(w, name, x, y).world)
           /\ Obstacles(place_target(w, name, x, y).world) = Obstacles(w)
           /\ Placement(w, place_obstacle(w, x, y).world)
<1>1. Placement(w, w)
    BY DEF Placement
<1>2. CASE ~is_passable(w, x, y)
    BY <1>1, <1>2 DEF place_robot, place_target, place_obstacle, Failed
<1>3. CASE is_passable(w, x, y)
    <2>1. <<x, y>> \in Cells(w) /\ w.grid[<<x, y>>].kind = "empty"
        BY <1>3, InBoundsCell DEF is_passable, IsWorld
    <2>2. w.grid \in [Cells(w) -> Cell(S)]
        BY DEF IsWorld
    <2>3. ASSUME NEW v, NEW cell, v.width = w.width, v.height = w.height,
                 v.grid = [w.grid EXCEPT ![<<x, y>>] = cell]
          PROVE  /\ Obstacles(w) \subseteq Obstacles(v)
                 /\ cell.kind # "obstacle" => Obstacles(v) = Obstacles(w)
        BY <2>1, <2>2, <2>3 DEF Obstacles, Cells
    <2>4. /\ Placement(w, place_robot(w, name, x, y).world)
          /\ Obstacles(place_robot(w, name, x, y).world) = Obstacles(w)
        <3>1. CASE name \in DOMAIN w.robots
            BY <1>1, <3>1 DEF place_robot, Failed
        <3>2. CASE name \notin DOMAIN w.robots
            <4> DEFINE v == place_robot(w, name, x, y).world
                       robot == [x |-> x, y |-> y, direction |-> "right",
                                 collision_flag |-> FALSE]
            <4>1. /\ v.width = w.width /\ v.height = w.height
                  /\ v.grid = [w.grid EXCEPT ![<<x, y>>] = [kind |-> "robot", label |-> name]]
                  /\ v.robots = With(w.robots, name, robot)
                BY <1>3, <3>2 DEF place_robot, IsWorld
            <4>2. robot.collision_flag = FALSE
                OBVIOUS
            <4> HIDE DEF v, robot
            <4>3. /\ DOMAIN v.robots = DOMAIN w.robots \cup {name}
                  /\ v.robots[name] = robot
                  /\ \A r \in DOMAIN w.robots : v.robots[r] = w.robots[r]
                BY <3>2, <4>1 DEF With
            <4>4. Obstacles(v) = Obstacles(w)
                BY <2>3, <4>1
            <4>5. Placement(w, v)
                BY <3>2, <4>2, <4>3, <4>4 DEF Placement
            <4> QED BY <4>4, <4>5 DEF v
        <3> QED BY <3>1, <3>2
    <2>5. /\ Placement(w, place_target(w, name, x, y).world)
          /\ Obstacles(place_target(w, name, x, y).world) = Obstacles(w)
        <3>1. CASE name \in DOMAIN w.targets
            BY <1>1, <3>1 DEF place_target, Failed
        <3>2. CASE name \notin DOMAIN w.targets
            <4> DEFINE v == place_target(w, name, x, y).world
            <4>1. /\ v.width = w.width /\ v.height = w.height
                  /\ v.grid = [w.grid EXCEPT ![<<x, y>>] = [kind |-> "target", label |-> name]]
                  /\ v.robots = w.robots
                BY <1>3, <3>2 DEF place_target, IsWorld
            <4> HIDE DEF v
            <4>2. Obstacles(v) = Obstacles(w)
                BY <2>3, <4>1
            <4>3. Placement(w, v)
                BY <4>1, <4>2 DEF Placement
            <4> QED BY <4>2, <4>3 DEF v
        <3> QED BY <3>1, <3>2
    <2>6. Placement(w, place_obstacle(w, x, y).world)
        <3> DEFINE v == place_obstacle(w, x, y).world
        <3>1. /\ v.width = w.width /\ v.height = w.height /\ v.robots = w.robots
              /\ v.grid = [w.grid EXCEPT
                    ![<<x, y>>] = [kind |-> "obstacle", label |-> NoLabel]]
            BY <1>3 DEF place_obstacle, IsWorld
        <3> HIDE DEF v
        <3>2. Placement(w, v)
            BY <2>3, <3>1 DEF Placement
        <3> QED BY <3>2 DEF v
    <2> QED BY <2>4, <2>5, <2>6
<1> QED BY <1>2, <1>3

-----------------------------------------------------------------------------
(* Targets and distances.                                                   *)

\* Every target is inside the world, though a robot may have taken its cell.
TargetsInside(w) ==
    \A t \in DOMAIN w.targets : in_bounds(w, w.targets[t].x, w.targets[t].y)

LEMMA SameTargetsInside ==
    ASSUME NEW w, TargetsInside(w), NEW v, v.targets = w.targets,
           v.width = w.width, v.height = w.height
    PROVE  TargetsInside(v)
BY DEF TargetsInside, in_bounds

LEMMA PlacementTargets ==
    ASSUME NEW S, NEW w, IsWorld(w, S), TargetsInside(w), NEW name,
           NEW x \in Int, NEW y \in Int
    PROVE  /\ TargetsInside(place_robot(w, name, x, y).world)
           /\ TargetsInside(place_target(w, name, x, y).world)
           /\ TargetsInside(place_obstacle(w, x, y).world)
<1>1. CASE ~is_passable(w, x, y)
    BY <1>1 DEF place_robot, place_target, place_obstacle, Failed
<1>2. CASE is_passable(w, x, y)
    <2>1. TargetsInside(place_robot(w, name, x, y).world)
        BY <1>2, SameTargetsInside DEF place_robot, Failed, IsWorld
    <2>2. TargetsInside(place_obstacle(w, x, y).world)
        BY <1>2, SameTargetsInside DEF place_obstacle, IsWorld
    <2>3. CASE name \in DOMAIN w.targets
        BY <2>1, <2>2, <2>3 DEF place_target, Failed
    <2>4. CASE name \notin DOMAIN w.targets
        <3> DEFINE v == place_target(w, name, x, y).world
                   target == [x |-> x, y |-> y]
        <3>1. /\ v.width = w.width /\ v.height = w.height
              /\ v.targets = With(w.targets, name, target)
            BY <1>2, <2>4 DEF place_target, IsWorld
        <3>2. target.x = x /\ target.y = y /\ in_bounds(w, x, y)
            BY <1>2 DEF is_passable
        <3> HIDE DEF v, target
        <3>3. TargetsInside(v)
            BY <3>1, <3>2 DEF With, TargetsInside, in_bounds
        <3> QED BY <2>1, <2>2, <3>3 DEF v
    <2> QED BY <2>3, <2>4
<1> QED BY <1>1, <1>2

\* The width and the height bound every distance.
LEMMA DistanceBound ==
    ASSUME NEW S, NEW w, IsWorld(w, S), Consistent(w), TargetsInside(w), NEW name, NEW t
    PROVE  distance_to(w, name, t) \in 0 .. w.width + w.height - 2
<1>. w.width \in Nat \ {0} /\ w.height \in Nat \ {0}
    BY DEF IsWorld
<1>1. CASE name \notin DOMAIN w.robots \/ t \notin DOMAIN w.targets
    BY <1>1 DEF distance_to
<1>2. CASE name \in DOMAIN w.robots /\ t \in DOMAIN w.targets
    <2>1. /\ w.robots[name].x \in Int /\ w.robots[name].y \in Int
          /\ in_bounds(w, w.robots[name].x, w.robots[name].y)
        BY <1>2, RobotCell DEF Consistent, RobotsOnGrid
    <2>2. w.targets[t].x \in Int /\ w.targets[t].y \in Int
        BY <1>2 DEF IsWorld, Target
    <2>3. in_bounds(w, w.targets[t].x, w.targets[t].y)
        BY <1>2 DEF TargetsInside
    <2> QED BY <1>2, <2>1, <2>2, <2>3 DEF distance_to, in_bounds, abs
<1> QED BY <1>1, <1>2

-----------------------------------------------------------------------------
(* Placements that succeed.                                                 *)

\* The world v is w with something at <<x, y>>.
Filled(w, v, x, y) ==
    /\ v.width = w.width /\ v.height = w.height
    /\ \A c \in Cells(w) : v.grid[c].kind # "empty"
                               => c = <<x, y>> \/ w.grid[c].kind # "empty"

LEMMA FilledAt ==
    ASSUME NEW S, NEW w, IsWorld(w, S), NEW x, NEW y, NEW v, NEW cell,
           v.width = w.width, v.height = w.height,
           v.grid = [w.grid EXCEPT ![<<x, y>>] = cell]
    PROVE  Filled(w, v, x, y)
BY DEF Filled, IsWorld

LEMMA PlacementFills ==
    ASSUME NEW S, NEW w, IsWorld(w, S), NEW x \in Int, NEW y \in Int, is_passable(w, x, y),
           NEW name
    PROVE  /\ name \notin DOMAIN w.robots =>
                 LET placed == place_robot(w, name, x, y)
                 IN  /\ placed.ok /\ Filled(w, placed.world, x, y)
                     /\ DOMAIN placed.world.robots = DOMAIN w.robots \cup {name}
                     /\ placed.world.targets = w.targets
           /\ name \notin DOMAIN w.targets =>
                 LET placed == place_target(w, name, x, y)
                 IN  /\ placed.ok /\ Filled(w, placed.world, x, y)
                     /\ DOMAIN placed.world.targets = DOMAIN w.targets \cup {name}
                     /\ placed.world.robots = w.robots
<1>1. ASSUME name \notin DOMAIN w.robots
      PROVE  LET placed == place_robot(w, name, x, y)
             IN  /\ placed.ok /\ Filled(w, placed.world, x, y)
                 /\ DOMAIN placed.world.robots = DOMAIN w.robots \cup {name}
                 /\ placed.world.targets = w.targets
    <2> DEFINE placed == place_robot(w, name, x, y)
               v == placed.world
               robot == [x |-> x, y |-> y, direction |-> "right", collision_flag |-> FALSE]
    <2>1. /\ placed.ok /\ v.width = w.width /\ v.height = w.height
          /\ v.grid = [w.grid EXCEPT ![<<x, y>>] = [kind |-> "robot", label |-> name]]
          /\ v.robots = With(w.robots, name, robot) /\ v.targets = w.targets
        BY <1>1 DEF place_robot, IsWorld
    <2> HIDE DEF placed, robot
    <2>2. DOMAIN v.robots = DOMAIN w.robots \cup {name}
        BY <2>1 DEF With
    <2>3. Filled(w, v, x, y)
        BY <2>1, FilledAt
    <2> QED BY <2>1, <2>2, <2>3 DEF placed
<1>2. ASSUME name \notin DOMAIN w.targets
      PROVE  LET placed == place_target(w, name, x, y)
             IN  /\ placed.ok /\ Filled(w, placed.world, x, y)
                 /\ DOMAIN placed.world.targets = DOMAIN w.targets \cup {name}
                 /\ placed.world.robots = w.robots
    <2> DEFINE placed == place_target(w, name, x, y)
               v == placed.world
               target == [x |-> x, y |-> y]
    <2>1. /\ placed.ok /\ v.width = w.width /\ v.height = w.height
          /\ v.grid = [w.grid EXCEPT ![<<x, y>>] = [kind |-> "target", label |-> name]]
          /\ v.targets = With(w.targets, name, target) /\ v.robots = w.robots
        BY <1>2 DEF place_target, IsWorld
    <2> HIDE DEF placed, target
    <2>2. DOMAIN v.targets = DOMAIN w.targets \cup {name}
        BY <2>1 DEF With
    <2>3. Filled(w, v, x, y)
        BY <2>1, FilledAt
    <2> QED BY <2>1, <2>2, <2>3 DEF placed
<1> QED BY <1>1, <1>2

LEMMA ObstacleFills ==
    ASSUME NEW S, NEW w, IsWorld(w, S), NEW x \in Int, NEW y \in Int, is_passable(w, x, y)
    PROVE  LET placed == place_obstacle(w, x, y)
           IN  /\ placed.ok /\ Filled(w, placed.world, x, y)
               /\ placed.world.robots = w.robots /\ placed.world.targets = w.targets
<1> DEFINE placed == place_obstacle(w, x, y)
           v == placed.world
<1>1. /\ placed.ok /\ v.width = w.width /\ v.height = w.height
      /\ v.grid = [w.grid EXCEPT ![<<x, y>>] = [kind |-> "obstacle", label |-> NoLabel]]
      /\ v.targets = w.targets /\ v.robots = w.robots
    BY DEF place_obstacle, IsWorld
<1> HIDE DEF placed
<1>2. Filled(w, v, x, y)
    BY <1>1, FilledAt
<1> QED BY <1>1, <1>2 DEF placed
=============================================================================
