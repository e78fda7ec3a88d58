-------------------------------- MODULE World --------------------------------
(***************************************************************************)
(* The grid world of the runtime: src/runtime/types.cpp and                *)
(* src/runtime/world.cpp.                                                  *)
(*                                                                         *)
(* A world is a value (class World has value semantics: Simulation copies  *)
(* it), so every member function is an operator on a world record:         *)
(*   width, height   width_ and height_                                    *)
(*   grid            grid_, indexed by <<x, y>> instead of y * width_ + x  *)
(*   robots, targets robots_ with robot_index_ (targets_ with              *)
(*                   target_index_): a function on the names placed so far *)
(* A member function that returns a bool and changes the world returns     *)
(* [ok, world].                                                            *)
(***************************************************************************)
EXTENDS Integers

Direction == {"up", "right", "down", "left"}
CellKind == {"empty", "obstacle", "target", "robot"}
NoLabel == ""

turn_left(direction) ==
    CASE direction = "up"    -> "left"
      [] direction = "left"  -> "down"
      [] direction = "down"  -> "right"
      [] direction = "right" -> "up"

turn_right(direction) ==
    CASE direction = "up"    -> "right"
      [] direction = "right" -> "down"
      [] direction = "down"  -> "left"
      [] direction = "left"  -> "up"

\* (0,0) is the top left corner: y decreases upward.
direction_delta(direction) ==
    CASE direction = "up"    -> [x |-> 0, y |-> -1]
      [] direction = "right" -> [x |-> 1, y |-> 0]
      [] direction = "down"  -> [x |-> 0, y |-> 1]
      [] direction = "left"  -> [x |-> -1, y |-> 0]

abs(n) == IF n < 0 THEN -n ELSE n

-----------------------------------------------------------------------------
(* The shape of a world over the names in Robots and Targets.              *)

Cells(w) == (0 .. w.width - 1) \X (0 .. w.height - 1)

Cell(Names) == [kind : CellKind, label : Names \cup {NoLabel}]

Robot == [x : Int, y : Int, direction : Direction, collision_flag : BOOLEAN]

Target == [x : Int, y : Int]

IsWorld(w, Names) ==
    /\ w = [width |-> w.width, height |-> w.height, grid |-> w.grid,
            robots |-> w.robots, targets |-> w.targets]
    /\ w.width \in Nat \ {0} /\ w.height \in Nat \ {0}
    /\ w.grid \in [Cells(w) -> Cell(Names)]
    /\ DOMAIN w.robots \subseteq Names
    /\ w.robots \in [DOMAIN w.robots -> Robot]
    /\ DOMAIN w.targets \subseteq Names
    /\ w.targets \in [DOMAIN w.targets -> Target]

\* The constructor, for positive dimensions (it throws for any other).
NewWorld(width, height) ==
    [width   |-> width,
     height  |-> height,
     grid    |-> [c \in (0 .. width - 1) \X (0 .. height - 1) |->
                     [kind |-> "empty", label |-> NoLabel]],
     robots  |-> [name \in {} |-> {}],
     targets |-> [name \in {} |-> {}]]

-----------------------------------------------------------------------------
(* Cells.                                                                  *)

in_bounds(w, x, y) == x >= 0 /\ y >= 0 /\ x < w.width /\ y < w.height

is_passable(w, x, y) ==
    in_bounds(w, x, y) /\ w.grid[<<x, y>>].kind = "empty"

\* Mutants of can_enter_cell: only obstacles block; only robots block.
ObstaclesBlock(w, x, y) == in_bounds(w, x, y) /\ w.grid[<<x, y>>].kind # "obstacle"
RobotsBlock(w, x, y) == in_bounds(w, x, y) /\ w.grid[<<x, y>>].kind # "robot"

can_enter_cell(w, x, y) ==
    in_bounds(w, x, y) /\ w.grid[<<x, y>>].kind \in {"empty", "target"}

-----------------------------------------------------------------------------
(* Placement.                                                              *)

Failed(w) == [ok |-> FALSE, world |-> w]

\* A function extended with (or changed at) one point.
With(f, k, v) == [n \in DOMAIN f \cup {k} |-> IF n = k THEN v ELSE f[n]]

place_robot(w, name, x, y) ==
    IF name \in DOMAIN w.robots \/ ~is_passable(w, x, y) THEN Failed(w)
    ELSE [ok |-> TRUE,
          world |-> [w EXCEPT
              !.robots = With(w.robots, name,
                              [x |-> x, y |-> y, direction |-> "right",
                               collision_flag |-> FALSE]),
              !.grid[<<x, y>>] = [kind |-> "robot", label |-> name]]]

place_target(w, name, x, y) ==
    IF name \in DOMAIN w.targets \/ ~is_passable(w, x, y) THEN Failed(w)
    ELSE [ok |-> TRUE,
          world |-> [w EXCEPT
              !.targets = With(w.targets, name, [x |-> x, y |-> y]),
              !.grid[<<x, y>>] = [kind |-> "target", label |-> name]]]

place_obstacle(w, x, y) ==
    IF ~is_passable(w, x, y) THEN Failed(w)
    ELSE [ok |-> TRUE,
          world |-> [w EXCEPT
              !.grid[<<x, y>>] = [kind |-> "obstacle", label |-> NoLabel]]]

-----------------------------------------------------------------------------
(* Movement.                                                               *)

collide(w, name) ==
    [ok |-> FALSE,
     world |-> [w EXCEPT !.robots[name] = [@ EXCEPT !.collision_flag = TRUE]]]

\* Mutants of try_move_robot: the old cell keeps the robot; a move that succeeds
\* clears the flag.
MoveLeavesCell(w, name, dx, dy) ==
    LET x == w.robots[name].x + dx
        y == w.robots[name].y + dy
    IN  IF ~can_enter_cell(w, x, y) THEN collide(w, name)
        ELSE [ok |-> TRUE,
              world |-> [w EXCEPT !.grid[<<x, y>>] = [kind |-> "robot", label |-> name],
                                  !.robots[name] = [@ EXCEPT !.x = x, !.y = y]]]

MoveClearsFlag(w, name, dx, dy) ==
    LET robot == w.robots[name]
        x == robot.x + dx
        y == robot.y + dy
    IN  IF ~can_enter_cell(w, x, y) THEN collide(w, name)
        ELSE [ok |-> TRUE,
              world |-> [w EXCEPT
                  !.grid = [@ EXCEPT
                      ![<<robot.x, robot.y>>] = [kind |-> "empty", label |-> NoLabel],
                      ![<<x, y>>] = [kind |-> "robot", label |-> name]],
                  !.robots[name] = [robot EXCEPT !.x = x, !.y = y,
                                                 !.collision_flag = FALSE]]]

try_move_robot(w, name, dx, dy) ==
    LET robot == w.robots[name]
        x == robot.x + dx
        y == robot.y + dy
    IN  IF ~can_enter_cell(w, x, y) THEN collide(w, name)
        ELSE [ok |-> TRUE,
              world |-> [w EXCEPT
                  !.grid = [@ EXCEPT
                      ![<<robot.x, robot.y>>] = [kind |-> "empty", label |-> NoLabel],
                      ![<<x, y>>] = [kind |-> "robot", label |-> name]],
                  !.robots[name] = [robot EXCEPT !.x = x, !.y = y]]]

\* move_up, move_down, move_left, move_right: a fixed step for a known robot.
move(w, name, dx, dy) ==
    IF name \notin DOMAIN w.robots THEN Failed(w)
    ELSE try_move_robot(w, name, dx, dy)

move_up(w, name)    == move(w, name, 0, -1)
move_down(w, name)  == move(w, name, 0, 1)
move_left(w, name)  == move(w, name, -1, 0)
move_right(w, name) == move(w, name, 1, 0)

move_forward(w, name) ==
    IF name \notin DOMAIN w.robots THEN Failed(w)
    ELSE LET delta == direction_delta(w.robots[name].direction)
         IN  try_move_robot(w, name, delta.x, delta.y)

\* Mutants of move_toward: the shorter axis first; both axes at once.
TowardShorterAxis(w, name, target_name) ==
    IF name \notin DOMAIN w.robots \/ target_name \notin DOMAIN w.targets
    THEN Failed(w)
    ELSE LET dx == w.targets[target_name].x - w.robots[name].x
             dy == w.targets[target_name].y - w.robots[name].y
         IN  IF dx = 0 /\ dy = 0 THEN collide(w, name)
             ELSE IF abs(dx) <= abs(dy)
             THEN try_move_robot(w, name, IF dx > 0 THEN 1 ELSE -1, 0)
             ELSE try_move_robot(w, name, 0, IF dy > 0 THEN 1 ELSE -1)

TowardDiagonally(w, name, target_name) ==
    IF name \notin DOMAIN w.robots \/ target_name \notin DOMAIN w.targets
    THEN Failed(w)
    ELSE LET dx == w.targets[target_name].x - w.robots[name].x
             dy == w.targets[target_name].y - w.robots[name].y
         IN  IF dx = 0 /\ dy = 0 THEN collide(w, name)
             ELSE try_move_robot(w, name, IF dx > 0 THEN 1 ELSE IF dx < 0 THEN -1 ELSE 0,
                                          IF dy > 0 THEN 1 ELSE IF dy < 0 THEN -1 ELSE 0)

\* Only the longer axis is tried (x when they are equal), and a robot that is
\* already there collides.
move_toward(w, name, target_name) ==
    IF name \notin DOMAIN w.robots \/ target_name \notin DOMAIN w.targets
    THEN Failed(w)
    ELSE LET dx == w.targets[target_name].x - w.robots[name].x
             dy == w.targets[target_name].y - w.robots[name].y
         IN  IF dx = 0 /\ dy = 0 THEN collide(w, name)
             ELSE IF abs(dx) >= abs(dy)
             THEN try_move_robot(w, name, IF dx > 0 THEN 1 ELSE -1, 0)
             ELSE try_move_robot(w, name, 0, IF dy > 0 THEN 1 ELSE -1)

-----------------------------------------------------------------------------
(* Turning and queries.                                                    *)

turn_to(w, name, direction) ==
    [w EXCEPT !.robots[name] = [@ EXCEPT !.direction = direction]]

turn_robot_left(w, name) ==
    IF name \notin DOMAIN w.robots THEN w
    ELSE turn_to(w, name, turn_left(w.robots[name].direction))

turn_robot_right(w, name) ==
    IF name \notin DOMAIN w.robots THEN w
    ELSE turn_to(w, name, turn_right(w.robots[name].direction))

distance_to(w, name, target_name) ==
    IF name \notin DOMAIN w.robots \/ target_name \notin DOMAIN w.targets THEN 0
    ELSE abs(w.robots[name].x - w.targets[target_name].x)
         + abs(w.robots[name].y - w.targets[target_name].y)

\* Mutant of obstacle_ahead: targets and robots count as obstacles.
AnythingAhead(w, name) ==
    IF name \notin DOMAIN w.robots THEN TRUE
    ELSE LET delta == direction_delta(w.robots[name].direction)
         IN  ~is_passable(w, w.robots[name].x + delta.x, w.robots[name].y + delta.y)

obstacle_ahead(w, name) ==
    IF name \notin DOMAIN w.robots THEN TRUE
    ELSE LET delta == direction_delta(w.robots[name].direction)
             x == w.robots[name].x + delta.x
             y == w.robots[name].y + delta.y
         IN  ~in_bounds(w, x, y) \/ w.grid[<<x, y>>].kind = "obstacle"

collision(w, name) ==
    name \in DOMAIN w.robots /\ w.robots[name].collision_flag

Unflagged(robots) ==
    [name \in DOMAIN robots |-> [robots[name] EXCEPT !.collision_flag = FALSE]]

clear_collision_flags(w) == [w EXCEPT !.robots = Unflagged(@)]

-----------------------------------------------------------------------------
(* What every world reached through these operations should satisfy.       *)

\* Each robot is inside the world, on a cell that carries its name.
RobotsOnGrid(w) ==
    \A name \in DOMAIN w.robots :
        /\ in_bounds(w, w.robots[name].x, w.robots[name].y)
        /\ w.grid[<<w.robots[name].x, w.robots[name].y>>]
               = [kind |-> "robot", label |-> name]

\* A robot cell is the cell of the robot it names, and of no other.
GridHoldsRobots(w) ==
    \A c \in Cells(w) : w.grid[c].kind = "robot" =>
        /\ w.grid[c].label \in DOMAIN w.robots
        /\ c = <<w.robots[w.grid[c].label].x, w.robots[w.grid[c].label].y>>

\* A target cell is the cell of the target it names.
GridHoldsTargets(w) ==
    \A c \in Cells(w) : w.grid[c].kind = "target" =>
        /\ w.grid[c].label \in DOMAIN w.targets
        /\ c = <<w.targets[w.grid[c].label].x, w.targets[w.grid[c].label].y>>

Consistent(w) == RobotsOnGrid(w) /\ GridHoldsRobots(w) /\ GridHoldsTargets(w)

Obstacles(w) == {c \in Cells(w) : w.grid[c].kind = "obstacle"}
=============================================================================
