------------------------------- MODULE Semantics -------------------------------
(***************************************************************************)
(* What running a program promises (docs/semantics.md, section 7, which    *)
(* the comment in src/ir/lower.cpp repeats), in terms of the syntax tree   *)
(* and the reference executor alone: the sequence of frames of the tick    *)
(* log, and how the run ends.  There is no IR, bytecode or stack here, and *)
(* a whole tick of all the robots is one step.                             *)
(***************************************************************************)
EXTENDS Executor

CONSTANTS
    Sources,        \* programs (sequences of declarations), by name
    TickCounts      \* the tick counts the host may ask for

VARIABLES
    source,         \* the name of the program that runs
    max_ticks,
    frames,         \* [tick, world], from the initial world on
    status          \* "running", "ok", "error", "aborted"

vars == <<source, max_ticks, frames, status>>

declarations == Sources[source]

place_entity(world, d) ==
    CASE d.decl = "robot" -> place_robot(world, d.name, d.x, d.y).world
      [] d.decl = "target" -> place_target(world, d.name, d.x, d.y).world
      [] d.decl = "obstacle" -> place_obstacle(world, d.x, d.y).world

\* The world that the declarations describe.
Declaration(program) ==
    LET size == Declared(program, {"world"})[1]
    IN  FoldLeft(place_entity, NewWorld(size.width, size.height),
                 Declared(program, {"robot", "target", "obstacle"}))

\* One tick: the flags are cleared, then each robot with a behaviour acts, in
\* the order of the robot declarations.
TickOf(program, world) ==
    LET Behaviors(robot) == SelectSeq(Declared(program, {"behavior"}),
                                      LAMBDA d : d.robot_name = robot.name)
        ActOf(e, robot) ==
            IF Threw(e) \/ Behaviors(robot) = << >> THEN e
            ELSE execute_blocks(e.world, Behaviors(robot)[1].event_blocks, robot.name)
    IN  FoldLeft(ActOf, NewExecutor(clear_collision_flags(world)),
                 Declared(program, {"robot"}))

Init ==
    /\ source \in DOMAIN Sources
    /\ max_ticks \in TickCounts
    /\ frames = << >>
    /\ status = IF max_ticks < 0 THEN "error" ELSE "running"

Build ==
    /\ status = "running" /\ frames = << >>
    /\ frames' = <<[tick |-> 0, world |-> Declaration(declarations)]>>
    /\ UNCHANGED <<source, max_ticks, status>>

RunTick ==
    /\ status = "running" /\ Len(frames) \in 1 .. max_ticks
    /\ <<frames, status>>' # <<frames, status>>  \* (TLC need not run the rest else)
    /\ LET end == TickOf(declarations, Last(frames).world)
       IN  IF Threw(end)
           THEN /\ status' = IF end.error = "trap" THEN "aborted" ELSE "error"
                /\ UNCHANGED frames
           ELSE /\ frames' = Append(frames, [tick |-> Len(frames), world |-> end.world])
                /\ UNCHANGED status
    /\ UNCHANGED <<source, max_ticks>>

Finish ==
    /\ status = "running" /\ Len(frames) = max_ticks + 1
    /\ status' = "ok"
    /\ UNCHANGED <<source, max_ticks, frames>>

Next == Build \/ RunTick \/ Finish

Spec == Init /\ [][Next]_vars
=============================================================================
