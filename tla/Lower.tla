--------------------------------- MODULE Lower ---------------------------------
(***************************************************************************)
(* From the syntax tree to the IR: src/ir/lower.cpp with src/ir/builder.cpp. *)
(* The builder is a record [code, label_counter, error] threaded through   *)
(* the tree; after the first error nothing is emitted, and the error is    *)
(* the result.                                                             *)
(***************************************************************************)
EXTENDS Ast, Ir

EmptyBuilder == [code |-> << >>, label_counter |-> 0, error |-> ""]

emit(builder, instructions) ==
    IF builder.error # "" THEN builder
    ELSE [builder EXCEPT !.code = @ \o instructions]

report_error(builder, message) ==
    IF builder.error # "" THEN builder ELSE [builder EXCEPT !.error = message]

\* The k-th new label (from 0) after this point of the building.
new_label(prefix, builder, k) ==
    prefix \o "_" \o ToString(builder.label_counter + k)

LabelsTaken(builder, n) == [builder EXCEPT !.label_counter = @ + n]

-----------------------------------------------------------------------------
(* Expressions.                                                              *)

ActionOpcodes ==
    [move_up |-> "MoveUp", move_down |-> "MoveDown", move_left |-> "MoveLeft",
     move_right |-> "MoveRight", move_forward |-> "MoveForward",
     turn_left |-> "TurnLeft", turn_right |-> "TurnRight",
     obstacle_ahead |-> "ObstacleAhead", collision |-> "Collision"]

TargetOpcodes == [move_toward |-> "MoveToward", distance_to |-> "DistanceTo"]

lower_call(builder, call, robot_end) ==
    CASE call.callee \in DOMAIN ActionOpcodes ->
            emit(builder, <<Ir(ActionOpcodes[call.callee])>>)
      [] call.callee = "stop" ->
            emit(builder, <<Ir("Stop"), IrText("Jump", robot_end)>>)
      [] call.callee \in DOMAIN TargetOpcodes ->
            IF Len(call.arguments) # 1
            THEN report_error(builder, "expects 1 argument")
            ELSE IF call.arguments[1].expr # "variable"
            THEN report_error(builder, "requires a target name")
            ELSE emit(builder, <<IrText(TargetOpcodes[call.callee],
                                        call.arguments[1].name)>>)
      [] OTHER -> report_error(builder, "unknown function")

RECURSIVE lower_expression(_, _, _)
lower_expression(builder, e, robot_end) ==
    CASE e.expr = "int" -> emit(builder, <<IrInt(e.int)>>)
      [] e.expr = "bool" -> emit(builder, <<IrBool(e.bool)>>)
      [] e.expr = "variable" -> emit(builder, <<IrText("LoadVar", e.name)>>)
      [] e.expr = "binary" ->
            emit(lower_expression(lower_expression(builder, e.left, robot_end),
                                  e.right, robot_end),
                 <<Ir(e.op)>>)
      [] e.expr = "unary" ->
            emit(lower_expression(builder, e.operand, robot_end), <<Ir(e.op)>>)
      [] e.expr = "call" -> lower_call(builder, e, robot_end)
      [] e.expr = "assign" ->
            emit(lower_expression(builder, e.value, robot_end),
                 <<IrText("StoreVar", e.name)>>)

-----------------------------------------------------------------------------
(* Statements.                                                               *)

RECURSIVE lower_statement(_, _, _)
lower_statement(builder, s, robot_end) ==
    IF builder.error # "" THEN builder
    ELSE CASE s.stmt = "expr" ->
                emit(lower_expression(builder, s.expression, robot_end),
                     IF s.expression.expr = "assign" THEN << >> ELSE <<Ir("Pop")>>)
           [] s.stmt = "block" ->
                FoldLeft(LAMBDA b, inner : lower_statement(b, inner, robot_end),
                         builder, s.statements)
           [] s.stmt = "if" ->
                LET condition == lower_expression(builder, s.condition, robot_end)
                    else_label == new_label("else", condition, 0)
                    end_label == new_label("endif", condition, 1)
                    then == lower_statement(
                        emit(LabelsTaken(condition, 2),
                             <<IrText("JumpIfFalse", else_label)>>),
                        s.then_branch, robot_end)
                IN  IF s.else_branch = << >>
                    THEN emit(then, <<IrText("Label", else_label)>>)
                    ELSE emit(lower_statement(
                                emit(then, <<IrText("Jump", end_label),
                                             IrText("Label", else_label)>>),
                                s.else_branch[1], robot_end),
                              <<IrText("Label", end_label)>>)

-----------------------------------------------------------------------------
(* Programs.                                                                 *)

lower_entity(d) ==
    CASE d.decl = "robot" -> IrPlace("Robot", d.name, d.x, d.y)
      [] d.decl = "target" -> IrPlace("Target", d.name, d.x, d.y)
      [] d.decl = "obstacle" -> IrPlace("Obstacle", "", d.x, d.y)

\* A robot with a behaviour: its every-tick blocks, one after the other.
lower_behavior(builder, d) ==
    LET robot_end == new_label("robot_end", builder, 0)
        loaded == emit(LabelsTaken(builder, 1), <<IrText("LoadAgent", d.robot_name)>>)
    IN  emit(FoldLeft(LAMBDA b, block : lower_statement(b, block, robot_end),
                      loaded, d.event_blocks),
             <<IrText("Label", robot_end)>>)

\* [code, label_counter, error]; the code is the result when there is no error.
lower(declarations) ==
    LET worlds == Declared(declarations, {"world"})
        robots == Declared(declarations, {"robot"})
        entities == Declared(declarations, {"robot", "target", "obstacle"})
        Behaviors(name) == SelectSeq(Declared(declarations, {"behavior"}),
                                     LAMBDA d : d.robot_name = name)
        created == <<IrPlace("World", "", Last(worlds).width, Last(worlds).height)>>
                   \o [i \in 1 .. Len(entities) |-> lower_entity(entities[i])]
                   \o <<IrText("Label", "tick_loop"), Ir("BeginTick")>>
        acted == FoldLeft(LAMBDA b, robot :
                            IF Behaviors(robot.name) = << >> THEN b
                            ELSE lower_behavior(b, Last(Behaviors(robot.name))),
                          emit(EmptyBuilder, created), robots)
    IN  IF worlds = << >> THEN report_error(EmptyBuilder, "program must declare a world")
        ELSE emit(acted, <<Ir("EndTick"), IrText("Jump", "tick_loop")>>)
=============================================================================
