------------------------------- MODULE Executor -------------------------------
(***************************************************************************)
(* The reference executor, which walks the syntax tree:                    *)
(* src/runtime/executor.cpp.  An Executor of a robot is a record           *)
(*   world      the world of its simulation                                *)
(*   variables  variables_: a function on the names assigned so far        *)
(*   stopped    stopped_                                                   *)
(*   value      what the last expression evaluated to                      *)
(*   error      the RuntimeException thrown; "" when none                  *)
(* threaded through the statements and expressions in the order they are   *)
(* evaluated; nothing is evaluated after an error.                         *)
(***************************************************************************)
EXTENDS World, Arith, Ast, SequencesExt

NewExecutor(world) ==
    [world |-> world, variables |-> [name \in {} |-> 0], stopped |-> FALSE,
     value |-> Int32(0), error |-> ""]

raise_error(e, message) == [e EXCEPT !.error = message]
Threw(e) == e.error # ""
Yield(e, value) == [e EXCEPT !.value = value]
OnWorld(e, world) == [e EXCEPT !.world = world, !.value = Int32(0)]

-----------------------------------------------------------------------------
(* Expressions.                                                              *)

apply_binary(e, op, left, right) ==
    CASE op \in ArithOps ->
            IF left.kind # "int" \/ right.kind # "int"
            THEN raise_error(e, "arithmetic operands must be integers")
            ELSE IF op = "Div" /\ right.int = 0 THEN raise_error(e, "division by zero")
            ELSE IF Traps(op, left.int, right.int) THEN raise_error(e, "trap")
            ELSE Yield(e, Int32(Calculate(op, left.int, right.int)))
      [] op \in CompareOps ->
            IF left.kind # "int" \/ right.kind # "int"
            THEN raise_error(e, "comparison operands must be integers")
            ELSE Yield(e, Bool(Compare(op, left.int, right.int)))
      [] op \in EqualityOps ->
            IF left.kind # right.kind
            THEN raise_error(e, "equality operands must have the same type")
            ELSE Yield(e, Bool(Equal(left, right) = (op = "Eq")))

apply_unary(e, op, operand) ==
    CASE op = "Not" ->
            IF operand.kind # "bool"
            THEN raise_error(e, "logical not requires a boolean operand")
            ELSE Yield(e, Bool(~operand.bool))
      [] op = "Neg" ->
            IF operand.kind # "int"
            THEN raise_error(e, "unary minus requires an integer operand")
            ELSE Yield(e, Int32(Wrap(-operand.int)))

evaluate_target_call(e, call, robot) ==
    IF Len(call.arguments) # 1 THEN raise_error(e, "expects one target argument")
    ELSE IF call.arguments[1].expr # "variable"
    THEN raise_error(e, "requires a target name")
    ELSE LET target == call.arguments[1].name
         IN  IF call.callee = "move_toward"
             THEN OnWorld(e, move_toward(e.world, robot, target).world)
             ELSE Yield(e, Int32(distance_to(e.world, robot, target)))

evaluate_call(e, call, robot) ==
    LET w == e.world
    IN  CASE call.callee = "move_up" -> OnWorld(e, move_up(w, robot).world)
          [] call.callee = "move_down" -> OnWorld(e, move_down(w, robot).world)
          [] call.callee = "move_left" -> OnWorld(e, move_left(w, robot).world)
          [] call.callee = "move_right" -> OnWorld(e, move_right(w, robot).world)
          [] call.callee = "move_forward" -> OnWorld(e, move_forward(w, robot).world)
          [] call.callee = "turn_left" -> OnWorld(e, turn_robot_left(w, robot))
          [] call.callee = "turn_right" -> OnWorld(e, turn_robot_right(w, robot))
          [] call.callee = "stop" -> [Yield(e, Int32(0)) EXCEPT !.stopped = TRUE]
          [] call.callee \in {"move_toward", "distance_to"} ->
                evaluate_target_call(e, call, robot)
          [] call.callee = "obstacle_ahead" -> Yield(e, Bool(obstacle_ahead(w, robot)))
          [] call.callee = "collision" -> Yield(e, Bool(collision(w, robot)))
          [] OTHER -> raise_error(e, "unknown function")

RECURSIVE evaluate_expression(_, _, _)
evaluate_expression(e, x, robot) ==
    CASE x.expr = "int" -> Yield(e, Int32(x.int))
      [] x.expr = "bool" -> Yield(e, Bool(x.bool))
      [] x.expr = "variable" ->
            IF x.name \notin DOMAIN e.variables THEN raise_error(e, "unknown variable")
            ELSE Yield(e, e.variables[x.name])
      [] x.expr = "binary" ->
            LET left == evaluate_expression(e, x.left, robot)
                right == evaluate_expression(left, x.right, robot)
            IN  IF Threw(left) THEN left
                ELSE IF Threw(right) THEN right
                ELSE apply_binary(right, x.op, left.value, right.value)
      [] x.expr = "unary" ->
            LET operand == evaluate_expression(e, x.operand, robot)
            IN  IF Threw(operand) THEN operand
                ELSE apply_unary(operand, x.op, operand.value)
      [] x.expr = "call" -> evaluate_call(e, x, robot)
      [] x.expr = "assign" ->
            LET value == evaluate_expression(e, x.value, robot)
            IN  IF Threw(value) THEN value
                ELSE [value EXCEPT !.variables = With(@, x.name, value.value)]

-----------------------------------------------------------------------------
(* Statements.                                                               *)

RECURSIVE execute_statement(_, _, _)
execute_statement(e, s, robot) ==
    CASE s.stmt = "expr" -> evaluate_expression(e, s.expression, robot)
      [] s.stmt = "block" ->
            FoldLeft(LAMBDA d, inner : IF d.stopped \/ Threw(d) THEN d
                                       ELSE execute_statement(d, inner, robot),
                     e, s.statements)
      [] s.stmt = "if" ->
            LET condition == evaluate_expression(e, s.condition, robot)
            IN  IF Threw(condition) THEN condition
                ELSE IF condition.value.kind # "bool"
                THEN raise_error(condition, "expected boolean expression")
                ELSE IF condition.value.bool
                THEN execute_statement(condition, s.then_branch, robot)
                ELSE IF s.else_branch # << >>
                THEN execute_statement(condition, s.else_branch[1], robot)
                ELSE condition

\* All the every-tick blocks of a behaviour: execute_block of one Executor on each.
execute_blocks(world, blocks, robot) ==
    execute_statement(NewExecutor(world), Block(blocks), robot)
=============================================================================
