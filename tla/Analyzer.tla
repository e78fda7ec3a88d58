-------------------------------- MODULE Analyzer --------------------------------
(***************************************************************************)
(* The semantic analyzer: src/semantic/analyzer.cpp.  Its member variables *)
(* are the record `known`, threaded through the declarations, statements   *)
(* and expressions in source order; the first error reported stays and     *)
(* stops the analysis, whose other results then do not matter.             *)
(***************************************************************************)
EXTENDS Ast, SequencesExt

builtins ==
    [move_up |-> "void", move_down |-> "void", move_left |-> "void",
     move_right |-> "void", move_forward |-> "void", move_toward |-> "void",
     turn_left |-> "void", turn_right |-> "void", stop |-> "void",
     distance_to |-> "int", obstacle_ahead |-> "bool", collision |-> "bool"]

NeedsTarget == {"move_toward", "distance_to"}

Start ==
    [error |-> "", has_world |-> FALSE, width |-> 0, height |-> 0,
     robots |-> {}, targets |-> {}, variables |-> << >>, occupied |-> {},
     with_behavior |-> {}]

Report(known, message) ==
    IF known.error = "" THEN [known EXCEPT !.error = message] ELSE known

has_error(known) == known.error # ""

-----------------------------------------------------------------------------
(* Expressions: [known, type].  variables is a sequence of <<name, type>>    *)
(* pairs, the latest assignment of a name last.                              *)

TypeOf(known, name) ==
    SelectLastInSeq(known.variables, LAMBDA entry : entry[1] = name)

type_of_binary(op, left, right) ==
    CASE op \in {"Add", "Sub", "Mul", "Div"} ->
            IF left # "int" \/ right # "int"
            THEN <<"arithmetic operands must be integers", "int">> ELSE <<"", "int">>
      [] op \in {"Lt", "Le", "Gt", "Ge"} ->
            IF left # "int" \/ right # "int"
            THEN <<"comparison operands must be integers", "int">> ELSE <<"", "bool">>
      [] op \in {"Eq", "Ne"} ->
            IF left # right THEN <<"equality operands must have the same type", "bool">>
            ELSE IF left = "void"
            THEN <<"equality operands must be integer or boolean", "bool">>
            ELSE <<"", "bool">>

type_of_unary(op, operand) ==
    CASE op = "Not" -> IF operand # "bool"
                       THEN <<"logical not requires a boolean operand", "bool">>
                       ELSE <<"", "bool">>
      [] op = "Neg" -> IF operand # "int"
                       THEN <<"unary minus requires an integer operand", "int">>
                       ELSE <<"", "int">>

analyze_call(known, call) ==
    LET arity == IF call.callee \in NeedsTarget THEN 1 ELSE 0
    IN  IF call.callee \notin DOMAIN builtins
        THEN [known |-> Report(known, "unknown function"), type |-> "int"]
        ELSE [type |-> builtins[call.callee],
              known |->
                IF Len(call.arguments) # arity
                THEN Report(known, "wrong number of arguments")
                ELSE IF arity = 1 /\ call.arguments[1].expr # "variable"
                THEN Report(known, "requires a target name")
                ELSE IF arity = 1 /\ call.arguments[1].name \notin known.targets
                THEN Report(known, "unknown target")
                ELSE known]

RECURSIVE analyze_expression(_, _)
analyze_expression(known, e) ==
    CASE e.expr \in {"int", "bool"} -> [known |-> known, type |-> e.expr]
      [] e.expr = "variable" ->
            LET i == TypeOf(known, e.name)
            IN  IF i = 0 THEN [known |-> Report(known, "unknown variable"), type |-> "int"]
                ELSE [known |-> known, type |-> known.variables[i][2]]
      [] e.expr = "binary" ->
            LET left == analyze_expression(known, e.left)
                right == analyze_expression(left.known, e.right)
                verdict == type_of_binary(e.op, left.type, right.type)
            IN  IF has_error(right.known) THEN right
                ELSE [known |-> Report(right.known, verdict[1]), type |-> verdict[2]]
      [] e.expr = "unary" ->
            LET operand == analyze_expression(known, e.operand)
                verdict == type_of_unary(e.op, operand.type)
            IN  IF has_error(operand.known) THEN operand
                ELSE [known |-> Report(operand.known, verdict[1]), type |-> verdict[2]]
      [] e.expr = "call" -> analyze_call(known, e)
      [] e.expr = "assign" ->
            LET value == analyze_expression(known, e.value)
            IN  IF has_error(value.known) THEN value
                ELSE IF value.type = "void"
                THEN [known |-> Report(value.known, "assignment value must be integer or boolean"),
                      type |-> "int"]
                ELSE [known |-> [value.known EXCEPT
                                   !.variables = Append(@, <<e.name, value.type>>)],
                      type |-> value.type]

-----------------------------------------------------------------------------
(* Statements.                                                               *)

RECURSIVE analyze_statement(_, _)
analyze_statement(known, s) ==
    IF has_error(known) THEN known
    ELSE CASE s.stmt = "expr" ->
                LET value == analyze_expression(known, s.expression)
                IN  IF value.type # "void" /\ s.expression.expr # "assign"
                    THEN Report(value.known,
                                "expression statement must be an action call or assignment")
                    ELSE value.known
           [] s.stmt = "block" -> FoldLeft(analyze_statement, known, s.statements)
           [] s.stmt = "if" ->
                LET condition == analyze_expression(known, s.condition)
                IN  IF condition.type # "bool"
                    THEN Report(condition.known, "if condition must be boolean")
                    ELSE FoldLeft(analyze_statement, condition.known,
                                  <<s.then_branch>> \o s.else_branch)

-----------------------------------------------------------------------------
(* Declarations.                                                             *)

is_inside_world(known, x, y) ==
    x >= 0 /\ y >= 0 /\ x < known.width /\ y < known.height

\* check_coordinate, then occupy_cell.
TakeCell(known, x, y) ==
    IF ~is_inside_world(known, x, y) THEN Report(known, "position is outside world")
    ELSE IF <<x, y>> \in known.occupied THEN Report(known, "overlaps another entity")
    ELSE [known EXCEPT !.occupied = @ \cup {<<x, y>>}]

analyze_world(known, d) ==
    IF known.has_world THEN Report(known, "program may declare only one world")
    ELSE IF d.width <= 0 \/ d.height <= 0
    THEN Report(known, "world width and height must be positive")
    ELSE [known EXCEPT !.has_world = TRUE, !.width = d.width, !.height = d.height]

analyze_robot(known, d) ==
    IF d.name \in known.robots THEN Report(known, "duplicate robot name")
    ELSE [TakeCell(known, d.x, d.y) EXCEPT !.robots = @ \cup {d.name}]

analyze_target(known, d) ==
    IF d.name \in known.targets THEN Report(known, "duplicate target name")
    ELSE [TakeCell(known, d.x, d.y) EXCEPT !.targets = @ \cup {d.name}]

analyze_obstacle(known, d) == TakeCell(known, d.x, d.y)

\* Mutant of analyze_behavior: variables of earlier behaviours stay known.
VariablesStay(known, d) ==
    IF d.robot_name \notin known.robots
    THEN Report(known, "behavior refers to unknown robot")
    ELSE IF d.robot_name \in known.with_behavior
    THEN Report(known, "robot already has a behavior block")
    ELSE FoldLeft(analyze_statement,
                  [known EXCEPT !.with_behavior = @ \cup {d.robot_name}],
                  d.event_blocks)

analyze_behavior(known, d) ==
    IF d.robot_name \notin known.robots
    THEN Report(known, "behavior refers to unknown robot")
    ELSE IF d.robot_name \in known.with_behavior
    THEN Report(known, "robot already has a behavior block")
    ELSE LET inside == [known EXCEPT !.with_behavior = @ \cup {d.robot_name},
                                     !.variables = << >>]
         IN  [FoldLeft(analyze_statement, inside, d.event_blocks)
                EXCEPT !.variables = << >>]

analyze_declaration(known, d) ==
    IF has_error(known) THEN known
    ELSE IF d.decl = "world" THEN analyze_world(known, d)
    ELSE IF ~known.has_world
    THEN Report(known, "world must be declared before other declarations")
    ELSE CASE d.decl = "robot" -> analyze_robot(known, d)
           [] d.decl = "target" -> analyze_target(known, d)
           [] d.decl = "obstacle" -> analyze_obstacle(known, d)
           [] d.decl = "behavior" -> analyze_behavior(known, d)

analyze(declarations) ==
    LET known == FoldLeft(analyze_declaration, Start, declarations)
    IN  IF ~known.has_world THEN Report(known, "program must declare exactly one world")
        ELSE known

Accepts(declarations) == ~has_error(analyze(declarations))
=============================================================================
