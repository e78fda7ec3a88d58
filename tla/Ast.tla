---------------------------------- MODULE Ast ----------------------------------
(***************************************************************************)
(* Programs as the parser leaves them (include/ast/ast.h).  Each node is a *)
(* record whose first field names its type; line and column, which only    *)
(* word error messages, are left out.  The operators of the language are   *)
(* named as the IR names them.                                             *)
(***************************************************************************)
EXTENDS Integers, Sequences

\* Expressions.
IntLiteral(n) == [expr |-> "int", int |-> n]
BoolLiteral(b) == [expr |-> "bool", bool |-> b]
Variable(name) == [expr |-> "variable", name |-> name]
Binary(op, left, right) == [expr |-> "binary", op |-> op, left |-> left, right |-> right]
Unary(op, operand) == [expr |-> "unary", op |-> op, operand |-> operand]
Call(callee, arguments) == [expr |-> "call", callee |-> callee, arguments |-> arguments]
Assign(name, value) == [expr |-> "assign", name |-> name, value |-> value]

\* Statements.  An else branch is a sequence of no statement or one.
ExprStmt(expression) == [stmt |-> "expr", expression |-> expression]
Block(statements) == [stmt |-> "block", statements |-> statements]
If(condition, then_branch, else_branch) ==
    [stmt |-> "if", condition |-> condition, then_branch |-> then_branch,
     else_branch |-> else_branch]

\* Declarations; a program is a sequence of them.  event_blocks is the sequence
\* of the blocks of a behaviour's "every tick" clauses.
WorldDecl(width, height) == [decl |-> "world", width |-> width, height |-> height]
RobotDecl(name, x, y) == [decl |-> "robot", name |-> name, x |-> x, y |-> y]
TargetDecl(name, x, y) == [decl |-> "target", name |-> name, x |-> x, y |-> y]
ObstacleDecl(x, y) == [decl |-> "obstacle", x |-> x, y |-> y]
BehaviorDecl(robot_name, event_blocks) ==
    [decl |-> "behavior", robot_name |-> robot_name, event_blocks |-> event_blocks]

\* The declarations of some kinds, in the order of the program.
Declared(declarations, kinds) ==
    SelectSeq(declarations, LAMBDA d : d.decl \in kinds)
=============================================================================
