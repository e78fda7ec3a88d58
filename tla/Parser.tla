--------------------------------- MODULE Parser ---------------------------------
(***************************************************************************)
(* The recursive-descent parser: src/parser/parser.cpp.  tokens_ is the    *)
(* parameter ts, whose last token is the end of the file; current_ and     *)
(* error_ are the record p, threaded through the functions, which return   *)
(* [p, node].  error is the index of the token that the first error is     *)
(* reported at, or 0.  A token's type is written as the token is.          *)
(***************************************************************************)
EXTENDS Ast, SequencesExt

Token(type) == [type |-> type, lexeme |-> "", int_value |-> 0]
Identifier(name) == [type |-> "identifier", lexeme |-> name, int_value |-> 0]
Integer(n) == [type |-> "integer", lexeme |-> "", int_value |-> n]
EndOfFile == Token("EOF")

Start == [current |-> 1, error |-> 0]

peek(ts, p) == ts[p.current]
previous(ts, p) == ts[p.current - 1]
is_at_end(ts, p) == peek(ts, p).type = "EOF"
check(ts, p, type) == ~is_at_end(ts, p) /\ peek(ts, p).type = type

advance(ts, p) == IF is_at_end(ts, p) THEN p ELSE [p EXCEPT !.current = @ + 1]

\* Mutant of report_error: the last error stays.
LastErrorStays(p) == [p EXCEPT !.error = p.current]

\* The first error stays.
report_error(p) == IF p.error = 0 THEN [p EXCEPT !.error = p.current] ELSE p

\* Mutant of consume: the end of the file closes every block.
EndCloses(ts, p, type) ==
    IF check(ts, p, type) THEN advance(ts, p)
    ELSE IF type = "}" /\ is_at_end(ts, p) THEN p ELSE report_error(p)

\* consume, without the token it returns: that is previous(ts, p) when there is no
\* error, and after an error no tree is returned.
consume(ts, p, type) ==
    IF check(ts, p, type) THEN advance(ts, p) ELSE report_error(p)

consume_all(ts, p, types) ==
    FoldLeft(LAMBDA q, type : consume(ts, q, type), p, types)

\* A loop over the items of a block goes on.
Inside(ts, p) == ~check(ts, p, "}") /\ ~is_at_end(ts, p) /\ p.error = 0

Result(p, node) == [p |-> p, node |-> node]

-----------------------------------------------------------------------------
(* Expressions.  The four loops of parse_equality, parse_comparison,        *)
(* parse_term and parse_factor differ in their operators only.              *)

Levels == <<{"==", "!="}, {"<", "<=", ">", ">="}, {"+", "-"}, {"*", "/"}>>

BinaryOp(type) ==
    CASE type = "==" -> "Eq" [] type = "!=" -> "Ne"
      [] type = "<" -> "Lt" [] type = "<=" -> "Le"
      [] type = ">" -> "Gt" [] type = ">=" -> "Ge"
      [] type = "+" -> "Add" [] type = "-" -> "Sub"
      [] type = "*" -> "Mul" [] type = "/" -> "Div"

UnaryOp(type) == IF type = "!" THEN "Not" ELSE "Neg"

\* Nodes made of what was parsed last, which tells where the parser is.
AssignOf(name, value) == Result(value.p, Assign(name, value.node))
BinaryOf(op, left, right) == Result(right.p, Binary(op, left.node, right.node))
UnaryOf(op, operand) == Result(operand.p, Unary(op, operand.node))
CallOf(ts, callee, given) ==
    Result(consume(ts, given.p, ")"), Call(callee.node.name, given.node))
InParentheses(ts, inner) == Result(consume(ts, inner.p, ")"), inner.node)

\* An item of a sequence that is being read.
AppendOf(before, item) == Result(item.p, Append(before.node, item.node))

RECURSIVE parse_expression(_, _), assign_to(_, _), parse_binary(_, _, _),
          more_binary(_, _, _), parse_unary(_, _), more_calls(_, _), finish_call(_, _),
          parse_arguments(_, _), more_arguments(_, _), parse_primary(_, _)

\* parse_assignment; a variable in parentheses is a variable.
parse_expression(ts, p) == assign_to(ts, parse_binary(ts, p, 1))

assign_to(ts, left) ==
    IF left.node.expr = "variable" /\ check(ts, left.p, "=")
    THEN AssignOf(left.node.name, parse_expression(ts, advance(ts, left.p)))
    ELSE left

\* The operand of a level is the next level.
Operand(ts, p, level) ==
    IF level = 4 THEN parse_unary(ts, p) ELSE parse_binary(ts, p, level + 1)

parse_binary(ts, p, level) == more_binary(ts, Operand(ts, p, level), level)

\* Mutant of more_binary: operators of a level associate to the right.
RightAssociative(ts, left, level) ==
    IF peek(ts, left.p).type \notin Levels[level] THEN left
    ELSE BinaryOf(BinaryOp(peek(ts, left.p).type), left,
                  parse_binary(ts, advance(ts, left.p), level))

more_binary(ts, left, level) ==
    IF peek(ts, left.p).type \notin Levels[level] THEN left
    ELSE more_binary(ts, BinaryOf(BinaryOp(peek(ts, left.p).type), left,
                                  Operand(ts, advance(ts, left.p), level)), level)

parse_unary(ts, p) ==
    IF peek(ts, p).type \in {"!", "-"}
    THEN UnaryOf(UnaryOp(peek(ts, p).type), parse_unary(ts, advance(ts, p)))
    ELSE more_calls(ts, parse_primary(ts, p))

\* The loop of parse_call.
more_calls(ts, callee) ==
    IF check(ts, callee.p, "(")
    THEN more_calls(ts, finish_call(ts, Result(advance(ts, callee.p), callee.node)))
    ELSE callee

\* The loop of finish_call.
parse_arguments(ts, before) ==
    more_arguments(ts, AppendOf(before, parse_expression(ts, before.p)))

more_arguments(ts, before) ==
    IF check(ts, before.p, ",")
    THEN parse_arguments(ts, Result(advance(ts, before.p), before.node))
    ELSE before

\* What is called must be a name; it is looked at after the parenthesis.
finish_call(ts, callee) ==
    LET none == Result(callee.p, << >>)
    IN  IF callee.node.expr # "variable" THEN Result(report_error(callee.p), callee.node)
        ELSE CallOf(ts, callee, IF check(ts, callee.p, ")") THEN none
                                ELSE parse_arguments(ts, none))

parse_primary(ts, p) ==
    LET token == peek(ts, p)
        next == advance(ts, p)
    IN  CASE token.type = "integer" -> Result(next, IntLiteral(token.int_value))
          [] token.type = "true" -> Result(next, BoolLiteral(TRUE))
          [] token.type = "false" -> Result(next, BoolLiteral(FALSE))
          [] token.type = "identifier" -> Result(next, Variable(token.lexeme))
          [] token.type = "(" -> InParentheses(ts, parse_expression(ts, next))
          [] OTHER -> Result(report_error(p), IntLiteral(0))

-----------------------------------------------------------------------------
(* Statements.                                                              *)

ExprStmtOf(ts, value) == Result(consume(ts, value.p, ";"), ExprStmt(value.node))
BlockOf(ts, inside) == Result(consume(ts, inside.p, "}"), Block(inside.node))
IfOf(condition, then_branch, else_branch) ==
    Result(else_branch.p, If(condition.node, then_branch.node, else_branch.node))
Alone(branch) == Result(branch.p, <<branch.node>>)

RECURSIVE parse_statement(_, _), parse_block(_, _), statements(_, _)

parse_expression_statement(ts, p) == ExprStmtOf(ts, parse_expression(ts, p))

\* A branch of an if is a block.
parse_branch(ts, p) ==
    IF check(ts, p, "{") THEN parse_block(ts, p)
    ELSE Result(report_error(p), Block(<< >>))

\* Mutant of parse_else: the else branch is read and forgotten.
ElseForgotten(ts, condition, then_branch) ==
    IfOf(condition, then_branch,
         IF check(ts, then_branch.p, "else")
         THEN Result(parse_branch(ts, advance(ts, then_branch.p)).p, << >>)
         ELSE Result(then_branch.p, << >>))

parse_else(ts, condition, then_branch) ==
    IfOf(condition, then_branch,
         IF check(ts, then_branch.p, "else")
         THEN Alone(parse_branch(ts, advance(ts, then_branch.p)))
         ELSE Result(then_branch.p, << >>))

parse_then(ts, condition) == parse_else(ts, condition, parse_branch(ts, condition.p))
parse_if_statement(ts, p) == parse_then(ts, parse_expression(ts, p))

parse_statement(ts, p) ==
    IF check(ts, p, "if") THEN parse_if_statement(ts, advance(ts, p))
    ELSE IF check(ts, p, "{") THEN parse_block(ts, p)
    ELSE parse_expression_statement(ts, p)

\* The loop of parse_block: [p, node], node the sequence of statements read so far.
statements(ts, before) ==
    IF ~Inside(ts, before.p) THEN before
    ELSE statements(ts, AppendOf(before, parse_statement(ts, before.p)))

parse_block(ts, p) ==
    BlockOf(ts, statements(ts, Result(consume(ts, p, "{"), << >>)))

-----------------------------------------------------------------------------
(* Declarations.  p is behind the keyword; the token that is n from there    *)
(* is ts[p.current + n], of which only a successful parse makes use.         *)

parse_world_decl(ts, p) ==
    LET q == consume_all(ts, p, <<"integer", "integer", ";">>)
    IN  Result(q, IF q.error # 0 THEN WorldDecl(0, 0)
                  ELSE WorldDecl(ts[p.current].int_value, ts[p.current + 1].int_value))

\* The name and place of a robot or a target.
Named(ts, p) ==
    LET q == consume_all(ts, p, <<"identifier", "at", "integer", "integer", ";">>)
    IN  Result(q, IF q.error # 0 THEN <<"", 0, 0>>
                  ELSE <<ts[p.current].lexeme, ts[p.current + 2].int_value,
                         ts[p.current + 3].int_value>>)

parse_robot_decl(ts, p) ==
    LET named == Named(ts, p)
    IN  Result(named.p, RobotDecl(named.node[1], named.node[2], named.node[3]))

parse_target_decl(ts, p) ==
    LET named == Named(ts, p)
    IN  Result(named.p, TargetDecl(named.node[1], named.node[2], named.node[3]))

parse_obstacle_decl(ts, p) ==
    LET q == consume_all(ts, p, <<"at", "integer", "integer", ";">>)
    IN  Result(q, IF q.error # 0 THEN ObstacleDecl(0, 0)
                  ELSE ObstacleDecl(ts[p.current + 1].int_value,
                                    ts[p.current + 2].int_value))

parse_every_tick_block(ts, p) ==
    parse_block(ts, consume_all(ts, p, <<"every", "tick">>))

RECURSIVE event_blocks(_, _), declarations(_, _)

event_blocks(ts, before) ==
    IF ~Inside(ts, before.p) THEN before
    ELSE event_blocks(ts, AppendOf(before, parse_every_tick_block(ts, before.p)))

BehaviorOf(ts, name, blocks) ==
    Result(consume(ts, blocks.p, "}"), BehaviorDecl(name, blocks.node))

parse_behavior_decl(ts, p) ==
    LET q == consume_all(ts, p, <<"identifier", "{">>)
    IN  BehaviorOf(ts, ts[p.current].lexeme, event_blocks(ts, Result(q, << >>)))

parse_declaration(ts, p) ==
    LET next == advance(ts, p)
    IN  CASE check(ts, p, "world") -> parse_world_decl(ts, next)
          [] check(ts, p, "robot") -> parse_robot_decl(ts, next)
          [] check(ts, p, "target") -> parse_target_decl(ts, next)
          [] check(ts, p, "obstacle") -> parse_obstacle_decl(ts, next)
          [] check(ts, p, "behavior") -> parse_behavior_decl(ts, next)
          [] OTHER -> Result(report_error(p), << >>)

\* The loop of parse_program.
declarations(ts, before) ==
    IF is_at_end(ts, before.p) \/ before.p.error # 0 THEN before
    ELSE declarations(ts, AppendOf(before, parse_declaration(ts, before.p)))

parse_program(tokens) == declarations(Append(tokens, EndOfFile), Result(Start, << >>))

Parses(tokens) == parse_program(tokens).p.error = 0
=============================================================================
