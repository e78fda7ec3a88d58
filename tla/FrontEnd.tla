-------------------------------- MODULE FrontEnd --------------------------------
(***************************************************************************)
(* The parser on every text that can be typed, token by token, into a      *)
(* place of a program: as long as what stands there can still become a     *)
(* program another token is typed, right or wrong.  After each one the     *)
(* whole text is parsed.                                                   *)
(***************************************************************************)
EXTENDS Parser

\* The documented grammar, the parser's own, and the trees of an expression.
G == INSTANCE Grammar

\* Frames[f] is a place: its prefix and suffix (sequences of tokens), vocabulary (the
\* types of the tokens that are typed) and most, the bound on their number.
CONSTANT Frames

ASSUME FramesAssumption ==
    \A f \in DOMAIN Frames : Frames[f].most \in Nat

VARIABLES
    frame,      \* the place
    typed,      \* the tokens typed there
    viable,     \* can what is typed become a program, by either grammar?
    result      \* what parse_program makes of the text

vars == <<frame, typed, viable, result>>

Before == Frames[frame].prefix \o typed
text == Before \o Frames[frame].suffix

\* Every name and number that is typed differs from all others in the text.
Names == <<"a", "b", "c", "d", "e", "f", "g", "h", "i", "j", "k", "l">>

TokenAt(type, n) ==
    CASE type = "identifier" -> Identifier(Names[n])
      [] type = "integer" -> Integer(n)
      [] OTHER -> Token(type)

Init ==
    /\ frame \in DOMAIN Frames /\ typed = << >>
    /\ viable = TRUE
    /\ result = parse_program(text)

Open == viable /\ Len(typed) < Frames[frame].most

Type ==
    /\ Open
    /\ \E type \in Frames[frame].vocabulary :
          LET token == TokenAt(type, Len(typed) + 1)
              now == Append(Before, token)
          IN  /\ typed' = Append(typed, token)
              /\ viable' = G!IsViable(G!Either, now)
              /\ result' = parse_program(now \o Frames[frame].suffix)
    /\ UNCHANGED frame

Closed == ~Open /\ UNCHANGED vars

Next == Type \/ Closed

Spec == Init /\ [][Next]_vars

Accepts == result.p.error = 0

-----------------------------------------------------------------------------
(* The text that a tree says, with all parentheses.                          *)

Symbol(op) == CHOOSE type \in UNION {Levels[l] : l \in DOMAIN Levels} : BinaryOp(type) = op
Within(tokens) == <<Token("(")>> \o tokens \o <<Token(")")>>
Between(tokens, open, close) == <<Token(open)>> \o tokens \o <<Token(close)>>

RECURSIVE SayExpression(_), SayStatement(_)

SayArguments(arguments) ==
    FoldLeftDomain(LAMBDA said, n :
                      said \o (IF n = 1 THEN << >> ELSE <<Token(",")>>)
                           \o SayExpression(arguments[n]),
                   << >>, arguments)

SayExpression(e) ==
    CASE e.expr = "int" -> <<Integer(e.int)>>
      [] e.expr = "bool" -> <<Token(IF e.bool THEN "true" ELSE "false")>>
      [] e.expr = "variable" -> <<Identifier(e.name)>>
      [] e.expr = "binary" ->
            Within(SayExpression(e.left) \o <<Token(Symbol(e.op))>> \o SayExpression(e.right))
      [] e.expr = "unary" ->
            Within(<<Token(IF e.op = "Not" THEN "!" ELSE "-")>> \o SayExpression(e.operand))
      [] e.expr = "call" -> <<Identifier(e.callee)>> \o Within(SayArguments(e.arguments))
      [] e.expr = "assign" ->
            Within(<<Identifier(e.name), Token("=")>> \o SayExpression(e.value))

SayStatement(s) ==
    CASE s.stmt = "expr" -> Append(SayExpression(s.expression), Token(";"))
      [] s.stmt = "block" ->
            Between(FlattenSeq([n \in DOMAIN s.statements |-> SayStatement(s.statements[n])]),
                    "{", "}")
      [] s.stmt = "if" ->
            <<Token("if")>> \o SayExpression(s.condition) \o SayStatement(s.then_branch)
            \o (IF s.else_branch = << >> THEN << >>
                ELSE <<Token("else")>> \o SayStatement(s.else_branch[1]))

SayPlace(x, y) == <<Integer(x), Integer(y), Token(";")>>
SayNamed(d) == <<Token(d.decl), Identifier(d.name), Token("at")>> \o SayPlace(d.x, d.y)

SayDeclaration(d) ==
    CASE d.decl = "world" -> <<Token("world")>> \o SayPlace(d.width, d.height)
      [] d.decl \in {"robot", "target"} -> SayNamed(d)
      [] d.decl = "obstacle" -> <<Token("obstacle"), Token("at")>> \o SayPlace(d.x, d.y)
      [] d.decl = "behavior" ->
            <<Token("behavior"), Identifier(d.robot_name)>>
            \o Between(FlattenSeq([n \in DOMAIN d.event_blocks |->
                           <<Token("every"), Token("tick")>>
                           \o SayStatement(d.event_blocks[n])]), "{", "}")

Say(declared) == FlattenSeq([n \in DOMAIN declared |-> SayDeclaration(declared[n])])

-----------------------------------------------------------------------------
(* Properties.                                                              *)

\* parser.cpp accepts exactly the programs of a grammar that differs from the
\* documented one in two rules (Accepted, in Grammar): no lookahead, loop or early
\* return loses a program or lets another one through.  grammar.md: "This document
\* defines the v1 grammar for causis source files": by the two rules only texts go
\* astray in which the target of an assignment stands in parentheses, or something
\* other than a name is called.  (See the README.)
AcceptsItsGrammar ==
    LET Follows(second, firsts) ==
            \E n \in 2 .. Len(text) : text[n].type = second /\ text[n - 1].type \in firsts
        IsDocumented == G!IsSentence(G!Documented, text)
    IN  /\ Accepts <=> G!IsSentence(G!Accepted, text)
        /\ Accepts => IsDocumented \/ Follows("=", {")"})
        /\ IsDocumented => Accepts \/ Follows("(", {")", "integer", "true", "false"})

\* The line and column of a syntax error are those of the first token that no program
\* can have there, or the end of the file.  (What a parenthesis calls is looked at
\* behind it, so that a call of something that is no name is reported there.)
ErrorAtFirstBadToken ==
    LET error == result.p.error
        Begins(n) == G!IsViable(G!Accepted, SubSeq(text, 1, n))
        Here(n) == Begins(n - 1) /\ (n <= Len(text) => ~Begins(n))
    IN  ~Accepts => \/ Here(error)
                    \/ text[error - 1].type = "(" /\ Here(error - 1)

\* The tree of a program says what the text says, token by token, but for parentheses:
\* no branch, argument or declaration is lost, doubled or in another place.
TreeSaysTheText ==
    LET Plain(tokens) == SelectSeq(tokens, LAMBDA token : token.type \notin {"(", ")"})
    IN  Accepts => Plain(Say(result.node)) = Plain(text)

\* grammar.md, section 4: an expression has one derivation by precedence and
\* associativity, and the parser finds it.
OnlyDerivation ==
    (frame = "expression" /\ Accepts) =>
        {result.node[1].event_blocks[1].statements[1].expression}
            = G!Trees(typed, 0, 1, Len(typed))
=============================================================================
