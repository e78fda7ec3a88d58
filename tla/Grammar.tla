--------------------------------- MODULE Grammar ---------------------------------
(***************************************************************************)
(* What the parser is compared with: the grammar of docs/grammar.md, the    *)
(* grammar that the parser accepts instead, and the derivation trees of an *)
(* expression.  Nothing here translates code.                              *)
(*                                                                         *)
(* A grammar is a function from its nonterminals to their alternatives,    *)
(* sequences of symbols.  A symbol that it is not defined on is a token's  *)
(* type.  A repetition is a nonterminal of its own ("declarations").       *)
(***************************************************************************)
EXTENDS Ast, TLC

Optional(what) == {<< >>, <<what>>}
Some(what, all) == {<< >>, <<what, all>>}
AnyOf(types) == {<<type>> : type \in types}

Declarations ==
    [program |-> {<<"declarations", "EOF">>},
     declarations |-> Some("declaration", "declarations"),
     declaration |-> {
        <<"world", "integer", "integer", ";">>,
        <<"robot", "identifier", "at", "integer", "integer", ";">>,
        <<"target", "identifier", "at", "integer", "integer", ";">>,
        <<"obstacle", "at", "integer", "integer", ";">>,
        <<"behavior", "identifier", "{", "event_blocks", "}">>},
     event_blocks |-> Some("event_block", "event_blocks"),
     event_block |-> {<<"every", "tick", "block">>}]

Statements ==
    [block |-> {<<"{", "statements", "}">>},
     statements |-> Some("statement", "statements"),
     statement |-> {<<"if", "expression", "block", "else_clause">>,
                    <<"block">>,
                    <<"expression", ";">>},
     else_clause |-> {<< >>, <<"else", "block">>}]

\* operand (operator operand)*
Level(operand, more) == {<<operand, more>>}
More(operators, operand, more) ==
    {<< >>} \cup {<<op, operand, more>> : op \in operators}

Expressions ==
    [expression |-> {<<"assignment">>},
     equality |-> Level("comparison", "equalities"),
     equalities |-> More({"==", "!="}, "comparison", "equalities"),
     comparison |-> Level("term", "comparisons"),
     comparisons |-> More({"<", "<=", ">", ">="}, "term", "comparisons"),
     term |-> Level("factor", "terms"),
     terms |-> More({"+", "-"}, "factor", "terms"),
     factor |-> Level("unary", "factors"),
     factors |-> More({"*", "/"}, "unary", "factors"),
     unary |-> {<<"!", "unary">>, <<"-", "unary">>, <<"call">>},
     call_arguments |-> {<<"(", "given", ")">>},
     given |-> Optional("arguments"),
     arguments |-> {<<"expression", "more_arguments">>},
     more_arguments |-> {<< >>, <<",", "arguments">>},
     primary |-> AnyOf({"integer", "true", "false", "identifier"})
                 \cup {<<"(", "expression", ")">>}]

Common == Declarations @@ Statements @@ Expressions

AnyCallee == [call |-> {<<"primary", "calls">>}, calls |-> Some("call_arguments", "calls")]

AnyName == [assignment |-> {<<"name", "=", "assignment">>, <<"equality">>},
            name |-> {<<"identifier">>, <<"(", "name", ")">>}]

\* docs/grammar.md, sections 1 to 4.
Documented == Common @@ AnyCallee @@
    [assignment |-> {<<"identifier", "=", "assignment">>, <<"equality">>}]

\* What the parser accepts: the target of an assignment and what is called may stand
\* in parentheses, and only a name can be called, once.
Accepted == Common @@ AnyName @@
    [call |-> {<<"primary">>, <<"name", "call_arguments">>}]

\* A grammar of what is in either.
Either == Common @@ AnyCallee @@ AnyName

Nonterminals == DOMAIN Either

\* Where symbols derived from a position in a set from can end.  The position behind
\* the text is Len(text) + 1; Len(text) + 2 says that the text ran out before.
RECURSIVE Ends(_, _, _, _)
Ends(grammar, text, symbols, from) ==
    IF symbols = << >> \/ from = {} THEN from
    ELSE LET first == Head(symbols)
             ranOut == from \cap {Len(text) + 2}
             here == from \ ranOut
             next == IF first \in Nonterminals
                     THEN UNION {Ends(grammar, text, alternative, here) :
                                    alternative \in grammar[first]}
                     ELSE {i + 1 : i \in {j \in here :
                                             j > Len(text) \/ text[j].type = first}}
         IN  Ends(grammar, text, Tail(symbols), next \cup ranOut)

\* Is text, without its end of file, a program?
IsSentence(grammar, text) ==
    Len(text) + 1 \in Ends(grammar, text, <<"declarations">>, {1})

\* Does a program begin with text?
IsViable(grammar, text) ==
    Ends(grammar, text, <<"declarations">>, {1}) \cap {Len(text) + 1, Len(text) + 2} # {}

-----------------------------------------------------------------------------
(* The trees of an expression, from the last operator of the weakest level   *)
(* down: "Assignment is right-associative.  Other binary operators are        *)
(* left-associative."                                                        *)

Operators == <<
    ("==" :> "Eq" @@ "!=" :> "Ne"),
    ("<" :> "Lt" @@ "<=" :> "Le" @@ ">" :> "Gt" @@ ">=" :> "Ge"),
    ("+" :> "Add" @@ "-" :> "Sub"),
    ("*" :> "Mul" @@ "/" :> "Div")>>

RECURSIVE Trees(_, _, _, _), ArgumentLists(_, _, _)

\* Of text[i .. j]; level 0 is an assignment, 1 to 4 are those of Operators, 5 is
\* unary and 6 call.
Trees(text, level, i, j) ==
    LET At(types) == {k \in i .. j : text[k].type \in types}
        IsName(to) ==       \* a name, in any number of parentheses
            \E k \in 0 .. j : /\ to = i + 2 * k
                              /\ text[i + k].type = "identifier"
                              /\ \A n \in i .. i + k - 1 : text[n].type = "("
                              /\ \A n \in i + k + 1 .. to : text[n].type = ")"
        NameOf(to) == text[i + (to - i) \div 2].lexeme
    IN  IF i > j THEN {}
        ELSE CASE
            level = 0 ->
                UNION {{Assign(NameOf(k - 1), value) : value \in Trees(text, 0, k + 1, j)} :
                          k \in {n \in At({"="}) : n > i /\ IsName(n - 1)}}
                \cup Trees(text, 1, i, j)
          [] level \in 1 .. 4 ->
                UNION {{Binary(Operators[level][text[k].type], left, right) :
                            left \in Trees(text, level, i, k - 1),
                            right \in Trees(text, level + 1, k + 1, j)} :
                          k \in At(DOMAIN Operators[level])}
                \cup Trees(text, level + 1, i, j)
          [] level = 5 ->
                (IF text[i].type \in {"!", "-"}
                 THEN {Unary(IF text[i].type = "!" THEN "Not" ELSE "Neg", operand) :
                          operand \in Trees(text, 5, i + 1, j)}
                 ELSE {})
                \cup Trees(text, 6, i, j)
          [] level = 6 ->
                (IF text[j].type # ")" THEN {}
                 ELSE UNION {{Call(NameOf(k - 1), arguments) :
                                 arguments \in ArgumentLists(text, k + 1, j - 1)} :
                                k \in {n \in At({"("}) : n > i /\ IsName(n - 1)}}
                      \cup (IF text[i].type = "(" THEN Trees(text, 0, i + 1, j - 1)
                            ELSE {}))
                \cup (IF i # j THEN {}
                      ELSE CASE text[i].type = "integer" -> {IntLiteral(text[i].int_value)}
                             [] text[i].type = "identifier" -> {Variable(text[i].lexeme)}
                             [] text[i].type = "true" -> {BoolLiteral(TRUE)}
                             [] text[i].type = "false" -> {BoolLiteral(FALSE)}
                             [] OTHER -> {})

ArgumentLists(text, i, j) ==
    IF i > j THEN {<< >>}
    ELSE {<<only>> : only \in Trees(text, 0, i, j)}
         \cup UNION {{<<first>> \o others : first \in Trees(text, 0, i, k - 1),
                                            others \in ArgumentLists(text, k + 1, j) \ {<< >>}} :
                        k \in {n \in i .. j : text[n].type = ","}}
=============================================================================
