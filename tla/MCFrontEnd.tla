------------------------------- MODULE MCFrontEnd -------------------------------
(***************************************************************************)
(* Three places to type: the declarations of a program, the statements of  *)
(* a behaviour, and the expression of a statement.                         *)
(***************************************************************************)
EXTENDS FrontEnd

CONSTANTS MostDeclared, MostStated, MostExpressed

Behavior == <<Token("behavior"), Identifier("R"), Token("{"), Token("every"), Token("tick"),
              Token("{")>>
Ends2 == <<Token("}"), Token("}")>>

MCFrames == [
    declarations |->
        [prefix |-> << >>, suffix |-> << >>, most |-> MostDeclared,
         vocabulary |-> {"world", "robot", "target", "obstacle", "behavior", "every", "tick",
                         "at", "identifier", "integer", ";", "{", "}"}],
    statements |->
        [prefix |-> Behavior, suffix |-> Ends2, most |-> MostStated,
         vocabulary |-> {"if", "else", "{", "}", "identifier", "(", ")", ";", "every"}],
    expression |->
        [prefix |-> Behavior, suffix |-> <<Token(";")>> \o Ends2, most |-> MostExpressed,
         vocabulary |-> {"integer", "identifier", "(", ")", ",", "=", "==", "<",
                         "-", "*"}]]
=============================================================================
